-------------------------- MODULE UtxoCacheProofs --------------------------
(***************************************************************************)
(* What the UTXO cache guarantees to any number of concurrent callers,     *)
(* over any number of crashes and failures.                                *)
(***************************************************************************)
EXTENDS UtxoCache, SequenceTheorems, TLAPS

Working == {"fetch", "update", "apply", "index", "file", "store", "write"}

\* Coin n of the list is on the chain and belongs to the account.
Owned(l, acc, n) == n \in Nat /\ n < Len(chain[l]) /\ chain[l][n + 1].owner = acc

OfToken(tok, acc, n) ==
    Owned(ListOf(tok), acc, n) /\ chain[ListOf(tok)][n + 1].token = tok

\* The coins of the account below an index are among these, unless an update
\* has discarded some.
HasBelow(l, acc, from, coins) ==
    acc \notin discarded =>
        \A n \in 0..(from - 1) : chain[l][n + 1].owner = acc => n \in coins

\* What a tokenCache holds belongs to the account, and a list that claims to
\* be synced up to an index has the coins up to there.
CellInv(acc, k, cell) ==
    /\ cell.present
    /\ k \in Lists =>
          /\ \A n \in cell.coins : Owned(k, acc, n)
          /\ cell.latest < Len(chain[k])
          /\ HasBelow(k, acc, cell.latest + 1, cell.coins)
    /\ k \in Tokens => \A n \in cell.coins : OfToken(k, acc, n)

CacheInv(acc, caches) ==
    \A k \in Keys : caches[k] = NoCache \/ CellInv(acc, k, caches[k])

\* This holds of every tokenCache, also of one the map no longer points to: a
\* caller may still hold it, and put it back.
SlotsInv(acc, slots) ==
    \A k \in Keys : \A j \in 1..Len(slots[k].cells) : CellInv(acc, k, slots[k].cells[j])

HeapInv == \A o \in DOMAIN heap : SlotsInv(heap[o].acc, heap[o].slots)
DiskInv == \A a \in Accounts : CacheInv(a, disk[a].caches)
MapInv == \A a \in Accounts : cachedData[a] # 0 => heap[cachedData[a]].acc = a

\* The entry of the object the caller works on.
Slot(c, k) == heap[call[c].obj].slots[k]

\* The object a caller works on has every coin below the index the caller
\* started from, also if others have updated it since ...
FetchInv(c) ==
    LET l == ListOf(call[c].tok)
    IN  pc[c] \in {"fetch", "update"} =>
            /\ call[c].from > 0 => Slot(c, l).cur # 0
            /\ HasBelow(l, call[c].acc, call[c].from, Cached(Slot(c, l)).coins)

\* ... and so has the tokenCache it has read from the object; if there was none
\* the caller has started from the first coin.
ApplyInv(c) ==
    LET l == ListOf(call[c].tok)
        held == call[c].held
    IN  pc[c] = "apply" =>
            /\ held <= Len(Slot(c, l).cells)
            /\ held = 0 => call[c].from = 0
            /\ held # 0 =>
                  HasBelow(l, call[c].acc, call[c].from, Slot(c, l).cells[held].coins)

\* The coins that are still to be filed are the account's.
FileInv(c) ==
    /\ pc[c] \in {"index", "file"} =>
          /\ \A n \in call[c].fresh : Owned(CA, call[c].acc, n)
          /\ call[c].alias <= Len(Slot(c, CA).cells)
    /\ pc[c] = "file" =>
          /\ Owned(CA, call[c].acc, call[c].coin)
          /\ call[c].held <= Len(Slot(c, TokenOf(call[c].coin)).cells)

CallInv(c) ==
    LET l == ListOf(call[c].tok)
        acc == call[c].acc
        obj == call[c].obj
    IN  /\ pc[c] # "idle" => acc \in Accounts
        /\ pc[c] \in Working \cup {"getAccount"} => call[c].length <= Len(chain[l])
        /\ pc[c] \in Working => obj \in DOMAIN heap /\ heap[obj].acc = acc
        /\ pc[c] \in {"fetch", "update", "apply"} => call[c].from <= Len(chain[l])
        /\ pc[c] \in {"update", "apply"} =>
              call[c].data = GetCoinsByIndices(l, acc, call[c].from, call[c].length - 1)
        /\ pc[c] \in {"update", "apply", "index", "file"} => call[c].length >= 1
        /\ FetchInv(c) /\ ApplyInv(c) /\ FileInv(c)
        /\ pc[c] = "v1" \/ outcome[c] = "ok" =>
              \A n \in call[c].result : OfToken(call[c].tok, acc, n)

\* Who holds the mutex is writing, and a file that is cut off although
\* nothing has failed is being written.
MutexInv ==
    /\ \A c \in Callers : pc[c] = "write" <=> mtx = c
    /\ crashes \in Nat /\ storeFaults \in Nat
    /\ crashes + storeFaults = 0 =>
          \A a \in Accounts : disk[a].state = "damaged" =>
              mtx # NoCaller /\ call[mtx].acc = a

IInv == /\ TypeOK
        /\ HeapInv /\ DiskInv /\ MapInv /\ MutexInv
        /\ \A c \in Callers : CallInv(c)
        /\ DamageNeedsFault

-----------------------------------------------------------------------------
(* Objects, entries and tokenCaches.                                       *)

Object == [acc : Accounts, slots : [Keys -> SlotType]]

\* An entry of CachedTokens points to one of its tokenCaches, or to none.
LEMMA SlotFacts ==
    ASSUME NEW slot \in SlotType
    PROVE  /\ slot.cells \in Seq(CacheType)
           /\ Len(slot.cells) \in Nat
           /\ slot.cur \in 0..Len(slot.cells)
           /\ \A j \in 1..Len(slot.cells) : slot.cells[j] \in CacheType
           /\ Cached(slot) \in CacheType
           /\ slot.cur = 0 => Cached(slot) = NoCache
           /\ slot.cur # 0 => slot.cur \in 1..Len(slot.cells)
                              /\ Cached(slot) = slot.cells[slot.cur]
<1>1. slot \in [cur : Nat, cells : Seq(CacheType)] /\ slot.cur <= Len(slot.cells)
      BY DEF SlotType
<1>2. slot.cells \in Seq(CacheType) /\ slot.cur \in Nat
      BY <1>1
<1>3. Len(slot.cells) \in Nat
      BY <1>2, LenProperties
<1>4. \A j \in 1..Len(slot.cells) : slot.cells[j] \in CacheType
      BY <1>2, ElementOfSeq
<1>5. NoCache \in CacheType
      BY Zenon DEF NoCache, CacheType
<1> QED
    BY <1>1, <1>2, <1>3, <1>4, <1>5 DEF Cached

\* The types of the objects.
LEMMA ObjectsFacts ==
    ASSUME NEW objects \in Seq(Object)
    PROVE  /\ Len(objects) \in Nat /\ DOMAIN objects = 1..Len(objects)
           /\ \A o \in DOMAIN objects :
                 /\ objects[o] \in Object /\ objects[o].acc \in Accounts
                 /\ \A k \in Keys : objects[o].slots[k] \in SlotType
<1>1. /\ Len(objects) \in Nat /\ DOMAIN objects = 1..Len(objects)
      /\ \A o \in DOMAIN objects : objects[o] \in Object
      BY LenProperties, ElementOfSeq
<1> QED
    BY <1>1 DEF Object

\* The same of the objects in memory.
LEMMA ObjectFacts ==
    ASSUME TypeOK
    PROVE  /\ heap \in Seq(Object) /\ Len(heap) \in Nat /\ DOMAIN heap = 1..Len(heap)
           /\ \A o \in DOMAIN heap :
                 /\ heap[o] \in Object /\ heap[o].acc \in Accounts
                 /\ \A k \in Keys : heap[o].slots[k] \in SlotType
<1>1. heap \in Seq(Object)
      BY DEF TypeOK, Object
<1> QED
    BY <1>1, ObjectsFacts

\* What the JSON encoder sees of an object is what the map points to.
LEMMA CachesFacts ==
    ASSUME NEW object \in Object
    PROVE  /\ CachesOf(object) \in CachesType
           /\ \A k \in Keys : CachesOf(object)[k] = Cached(object.slots[k])
           /\ \A acc : SlotsInv(acc, object.slots) => CacheInv(acc, CachesOf(object))
<1>1. \A k \in Keys : object.slots[k] \in SlotType
      BY DEF Object
<1>2. \A k \in Keys : Cached(object.slots[k]) \in CacheType
      BY <1>1, SlotFacts
<1>3. \A k \in Keys : CachesOf(object)[k] = Cached(object.slots[k])
      BY DEF CachesOf
<1>4. CachesOf(object) \in CachesType
      BY <1>2 DEF CachesOf, CachesType
<1>5. ASSUME NEW acc, SlotsInv(acc, object.slots), NEW k \in Keys
      PROVE  CachesOf(object)[k] = NoCache \/ CellInv(acc, k, CachesOf(object)[k])
      BY <1>1, <1>3, <1>5, SlotFacts DEF SlotsInv
<1> QED
    BY <1>3, <1>4, <1>5 DEF CacheInv

\* The entry after a tokenCache has been put into it.
LEMMA PutFacts ==
    ASSUME NEW slot \in SlotType, NEW held \in 0..Len(slot.cells), NEW cell \in CacheType
    PROVE  LET new == PutCell(slot, held, cell)
           IN  /\ new \in SlotType /\ new.cur # 0 /\ Cached(new) = cell
               /\ Len(slot.cells) <= Len(new.cells)
               /\ \A j \in 1..Len(slot.cells) :
                     new.cells[j] = IF j = held THEN cell ELSE slot.cells[j]
               /\ \A j \in 1..Len(new.cells) :
                     new.cells[j] = cell
                     \/ (j \in 1..Len(slot.cells) /\ new.cells[j] = slot.cells[j])
               /\ held = 0 => new.cur = Len(new.cells)
               /\ held # 0 => new.cur = held
<1> DEFINE new == PutCell(slot, held, cell)
<1>1. slot.cells \in Seq(CacheType) /\ Len(slot.cells) \in Nat
      BY SlotFacts
<1>2. CASE held = 0
  <2> DEFINE cells == Append(slot.cells, cell)
             cur == Len(slot.cells) + 1
  <2>1. /\ cells \in Seq(CacheType) /\ Len(cells) = cur
        /\ cells[cur] = cell
        /\ \A j \in 1..Len(slot.cells) : cells[j] = slot.cells[j]
        BY <1>1, AppendProperties
  <2> HIDE DEF cells
  <2>2. new = [cur |-> cur, cells |-> cells]
        BY <1>2 DEF PutCell, cells
  <2>3. new.cur = cur /\ new.cells = cells /\ cur \in Nat
        BY <1>1, <2>2
  <2>4. new \in SlotType
        BY <1>1, <2>1, <2>2, <2>3 DEF SlotType
  <2> HIDE DEF new
  <2>5. Cached(new) = cell
        BY <1>1, <2>1, <2>3 DEF Cached
  <2> QED
      BY <1>1, <1>2, <2>1, <2>3, <2>4, <2>5 DEF new
<1>3. CASE held # 0
  <2> DEFINE cells == [slot.cells EXCEPT ![held] = cell]
  <2>1. /\ cells \in Seq(CacheType) /\ Len(cells) = Len(slot.cells)
        /\ \A j \in 1..Len(slot.cells) :
              cells[j] = IF j = held THEN cell ELSE slot.cells[j]
        BY <1>1, <1>3, ExceptSeq
  <2> HIDE DEF cells
  <2>2. new = [cur |-> held, cells |-> cells]
        BY <1>3 DEF PutCell, cells
  <2>3. new.cur = held /\ new.cells = cells
        BY <2>2
  <2>4. new \in SlotType
        BY <1>1, <2>1, <2>2, <2>3 DEF SlotType
  <2> HIDE DEF new
  <2>5. Cached(new) = cell
        BY <1>1, <1>3, <2>1, <2>3 DEF Cached
  <2> QED
      BY <1>1, <1>3, <2>1, <2>3, <2>4, <2>5 DEF new
<1> QED
    BY <1>2, <1>3

\* The coins of the list of confidential assets are of tokens.
LEMMA CoinOfToken ==
    ASSUME TypeOK, NEW acc, NEW n, Owned(CA, acc, n)
    PROVE  TokenOf(n) \in Tokens /\ TokenOf(n) \in Keys /\ OfToken(TokenOf(n), acc, n)
<1>1. chain[CA] \in Seq([owner : Accounts, token : TokenIDs])
      BY DEF TypeOK, Lists
<1>2. DOMAIN chain[CA] = 1..Len(chain[CA]) /\ Len(chain[CA]) \in Nat
      BY <1>1, LenProperties
<1>3. n \in Nat /\ n + 1 \in DOMAIN chain[CA]
      BY <1>2 DEF Owned
<1>4. chain[CA][n + 1] \in NewCoins(CA)
      BY <1>3 DEF TypeOK, Lists
<1>5. CA # PRV
      BY DEF CA, PRV
<1>6. TokenOf(n) \in Tokens
      BY <1>4, <1>5 DEF NewCoins, TokenOf
<1> QED
    BY <1>6, NamesAssumption DEF Keys, OfToken, ListOf, TokenOf

-----------------------------------------------------------------------------
(* Steps that leave the chain alone and only add to the cached objects.    *)

\* The tokenCaches are still there, with at least their coins.
SlotExtends(slot, new) ==
    /\ Len(slot.cells) <= Len(new.cells)
    /\ \A j \in 1..Len(slot.cells) : slot.cells[j].coins \subseteq new.cells[j].coins
    /\ slot.cur # 0 => new.cur # 0

\* Objects keep their account and their tokenCaches, and the lists their coins
\* unless the account counts as discarded.
HeapExtends ==
    /\ Len(heap) <= Len(heap')
    /\ discarded \subseteq discarded'
    /\ \A o \in DOMAIN heap :
          /\ heap'[o].acc = heap[o].acc
          /\ \A k \in Keys : SlotExtends(heap[o].slots[k], heap'[o].slots[k])
          /\ heap[o].acc \notin discarded' =>
                \A l \in Lists :
                    Cached(heap[o].slots[l]).coins \subseteq Cached(heap'[o].slots[l]).coins

\* A step that leaves the objects alone.
LEMMA HeapSame ==
    ASSUME TypeOK, UNCHANGED <<heap, discarded>>
    PROVE  HeapExtends
<1>1. \A o \in DOMAIN heap : \A k \in Keys : Len(heap[o].slots[k].cells) \in Nat
      BY ObjectFacts, SlotFacts
<1> QED
    BY <1>1, ObjectFacts DEF HeapExtends, SlotExtends

\* What a tokenCache claims remains true.
LEMMA CellKept ==
    ASSUME chain' = chain, discarded \subseteq discarded',
           NEW acc, NEW k, NEW cell, CellInv(acc, k, cell)
    PROVE  CellInv(acc, k, cell)'
BY DEF CellInv, HasBelow, Owned, OfToken

\* What a file holds remains true.
LEMMA CacheKept ==
    ASSUME chain' = chain, discarded \subseteq discarded',
           NEW acc, NEW caches, CacheInv(acc, caches)
    PROVE  CacheInv(acc, caches)'
BY CellKept DEF CacheInv

\* What the entries of an object claim remains true.
LEMMA SlotsKept ==
    ASSUME chain' = chain, discarded \subseteq discarded',
           NEW acc, NEW slots, SlotsInv(acc, slots)
    PROVE  SlotsInv(acc, slots)'
BY CellKept DEF SlotsInv

\* Such a step keeps what holds of a caller that does not move.
LEMMA OtherCaller ==
    ASSUME IInv, chain' = chain, HeapExtends, TypeOK', NEW c \in Callers,
           call'[c] = call[c], pc'[c] = pc[c], outcome'[c] = outcome[c]
    PROVE  CallInv(c)'
<1> DEFINE l == ListOf(call[c].tok)
           obj == call[c].obj
           acc == call[c].acc
           old(k) == heap[obj].slots[k]
           new(k) == heap'[obj].slots[k]
<1>1. /\ CallInv(c) /\ TypeOK /\ call[c] \in CallType
      /\ discarded \subseteq discarded'
      BY DEF IInv, TypeOK, HeapExtends
<1>2. l \in Lists /\ l \in Keys /\ CA \in Keys
      BY DEF ListOf, Lists, Keys
<1>3. pc[c] \in Working => obj \in DOMAIN heap /\ obj \in DOMAIN heap'
      BY <1>1, LenProperties DEF HeapExtends, CallInv, TypeOK
<1>4. pc[c] \in Working =>
          /\ heap'[obj].acc = acc
          /\ \A k \in Keys : SlotExtends(old(k), new(k))
          /\ acc \notin discarded' => Cached(old(l)).coins \subseteq Cached(new(l)).coins
      BY <1>1, <1>2, <1>3 DEF HeapExtends, CallInv
<1>5. pc[c] \in Working => \A k \in Keys :
          Len(old(k).cells) \in Nat /\ Len(new(k).cells) \in Nat
  <2>1. pc[c] \in Working => \A k \in Keys : old(k) \in SlotType
        BY <1>1, <1>3, ObjectFacts
  <2>2. heap' \in Seq(Object)
        BY DEF TypeOK, Object
  <2> QED
      BY <1>3, <2>1, <2>2, ObjectsFacts, SlotFacts
<1> HIDE DEF old, new
<1>7. FetchInv(c)'
  <2>1. pc[c] \in {"fetch", "update"} => pc[c] \in Working
        BY DEF Working
  <2>2. pc[c] \in {"fetch", "update"} =>
            /\ call[c].from > 0 => old(l).cur # 0
            /\ HasBelow(l, acc, call[c].from, Cached(old(l)).coins)
        BY <1>1 DEF CallInv, FetchInv, Slot, old
  <2>3. pc[c] \in {"fetch", "update"} => (call[c].from > 0 => new(l).cur # 0)
        BY <1>2, <1>4, <2>1, <2>2 DEF SlotExtends
  <2>4. pc[c] \in {"fetch", "update"} /\ acc \notin discarded' =>
            \A n \in 0..(call[c].from - 1) : chain[l][n + 1].owner = acc =>
                n \in Cached(new(l)).coins
        BY <1>1, <1>4, <2>1, <2>2 DEF HasBelow
  <2> QED
      BY <2>3, <2>4 DEF FetchInv, HasBelow, Slot, new
<1>8. ApplyInv(c)'
  <2> SUFFICES ASSUME pc[c] = "apply" PROVE ApplyInv(c)'
      BY DEF ApplyInv
  <2> DEFINE held == call[c].held
  <2>1. SlotExtends(old(l), new(l))
        BY <1>2, <1>4 DEF Working
  <2>2. Len(old(l).cells) \in Nat /\ Len(new(l).cells) \in Nat /\ held \in Nat
        BY <1>1, <1>2, <1>5 DEF Working, CallType
  <2>3. /\ held <= Len(old(l).cells)
        /\ held = 0 => call[c].from = 0
        /\ held # 0 => HasBelow(l, acc, call[c].from, old(l).cells[held].coins)
        BY <1>1 DEF CallInv, ApplyInv, Slot, old
  <2>4. held <= Len(new(l).cells)
        BY <2>1, <2>2, <2>3 DEF SlotExtends
  <2>5. held # 0 => old(l).cells[held].coins \subseteq new(l).cells[held].coins
        BY <2>1, <2>2, <2>3 DEF SlotExtends
  <2>6. held # 0 /\ acc \notin discarded' =>
            \A n \in 0..(call[c].from - 1) : chain[l][n + 1].owner = acc =>
                n \in new(l).cells[held].coins
        BY <1>1, <2>3, <2>5 DEF HasBelow
  <2> QED
      BY <2>3, <2>4, <2>6 DEF ApplyInv, HasBelow, Slot, new
<1>9. FileInv(c)'
  <2>1. ASSUME pc[c] \in {"index", "file"}
        PROVE  /\ \A n \in call[c].fresh : Owned(CA, acc, n)
               /\ call[c].alias <= Len(new(CA).cells)
    <3>1. call[c].alias \in Nat /\ call[c].alias <= Len(old(CA).cells)
          BY <1>1, <2>1 DEF CallInv, FileInv, CallType, Slot, old
    <3>2. /\ Len(old(CA).cells) <= Len(new(CA).cells)
          /\ Len(old(CA).cells) \in Nat /\ Len(new(CA).cells) \in Nat
          BY <1>2, <1>4, <1>5, <2>1 DEF SlotExtends, Working
    <3> QED
        BY <1>1, <2>1, <3>1, <3>2 DEF CallInv, FileInv
  <2>2. ASSUME pc[c] = "file"
        PROVE  /\ Owned(CA, acc, call[c].coin)
               /\ call[c].held <= Len(new(TokenOf(call[c].coin)).cells)
    <3> DEFINE t == TokenOf(call[c].coin)
    <3>1. /\ call[c].held \in Nat /\ call[c].held <= Len(old(t).cells)
          /\ Owned(CA, acc, call[c].coin)
          BY <1>1, <2>2 DEF CallInv, FileInv, CallType, Slot, old
    <3>2. t \in Keys
          BY <1>1, <3>1, CoinOfToken
    <3> HIDE DEF t
    <3>4. /\ Len(old(t).cells) <= Len(new(t).cells)
          /\ Len(old(t).cells) \in Nat /\ Len(new(t).cells) \in Nat
          BY <1>4, <1>5, <2>2, <3>2 DEF SlotExtends, Working
    <3> QED
        BY <3>1, <3>4 DEF t
  <2> QED
      BY <2>1, <2>2 DEF FileInv, Owned, Slot, new, TokenOf
<1>10. /\ pc[c] # "idle" => acc \in Accounts
       /\ pc[c] \in Working \cup {"getAccount"} => call[c].length <= Len(chain[l])
       /\ pc[c] \in {"fetch", "update", "apply"} => call[c].from <= Len(chain[l])
       /\ pc[c] \in {"update", "apply"} =>
             call[c].data = GetCoinsByIndices(l, acc, call[c].from, call[c].length - 1)
       /\ pc[c] \in {"update", "apply", "index", "file"} => call[c].length >= 1
       /\ pc[c] = "v1" \/ outcome[c] = "ok" =>
             \A n \in call[c].result : OfToken(call[c].tok, acc, n)
      BY <1>1 DEF CallInv
<1> QED
    BY <1>3, <1>4, <1>7, <1>8, <1>9, <1>10
    DEF CallInv, Owned, OfToken, GetCoinsByIndices

\* A new object at the end of the heap.
LEMMA NewObject ==
    ASSUME IInv, UNCHANGED <<chain, discarded>>, NEW acc \in Accounts,
           NEW slots \in [Keys -> SlotType], SlotsInv(acc, slots),
           heap' = Append(heap, [acc |-> acc, slots |-> slots])
    PROVE  /\ heap' \in Seq(Object)
           /\ Len(heap') = Len(heap) + 1
           /\ heap'[Len(heap) + 1] = [acc |-> acc, slots |-> slots]
           /\ \A o \in DOMAIN heap : heap'[o] = heap[o]
           /\ HeapExtends
           /\ HeapInv'
<1> DEFINE new == [acc |-> acc, slots |-> slots]
<1>1. heap \in Seq(Object) /\ new \in Object
      BY DEF IInv, TypeOK, Object
<1> HIDE DEF new
<1>2. /\ heap' \in Seq(Object)
      /\ Len(heap') = Len(heap) + 1
      /\ heap'[Len(heap) + 1] = new
      /\ \A o \in 1..Len(heap) : heap'[o] = heap[o]
      BY <1>1, AppendProperties DEF new
<1>3. /\ DOMAIN heap = 1..Len(heap) /\ DOMAIN heap' = 1..(Len(heap) + 1)
      /\ Len(heap) \in Nat
      BY <1>1, <1>2, LenProperties
<1>4. HeapExtends
  <2>1. \A o \in DOMAIN heap : \A k \in Keys : Len(heap[o].slots[k].cells) \in Nat
        BY <1>1, ObjectsFacts, SlotFacts
  <2> QED
      BY <1>2, <1>3, <2>1 DEF HeapExtends, SlotExtends
<1>5. \A o \in DOMAIN heap' : SlotsInv(heap'[o].acc, heap'[o].slots)
  <2>1. SlotsInv(new.acc, new.slots)
        BY DEF new
  <2>2. \A o \in DOMAIN heap : SlotsInv(heap[o].acc, heap[o].slots)
        BY DEF IInv, HeapInv
  <2> SUFFICES ASSUME NEW o \in DOMAIN heap'
               PROVE  SlotsInv(heap'[o].acc, heap'[o].slots)
      OBVIOUS
  <2>3. CASE o = Len(heap) + 1
        BY <1>2, <2>1, <2>3
  <2>4. CASE o \in DOMAIN heap
        BY <1>2, <1>3, <2>2, <2>4
  <2> QED
      BY <1>3, <2>3, <2>4
<1>6. HeapInv'
  <2> SUFFICES ASSUME NEW o \in DOMAIN heap', NEW k \in Keys,
                      NEW j \in 1..Len(heap'[o].slots[k].cells)
               PROVE  CellInv(heap[o].acc, k, heap[o].slots[k].cells[j])'
      BY DEF HeapInv, SlotsInv
  <2>1. CellInv(heap'[o].acc, k, heap'[o].slots[k].cells[j])
        BY <1>5 DEF SlotsInv
  <2> QED
      BY <2>1 DEF CellInv, HasBelow, Owned, OfToken
<1> QED
    BY <1>2, <1>3, <1>4, <1>6 DEF new

\* A step of one caller outside the mutex that changes neither the objects nor
\* the map nor the files has to keep only what holds of that caller.
LEMMA LocalStep ==
    ASSUME IInv, NEW c \in Callers, TypeOK',
           UNCHANGED <<chain, heap, cachedData, disk, mtx, discarded, crashes, storeFaults>>,
           pc[c] # "write", pc'[c] # "write",
           \A d \in Callers \ {c} :
               call'[d] = call[d] /\ pc'[d] = pc[d] /\ outcome'[d] = outcome[d],
           outcome'[c] = "loadFailed" =>
               outcome[c] = "loadFailed" \/ crashes + storeFaults > 0,
           CallInv(c)'
    PROVE  IInv'
<1>1. HeapExtends
      BY HeapSame DEF IInv
<1>2. \A d \in Callers : CallInv(d)'
      BY <1>1, OtherCaller
<1>3. HeapInv' /\ DiskInv' /\ MapInv'
      BY DEF IInv, HeapInv, DiskInv, MapInv, SlotsInv, CacheInv, CellInv, HasBelow,
             Owned, OfToken
<1>4. MutexInv'
      BY DEF IInv, MutexInv, TypeOK
<1>5. DamageNeedsFault'
      BY DEF IInv, DamageNeedsFault
<1> QED
    BY <1>2, <1>3, <1>4, <1>5 DEF IInv

\* A call begins with nothing in hand.
LEMMA CallStep ==
    ASSUME IInv, NEW c \in Callers, NEW acc \in Accounts, NEW tok \in TokenIDs,
           Call(c, acc, tok)
    PROVE  IInv'
<1> DEFINE new == [Idle EXCEPT !.acc = acc, !.tok = tok]
<1>1. new \in CallType /\ new.acc = acc /\ new.tok = tok
  <2>1. new \in CallType
        BY Zenon DEF Idle, CallType
  <2>2. new.acc = acc /\ new.tok = tok
        BY DEF Idle
  <2> QED
      BY <2>1, <2>2
<1> HIDE DEF new
<1>2. /\ call' = [call EXCEPT ![c] = new]
      /\ pc' = [pc EXCEPT ![c] = "check"]
      /\ outcome' = [outcome EXCEPT ![c] = "none"]
      /\ UNCHANGED <<chain, listed, heap, cachedData, disk, mtx, otaKey, discarded, crashes, storeFaults>>
      /\ pc[c] = "idle"
      BY DEF Call, Goto, node, new
<1>3. TypeOK'
      BY <1>1, <1>2 DEF IInv, TypeOK
<1>4. call'[c] = new /\ pc'[c] = "check" /\ outcome'[c] = "none"
      BY <1>2 DEF IInv, TypeOK
<1>5. CallInv(c)'
      BY <1>1, <1>4 DEF CallInv, FetchInv, ApplyInv, FileInv, Working
<1> QED
    BY <1>2, <1>3, <1>4, <1>5, LocalStep DEF IInv, TypeOK

Outcomes == {"none", "ok", "invalidKey", "loadFailed", "rpcFailed", "notCached"}

\* A call that returns, with any outcome and a result that is sound if it
\* succeeds.
LEMMA ReturnStep ==
    ASSUME IInv, NEW c \in Callers, NEW how \in Outcomes, NEW result \in SUBSET Nat,
           Return(c, how, result), pc[c] # "write",
           UNCHANGED <<chain, listed, heap, cachedData, disk, mtx, discarded, crashes, storeFaults>>,
           otaKey' \in [Callers -> BOOLEAN],
           how = "loadFailed" => crashes + storeFaults > 0,
           how = "ok" => \A n \in result : OfToken(call[c].tok, call[c].acc, n)
    PROVE  IInv'
<1> DEFINE new == [call[c] EXCEPT !.inDir = FALSE, !.from = 0, !.obj = 0,
                      !.data = {}, !.tags = {}, !.held = 0, !.fresh = {}, !.alias = 0,
                      !.coin = 0, !.result = result]
<1>1. /\ new \in CallType /\ new.acc = call[c].acc /\ new.tok = call[c].tok
      /\ new.result = result
  <2>1. call[c] \in CallType
        BY DEF IInv, TypeOK
  <2>2. new \in CallType
        BY <2>1, Zenon DEF CallType
  <2>3. new.acc = call[c].acc /\ new.tok = call[c].tok /\ new.result = result
        BY <2>1 DEF CallType
  <2> QED
      BY <2>2, <2>3
<1> HIDE DEF new
<1>2. /\ call' = [call EXCEPT ![c] = new]
      /\ pc' = [pc EXCEPT ![c] = "idle"]
      /\ outcome' = [outcome EXCEPT ![c] = how]
      BY DEF Return, new
<1>3. TypeOK'
      BY <1>1, <1>2 DEF IInv, TypeOK, Outcomes
<1>4. call'[c] = new /\ pc'[c] = "idle" /\ outcome'[c] = how
      BY <1>2 DEF IInv, TypeOK
<1>5. CallInv(c)'
      BY <1>1, <1>4 DEF CallInv, FetchInv, ApplyInv, FileInv, Working, OfToken, Owned
<1> QED
    BY <1>2, <1>3, <1>4, <1>5, LocalStep DEF IInv, TypeOK

\* The ways out of a call that change no cache.
LEMMA ReturnSteps ==
    ASSUME IInv, NEW c \in Callers,
           \/ LoadRefused(c) \/ LoadFails(c) \/ RpcFails(c)
           \/ NotCached(c) \/ QueryV1(c) \/ QueryV1Fails(c)
    PROVE  IInv'
<1> USE DEF node, counters, Outcomes
<1>a. otaKey \in [Callers -> BOOLEAN] /\ crashes + storeFaults \in Nat
      BY DEF IInv, TypeOK, MutexInv
<1>1. CASE LoadRefused(c)
      BY <1>1, <1>a, ReturnStep DEF LoadRefused
<1>2. CASE LoadFails(c)
  <2>1. disk[call[c].acc].state = "damaged" /\ call[c].acc \in Accounts /\ mtx = NoCaller
        BY <1>2 DEF LoadFails, IInv, CallInv
  <2>2. crashes + storeFaults > 0
        BY <1>a, <2>1 DEF IInv, MutexInv
  <2> QED
      BY <1>2, <1>a, <2>2, ReturnStep DEF LoadFails
<1>3. CASE RpcFails(c)
      BY <1>3, <1>a, ReturnStep DEF RpcFails
<1>4. CASE NotCached(c)
      BY <1>4, <1>a, ReturnStep DEF NotCached
<1>5. CASE QueryV1(c)
  <2>1. \A n \in call[c].result : OfToken(call[c].tok, call[c].acc, n)
        BY <1>5 DEF QueryV1, IInv, CallInv
  <2>2. call[c].result \in SUBSET Nat
        BY DEF IInv, TypeOK, CallType
  <2> QED
      BY <1>5, <1>a, <2>1, <2>2, ReturnStep DEF QueryV1
<1>6. CASE QueryV1Fails(c)
      BY <1>6, <1>a, ReturnStep DEF QueryV1Fails
<1> QED
    BY <1>1, <1>2, <1>3, <1>4, <1>5, <1>6

\* The steps of a call between its queries, up to the update.
LEMMA QuerySteps ==
    ASSUME IInv, NEW c \in Callers,
           \/ LoadCheck(c) \/ ReadDir(c) \/ GetLength(c)
           \/ UpToDate(c) \/ Fetch(c) \/ ReadBack(c)
    PROVE  IInv'
<1> USE DEF node, counters
<1>a. /\ CallInv(c) /\ TypeOK
      /\ call[c] \in CallType
      BY DEF IInv, TypeOK
<1>b. ListOf(call[c].tok) \in Lists
      BY DEF ListOf, Lists
<1>1. CASE LoadCheck(c)
  <2>1. /\ pc[c] = "check" /\ call' = call /\ outcome' = outcome
        /\ pc' = [pc EXCEPT ![c] = IF cachedData[call[c].acc] # 0 THEN "length" ELSE "readDir"]
        /\ UNCHANGED <<chain, listed, heap, cachedData, disk, mtx, otaKey, discarded, crashes,
                       storeFaults>>
        BY <1>1 DEF LoadCheck, Goto
  <2>2. TypeOK'
        BY <1>a, <2>1 DEF TypeOK
  <2>3. pc'[c] \in {"length", "readDir"}
        BY <1>a, <2>1 DEF TypeOK
  <2>4. CallInv(c)'
        BY <1>a, <2>1, <2>3 DEF CallInv, FetchInv, ApplyInv, FileInv, Working, OfToken, Owned
  <2> QED
      BY <1>a, <2>1, <2>2, <2>3, <2>4, LocalStep DEF TypeOK
<1>2. CASE ReadDir(c)
  <2> DEFINE new == [call[c] EXCEPT !.inDir = disk[call[c].acc].state # "absent"]
  <2>1. /\ pc[c] = "readDir" /\ outcome' = outcome
        /\ pc' = [pc EXCEPT ![c] = "load"]
        /\ call' = [call EXCEPT ![c] = new]
        /\ UNCHANGED <<chain, listed, heap, cachedData, disk, mtx, otaKey, discarded, crashes,
                       storeFaults>>
        BY <1>2 DEF ReadDir, Goto
  <2>2. /\ new \in CallType /\ new.acc = call[c].acc /\ new.tok = call[c].tok
        /\ new.result = call[c].result
    <3>1. (disk[call[c].acc].state # "absent") \in BOOLEAN
          OBVIOUS
    <3>2. \A b \in BOOLEAN : [call[c] EXCEPT !.inDir = b] \in CallType
          BY <1>a, Zenon DEF CallType
    <3>3. new.acc = call[c].acc /\ new.tok = call[c].tok /\ new.result = call[c].result
          BY <1>a DEF CallType
    <3> QED
        BY <3>1, <3>2, <3>3
  <2> HIDE DEF new
  <2>3. TypeOK'
        BY <1>a, <2>1, <2>2 DEF TypeOK
  <2>4. pc'[c] = "load" /\ call'[c] = new
        BY <1>a, <2>1 DEF TypeOK
  <2>5. CallInv(c)'
        BY <1>a, <2>1, <2>2, <2>4 DEF CallInv, FetchInv, ApplyInv, FileInv, Working, OfToken, Owned
  <2> QED
      BY <1>a, <2>1, <2>3, <2>4, <2>5, LocalStep DEF TypeOK
<1>3. CASE GetLength(c)
  <2> DEFINE new == [call[c] EXCEPT !.length = Len(chain[ListOf(call[c].tok)])]
  <2>1. /\ pc[c] = "length" /\ outcome' = outcome
        /\ pc' = [pc EXCEPT ![c] = "getAccount"]
        /\ call' = [call EXCEPT ![c] = new]
        /\ UNCHANGED <<chain, listed, heap, cachedData, disk, mtx, otaKey, discarded, crashes,
                       storeFaults>>
        BY <1>3 DEF GetLength, Goto
  <2>2. /\ new \in CallType /\ new.acc = call[c].acc /\ new.tok = call[c].tok
        /\ new.result = call[c].result /\ new.length = Len(chain[ListOf(call[c].tok)])
    <3>1. Len(chain[ListOf(call[c].tok)]) \in Nat
          BY <1>a, <1>b, LenProperties DEF TypeOK
    <3>2. \A n \in Nat : [call[c] EXCEPT !.length = n] \in CallType
          BY <1>a, Zenon DEF CallType
    <3>3. /\ new.acc = call[c].acc /\ new.tok = call[c].tok /\ new.result = call[c].result
          /\ new.length = Len(chain[ListOf(call[c].tok)])
          BY <1>a DEF CallType
    <3> QED
        BY <3>1, <3>2, <3>3
  <2> HIDE DEF new
  <2>3. TypeOK'
        BY <1>a, <2>1, <2>2 DEF TypeOK
  <2>4. pc'[c] = "getAccount" /\ call'[c] = new
        BY <1>a, <2>1 DEF TypeOK
  <2>5. Len(chain[ListOf(call[c].tok)]) \in Nat
        BY <1>a, <1>b, LenProperties DEF TypeOK
  <2>6. CallInv(c)'
        BY <1>a, <2>1, <2>2, <2>4, <2>5
        DEF CallInv, FetchInv, ApplyInv, FileInv, Working, OfToken, Owned, ListOf
  <2> QED
      BY <1>a, <2>1, <2>3, <2>4, <2>6, LocalStep DEF TypeOK
<1>4. CASE UpToDate(c)
  <2>1. /\ pc[c] = "fetch" /\ call' = call /\ outcome' = outcome
        /\ pc' = [pc EXCEPT ![c] = "readBack"]
        /\ UNCHANGED <<chain, listed, heap, cachedData, disk, mtx, otaKey, discarded, crashes,
                       storeFaults>>
        BY <1>4 DEF UpToDate, Goto
  <2>2. TypeOK'
        BY <1>a, <2>1 DEF TypeOK
  <2>3. pc'[c] = "readBack"
        BY <1>a, <2>1 DEF TypeOK
  <2>4. CallInv(c)'
        BY <1>a, <2>1, <2>3 DEF CallInv, FetchInv, ApplyInv, FileInv, Working, OfToken, Owned
  <2> QED
      BY <1>a, <2>1, <2>2, <2>3, <2>4, LocalStep DEF TypeOK
<1>5. CASE Fetch(c)
  <2> DEFINE l == ListOf(call[c].tok)
             data == GetCoinsByIndices(l, call[c].acc, call[c].from, call[c].length - 1)
             tags == IF l = CA /\ data # {} THEN listed ELSE {}
             new == [call[c] EXCEPT !.data = data, !.tags = tags]
  <2>1. /\ pc[c] = "fetch" /\ outcome' = outcome
        /\ pc' = [pc EXCEPT ![c] = "update"]
        /\ call' = [call EXCEPT ![c] = new]
        /\ call[c].from < call[c].length
        /\ UNCHANGED <<chain, listed, heap, cachedData, disk, mtx, otaKey, discarded, crashes,
                       storeFaults>>
        BY <1>5 DEF Fetch, Goto
  <2>2. call[c].from \in Nat /\ call[c].length \in Nat
        BY <1>a DEF CallType
  <2>3. data \in SUBSET Nat /\ tags \in SUBSET Tokens
        BY <1>a, <2>2 DEF TypeOK, GetCoinsByIndices
  <2>4. /\ new \in CallType /\ new.acc = call[c].acc /\ new.tok = call[c].tok
        /\ new.result = call[c].result /\ new.length = call[c].length
        /\ new.from = call[c].from /\ new.obj = call[c].obj /\ new.data = data
    <3> HIDE DEF data, tags
    <3>1. \A d \in SUBSET Nat, t \in SUBSET Tokens :
              [call[c] EXCEPT !.data = d, !.tags = t] \in CallType
          BY <1>a, Zenon DEF CallType
    <3>2. /\ new.acc = call[c].acc /\ new.tok = call[c].tok
          /\ new.result = call[c].result /\ new.length = call[c].length
          /\ new.from = call[c].from /\ new.obj = call[c].obj /\ new.data = data
          BY <1>a DEF CallType
    <3> QED
        BY <2>3, <3>1, <3>2
  <2> HIDE DEF new, tags
  <2>5. TypeOK'
        BY <1>a, <2>1, <2>4 DEF TypeOK
  <2>6. pc'[c] = "update" /\ call'[c] = new
        BY <1>a, <2>1 DEF TypeOK
  <2>7. CallInv(c)'
    <3>1. GetCoinsByIndices(l, call[c].acc, call[c].from, call[c].length - 1)'
          = GetCoinsByIndices(l, new.acc, new.from, new.length - 1)
          BY <2>1, <2>4, <2>6 DEF GetCoinsByIndices
    <3>2. /\ call'[c].data = GetCoinsByIndices(l, call[c].acc, call[c].from, call[c].length - 1)'
          /\ call'[c].length >= 1
          BY <2>1, <2>2, <2>4, <2>6, <3>1
    <3>3. call[c].length <= Len(chain[l]) /\ call[c].obj \in DOMAIN heap
          /\ heap[call[c].obj].acc = call[c].acc /\ call[c].acc \in Accounts
          BY <1>a, <2>1 DEF CallInv, FetchInv, ApplyInv, FileInv, Working
    <3>4. FetchInv(c)' /\ ApplyInv(c)' /\ FileInv(c)'
      <4>1. FetchInv(c) /\ pc[c] = "fetch"
            BY <1>a, <2>1 DEF CallInv
      <4>2. /\ call'[c].acc = call[c].acc /\ call'[c].tok = call[c].tok
            /\ call'[c].from = call[c].from /\ call'[c].obj = call[c].obj
            BY <2>4, <2>6
      <4>3. UNCHANGED <<chain, heap, discarded>> /\ pc'[c] = "update"
            BY <2>1, <2>6
      <4>4. FetchInv(c)'
            BY <4>1, <4>2, <4>3 DEF FetchInv, HasBelow, Slot
      <4> QED
          BY <4>3, <4>4 DEF ApplyInv, FileInv
    <3> QED
        BY <1>a, <2>1, <2>4, <2>6, <3>2, <3>3, <3>4 DEF CallInv, Working, OfToken, Owned
  <2> QED
      BY <1>a, <2>1, <2>5, <2>6, <2>7, LocalStep DEF TypeOK
<1>6. CASE ReadBack(c)
  <2> DEFINE o == cachedData[call[c].acc]
             slot == heap[o].slots[call[c].tok]
             found == Cached(slot).coins
             new == [call[c] EXCEPT !.result = found]
  <2>1. /\ pc[c] = "readBack" /\ outcome' = outcome /\ o # 0
        /\ pc' = [pc EXCEPT ![c] = "v1"]
        /\ call' = [call EXCEPT ![c] = new]
        /\ UNCHANGED <<chain, listed, heap, cachedData, disk, mtx, otaKey, discarded, crashes,
                       storeFaults>>
        BY <1>6 DEF ReadBack, Goto
  <2>2. /\ call[c].acc \in Accounts /\ call[c].tok \in TokenIDs
        /\ o \in DOMAIN heap
        /\ heap[o].acc = call[c].acc
        BY <1>a, <2>1, LenProperties DEF IInv, MapInv, TypeOK, CallType, CallInv
  <2>3. heap[o] \in Object /\ call[c].tok \in Keys
    <3>1. heap \in Seq(Object) /\ call[c].tok \in {PRV} \cup Tokens
          BY <1>a, <2>2 DEF TypeOK, Object, TokenIDs
    <3>2. heap[o] \in Object
          BY <2>2, <3>1, ElementOfSeq, LenProperties
    <3> QED
        BY <3>1, <3>2 DEF Keys, Lists
  <2>s. slot \in SlotType /\ (slot.cur # 0 => slot.cur \in 1..Len(slot.cells))
        BY <2>3, SlotFacts DEF Object
  <2>4. found \in SUBSET Nat
        BY <2>s, SlotFacts DEF CacheType
  <2>5. \A n \in found : OfToken(call[c].tok, call[c].acc, n)
    <3>1. found = {} \/ CellInv(call[c].acc, call[c].tok, Cached(slot))
      <4>1. CASE slot.cur = 0
            BY <4>1 DEF Cached, NoCache
      <4>2. CASE slot.cur # 0
            BY <2>2, <2>3, <2>s, <4>2 DEF IInv, HeapInv, SlotsInv, Cached
      <4> QED
          BY <4>1, <4>2
    <3>2. CASE call[c].tok \in Tokens
          BY <3>1, <3>2 DEF CellInv
    <3>3. CASE call[c].tok = PRV
      <4>1. \A n \in found : Owned(PRV, call[c].acc, n)
            BY <3>1, <3>3 DEF CellInv, Lists
      <4>2. \A k \in DOMAIN chain[PRV] : chain[PRV][k].token = PRV
            BY <1>a DEF TypeOK, NewCoins, Lists
      <4>3. DOMAIN chain[PRV] = 1..Len(chain[PRV]) /\ Len(chain[PRV]) \in Nat
            BY <1>a, LenProperties DEF TypeOK, Lists
      <4> QED
          BY <3>3, <4>1, <4>2, <4>3 DEF OfToken, Owned, ListOf
    <3> QED
        BY <2>2, <3>2, <3>3 DEF TokenIDs
  <2>6. /\ new \in CallType /\ new.acc = call[c].acc /\ new.tok = call[c].tok
        /\ new.result = found
    <3> HIDE DEF found
    <3>1. \A r \in SUBSET Nat : [call[c] EXCEPT !.result = r] \in CallType
          BY <1>a, Zenon DEF CallType
    <3>2. new.acc = call[c].acc /\ new.tok = call[c].tok /\ new.result = found
          BY <1>a DEF CallType
    <3> QED
        BY <2>4, <3>1, <3>2
  <2> HIDE DEF new, found, slot, o
  <2>7. TypeOK'
        BY <1>a, <2>1, <2>6 DEF TypeOK
  <2>8. pc'[c] = "v1" /\ call'[c] = new
        BY <1>a, <2>1 DEF TypeOK
  <2>9. CallInv(c)'
        BY <1>a, <2>1, <2>2, <2>5, <2>6, <2>8
        DEF CallInv, FetchInv, ApplyInv, FileInv, Working, OfToken, Owned
  <2> QED
      BY <1>a, <2>1, <2>7, <2>8, <2>9, LocalStep DEF TypeOK
<1> QED
    BY <1>1, <1>2, <1>3, <1>4, <1>5, <1>6

\* A step of one caller outside the mutex that adds to the objects.
LEMMA ObjectStep ==
    ASSUME IInv, NEW c \in Callers, TypeOK',
           UNCHANGED <<chain, disk, mtx, crashes, storeFaults, outcome>>,
           pc[c] # "write", pc'[c] # "write",
           \A d \in Callers \ {c} : call'[d] = call[d] /\ pc'[d] = pc[d],
           HeapExtends, HeapInv', MapInv', CallInv(c)'
    PROVE  IInv'
<1>1. \A d \in Callers : CallInv(d)'
      BY OtherCaller
<1>2. DiskInv'
      BY CacheKept DEF IInv, DiskInv, HeapExtends
<1>3. MutexInv'
      BY DEF IInv, MutexInv, TypeOK
<1>4. DamageNeedsFault'
      BY DEF IInv, DamageNeedsFault
<1> QED
    BY <1>1, <1>2, <1>3, <1>4 DEF IInv

Labels == {"idle", "check", "readDir", "load", "length", "getAccount", "fetch",
           "update", "apply", "index", "file", "store", "write", "readBack", "v1"}

\* Types after a step of one caller.
LEMMA TypeStep ==
    ASSUME TypeOK, NEW c \in Callers, NEW new \in CallType, NEW label \in Labels,
           UNCHANGED <<chain, listed, disk, mtx, otaKey, outcome>>,
           discarded' \subseteq Accounts,
           heap' \in Seq(Object), cachedData' \in [Accounts -> 0..Len(heap')],
           call' = [call EXCEPT ![c] = new], pc' = [pc EXCEPT ![c] = label]
    PROVE  /\ TypeOK'
           /\ call'[c] = new /\ pc'[c] = label
           /\ \A d \in Callers \ {c} : call'[d] = call[d] /\ pc'[d] = pc[d]
<1>1. call' \in [Callers -> CallType] /\ pc' \in [Callers -> Labels]
      BY DEF TypeOK, Labels
<1>2. /\ call'[c] = new /\ pc'[c] = label
      /\ \A d \in Callers \ {c} : call'[d] = call[d] /\ pc'[d] = pc[d]
      BY DEF TypeOK
<1> QED
    BY <1>1, <1>2 DEF TypeOK, Object, Labels

\* Empty caches miss nothing, as they claim nothing.
LEMMA EmptyCachesInv ==
    ASSUME NEW acc
    PROVE  EmptyCaches \in CachesType /\ CacheInv(acc, EmptyCaches)
<1>1. NoCache \in CacheType
      BY Zenon DEF NoCache, CacheType
<1>2. EmptyCaches \in CachesType
      BY <1>1 DEF EmptyCaches, CachesType
<1> QED
    BY <1>2 DEF CacheInv, EmptyCaches

\* An object without entries.
LEMMA NoSlotsInv ==
    ASSUME NEW acc
    PROVE  NoSlots \in [Keys -> SlotType] /\ SlotsInv(acc, NoSlots)
<1>1. NoSlot \in SlotType /\ NoSlot.cells = <<>>
      BY DEF NoSlot, SlotType
<1>2. \A k \in Keys : NoSlots[k] = NoSlot
      BY DEF NoSlots
<1>3. NoSlots \in [Keys -> SlotType]
      BY <1>1 DEF NoSlots
<1>4. \A j \in 1..Len(NoSlot.cells) : FALSE
      BY <1>1
<1> QED
    BY <1>2, <1>3, <1>4 DEF SlotsInv

\* The entries of an object that is read from a file.
LEMMA UnmarshalFacts ==
    ASSUME NEW caches \in CachesType
    PROVE  /\ Unmarshal(caches) \in [Keys -> SlotType]
           /\ \A k \in Keys : Cached(Unmarshal(caches)[k]) =
                                  IF caches[k].present THEN caches[k] ELSE NoCache
           /\ \A acc : CacheInv(acc, caches) => SlotsInv(acc, Unmarshal(caches))
<1> DEFINE loaded(k) == [cur |-> 1, cells |-> <<caches[k]>>]
<1>1. \A k \in Keys : caches[k] \in CacheType
      BY DEF CachesType
<1>2. \A cell \in CacheType :
          <<cell>> \in Seq(CacheType) /\ Len(<<cell>>) = 1 /\ <<cell>>[1] = cell
      OBVIOUS
<1>3. \A k \in Keys : /\ loaded(k) \in SlotType
                      /\ loaded(k).cur = 1 /\ loaded(k).cells = <<caches[k]>>
      BY <1>1, <1>2 DEF SlotType
<1>4. NoSlot \in SlotType /\ NoSlot.cur = 0 /\ NoSlot.cells = <<>>
      BY DEF NoSlot, SlotType
<1>5. \A k \in Keys : Unmarshal(caches)[k] = IF caches[k].present THEN loaded(k) ELSE NoSlot
      BY DEF Unmarshal
<1>6. Unmarshal(caches) \in [Keys -> SlotType]
      BY <1>3, <1>4 DEF Unmarshal
<1> HIDE DEF loaded
<1>7. \A k \in Keys : Cached(Unmarshal(caches)[k]) =
                          IF caches[k].present THEN caches[k] ELSE NoCache
      BY <1>1, <1>2, <1>3, <1>4, <1>5 DEF Cached
<1>8. ASSUME NEW acc, CacheInv(acc, caches),
             NEW k \in Keys, NEW j \in 1..Len(Unmarshal(caches)[k].cells)
      PROVE  CellInv(acc, k, Unmarshal(caches)[k].cells[j])
  <2>1. CASE caches[k].present
    <3>1. /\ Len(Unmarshal(caches)[k].cells) = 1
          /\ Unmarshal(caches)[k].cells[1] = caches[k]
          BY ZenonT(60), <1>1, <1>2, <1>3, <1>5, <2>1
    <3>2. caches[k] # NoCache
          BY <2>1 DEF NoCache
    <3> QED
        BY <1>8, <3>1, <3>2 DEF CacheInv
  <2>2. CASE ~caches[k].present
    <3>1. Unmarshal(caches)[k].cells = <<>>
          BY <1>4, <1>5, <2>2
    <3> QED
        BY <3>1
  <2> QED
      BY <2>1, <2>2
<1> QED
    BY <1>6, <1>7, <1>8 DEF SlotsInv

\* What is loaded is what was stored.
LEMMA LoadFileStep ==
    ASSUME IInv, NEW c \in Callers, LoadFile(c)
    PROVE  IInv'
<1> DEFINE acc == call[c].acc
<1>1. /\ pc[c] = "load"
      /\ pc' = [pc EXCEPT ![c] = "length"]
      /\ UNCHANGED <<chain, listed, disk, mtx, call, otaKey, outcome, discarded, crashes,
                     storeFaults>>
      BY DEF LoadFile, Goto, node, counters
<1>2. acc \in Accounts /\ TypeOK /\ CallInv(c)
      BY <1>1 DEF IInv, CallInv
<1>3. /\ HeapExtends /\ HeapInv' /\ MapInv'
      /\ heap' \in Seq(Object)
      /\ cachedData' \in [Accounts -> 0..Len(heap')]
  <2>1. CASE call[c].inDir
    <3> DEFINE slots == Unmarshal(disk[acc].caches)
    <3>1. /\ heap' = Append(heap, [acc |-> acc, slots |-> slots])
          /\ cachedData' = [a \in Accounts |-> IF a = acc THEN Len(heap) + 1 ELSE 0]
          BY <2>1 DEF LoadFile
    <3>2. disk[acc].caches \in CachesType /\ CacheInv(acc, disk[acc].caches)
          BY <1>2 DEF TypeOK, IInv, DiskInv
    <3>3. slots \in [Keys -> SlotType] /\ SlotsInv(acc, slots)
          BY <3>2, UnmarshalFacts
    <3> HIDE DEF slots
    <3>4. /\ heap' \in Seq(Object)
          /\ Len(heap') = Len(heap) + 1
          /\ heap'[Len(heap) + 1] = [acc |-> acc, slots |-> slots]
          /\ HeapExtends /\ HeapInv'
          BY <1>1, <1>2, <3>1, <3>3, NewObject
    <3>5. Len(heap) \in Nat
          BY <1>2, LenProperties DEF TypeOK
    <3>6. MapInv'
          BY <3>1, <3>4 DEF MapInv
    <3> QED
        BY <3>1, <3>4, <3>5, <3>6
  <2>2. CASE ~call[c].inDir
    <3>1. heap' = heap /\ cachedData' = [a \in Accounts |-> 0]
          BY <2>2 DEF LoadFile
    <3>2. heap \in Seq(Object) /\ Len(heap) \in Nat
          BY <1>2, LenProperties DEF TypeOK, Object
    <3>3. HeapInv'
          BY <1>1, <3>1, SlotsKept DEF HeapInv, IInv
    <3> QED
        BY <1>1, <1>2, <3>1, <3>2, <3>3, HeapSame DEF MapInv
  <2> QED
      BY <2>1, <2>2
<1>4. TypeOK'
      BY <1>1, <1>2, <1>3 DEF TypeOK, Object
<1>5. pc'[c] = "length"
      BY <1>1, <1>2 DEF TypeOK
<1>6. CallInv(c)'
      BY <1>1, <1>2, <1>5
      DEF CallInv, FetchInv, ApplyInv, FileInv, Working, OfToken, Owned
<1> QED
    BY <1>1, <1>2, <1>3, <1>4, <1>5, <1>6, ObjectStep DEF TypeOK

\* The caller fetches from behind what its object has.
LEMMA GetAccountStep ==
    ASSUME IInv, NEW c \in Callers, GetAccount(c)
    PROVE  IInv'
<1> DEFINE acc == call[c].acc
           l == ListOf(call[c].tok)
<1>1. /\ pc[c] = "getAccount"
      /\ pc' = [pc EXCEPT ![c] = "fetch"]
      /\ UNCHANGED <<chain, listed, cachedData, disk, mtx, otaKey, outcome, discarded, crashes,
                     storeFaults>>
      BY DEF GetAccount, Goto, node, counters
<1>2. /\ acc \in Accounts /\ TypeOK /\ CallInv(c) /\ call[c] \in CallType
      /\ l \in Lists /\ l \in Keys
      /\ heap \in Seq(Object) /\ Len(heap) \in Nat
      BY <1>1, LenProperties DEF IInv, CallInv, TypeOK, ListOf, Lists, Keys, Object
<1>3. \E o \in Nat, from \in Nat :
          /\ call' = [call EXCEPT ![c] = [call[c] EXCEPT !.obj = o, !.from = from]]
          /\ heap' \in Seq(Object)
          /\ HeapExtends /\ HeapInv'
          /\ \A a \in Accounts : cachedData[a] # 0 => heap'[cachedData[a]] = heap[cachedData[a]]
          /\ o \in DOMAIN heap' /\ heap'[o].acc = acc
          /\ from <= Len(chain[l])
          /\ from > 0 => heap'[o].slots[l].cur # 0
          /\ HasBelow(l, acc, from, Cached(heap'[o].slots[l]).coins)
  <2>1. CASE cachedData[acc] # 0
    <3> DEFINE o == cachedData[acc]
               slot == heap[o].slots[l]
               from == CurrentIndex(Cached(slot))
    <3>1. heap' = heap
          /\ call' = [call EXCEPT ![c] = [call[c] EXCEPT !.obj = o, !.from = from]]
          BY <2>1 DEF GetAccount
    <3>2. o \in DOMAIN heap /\ o \in Nat /\ heap[o].acc = acc
          BY <1>2, <2>1, LenProperties DEF TypeOK, IInv, MapInv
    <3>3. slot \in SlotType /\ SlotsInv(acc, heap[o].slots)
          BY <1>2, <3>2, ObjectFacts DEF IInv, HeapInv
    <3>4. Len(chain[l]) \in Nat
          BY <1>2, LenProperties DEF TypeOK
    <3>5. /\ from \in Nat /\ from <= Len(chain[l])
          /\ from > 0 => slot.cur # 0
          /\ HasBelow(l, acc, from, Cached(slot).coins)
      <4>1. CASE slot.cur = 0
        <5>1. from = 0
              BY <4>1 DEF Cached, NoCache, CurrentIndex
        <5> QED
            BY <3>4, <5>1 DEF HasBelow
      <4>2. CASE slot.cur # 0
        <5> DEFINE cell == slot.cells[slot.cur]
        <5>1. slot.cur \in 1..Len(slot.cells) /\ Cached(slot) = cell /\ cell \in CacheType
              BY <3>3, <4>2, SlotFacts
        <5>2. CellInv(acc, l, cell)
              BY <1>2, <3>3, <5>1 DEF SlotsInv
        <5>3. cell.latest \in Nat
              BY <5>1 DEF CacheType
        <5>4. cell.latest < Len(chain[l]) /\ HasBelow(l, acc, cell.latest + 1, cell.coins)
              BY <1>2, <5>2 DEF CellInv
        <5>5. from = IF cell.latest = 0 THEN 0 ELSE cell.latest + 1
              BY <5>1 DEF CurrentIndex
        <5> HIDE DEF cell, from, slot
        <5>6. from \in Nat /\ from <= Len(chain[l])
              BY <3>4, <5>3, <5>4, <5>5
        <5>7. HasBelow(l, acc, from, cell.coins)
          <6>1. CASE from = 0
                BY <6>1 DEF HasBelow
          <6>2. CASE from # 0
                BY <5>4, <5>5, <6>2
          <6> QED
              BY <6>1, <6>2
        <5> QED
            BY <4>2, <5>1, <5>6, <5>7
      <4> QED
          BY <4>1, <4>2
    <3>6. HeapExtends /\ HeapInv'
          BY <1>1, <1>2, <3>1, HeapSame, SlotsKept DEF HeapInv, IInv
    <3> HIDE DEF o, from, slot
    <3> QED
        BY <1>2, <3>1, <3>2, <3>5, <3>6 DEF slot
  <2>2. CASE cachedData[acc] = 0
    <3> DEFINE o == Len(heap) + 1
    <3>1. /\ heap' = Append(heap, [acc |-> acc, slots |-> NoSlots])
          /\ call' = [call EXCEPT ![c] = [call[c] EXCEPT !.obj = o, !.from = 0]]
          BY <2>2 DEF GetAccount, CurrentIndex, NoCache
    <3>2. /\ heap' \in Seq(Object)
          /\ Len(heap') = Len(heap) + 1
          /\ heap'[o] = [acc |-> acc, slots |-> NoSlots]
          /\ \A p \in DOMAIN heap : heap'[p] = heap[p]
          /\ HeapExtends /\ HeapInv'
          BY <1>1, <1>2, <3>1, NoSlotsInv, NewObject
    <3>3. o \in Nat /\ o \in DOMAIN heap' /\ heap'[o].acc = acc
          BY <1>2, <3>2, LenProperties
    <3>4. \A a \in Accounts : cachedData[a] # 0 => cachedData[a] \in DOMAIN heap
          BY <1>2, LenProperties DEF TypeOK
    <3>5. /\ 0 <= Len(chain[l])
          /\ HasBelow(l, acc, 0, Cached(heap'[o].slots[l]).coins)
          BY <1>2, LenProperties DEF TypeOK, HasBelow
    <3>6. \A a \in Accounts : cachedData[a] # 0 => heap'[cachedData[a]] = heap[cachedData[a]]
          BY <3>2, <3>4
    <3>7. ~(0 > 0) /\ 0 \in Nat
          OBVIOUS
    <3> HIDE DEF o, acc, l
    <3> QED
        BY <3>1, <3>2, <3>3, <3>5, <3>6, <3>7, Zenon
  <2> QED
      BY <2>1, <2>2
<1>4. PICK o \in Nat, from \in Nat :
          /\ call' = [call EXCEPT ![c] = [call[c] EXCEPT !.obj = o, !.from = from]]
          /\ heap' \in Seq(Object)
          /\ HeapExtends /\ HeapInv'
          /\ \A a \in Accounts : cachedData[a] # 0 => heap'[cachedData[a]] = heap[cachedData[a]]
          /\ o \in DOMAIN heap' /\ heap'[o].acc = acc
          /\ from <= Len(chain[l])
          /\ from > 0 => heap'[o].slots[l].cur # 0
          /\ HasBelow(l, acc, from, Cached(heap'[o].slots[l]).coins)
      BY <1>3
<1> DEFINE new == [call[c] EXCEPT !.obj = o, !.from = from]
<1>5. /\ new \in CallType /\ new.acc = acc /\ new.tok = call[c].tok
      /\ new.result = call[c].result /\ new.length = call[c].length
      /\ new.obj = o /\ new.from = from
  <2>1. new \in CallType
        BY <1>2, Zenon DEF CallType
  <2>2. /\ new.acc = acc /\ new.tok = call[c].tok
        /\ new.result = call[c].result /\ new.length = call[c].length
        /\ new.obj = o /\ new.from = from
        BY <1>2 DEF CallType
  <2> QED
      BY <2>1, <2>2
<1> HIDE DEF new
<1>6. call' = [call EXCEPT ![c] = new]
      BY <1>4 DEF new
<1>7. cachedData \in [Accounts -> 0..Len(heap')]
  <2>1. Len(heap') \in Nat /\ Len(heap) <= Len(heap')
        BY <1>4, LenProperties DEF HeapExtends
  <2>2. \A n \in 0..Len(heap) : n \in 0..Len(heap')
        BY <1>2, <2>1
  <2> QED
      BY <1>2, <2>2 DEF TypeOK
<1>8. TypeOK' /\ pc'[c] = "fetch" /\ call'[c] = new
      /\ \A d \in Callers \ {c} : call'[d] = call[d] /\ pc'[d] = pc[d]
      BY ZenonT(60), <1>1, <1>2, <1>4, <1>5, <1>6, <1>7, TypeStep DEF Labels, TypeOK
<1>10. MapInv'
      BY <1>1, <1>4 DEF MapInv, IInv
<1>11. CallInv(c)'
  <2>1. /\ call[c].length <= Len(chain[l])
        /\ outcome[c] = "ok" => \A n \in call[c].result : OfToken(call[c].tok, call[c].acc, n)
        BY <1>1, <1>2 DEF CallInv
  <2>2. outcome'[c] = "ok" =>
            \A n \in call'[c].result : OfToken(call[c].tok, call[c].acc, n)'
        BY <1>1, <1>5, <1>8, <2>1 DEF OfToken, Owned
  <2>3. /\ call'[c].acc = call[c].acc /\ call'[c].tok = call[c].tok
        /\ call'[c].length = call[c].length /\ call'[c].obj = o /\ call'[c].from = from
        BY <1>5, <1>8
  <2>4. FetchInv(c)' /\ ApplyInv(c)' /\ FileInv(c)'
    <3>1. /\ from > 0 => heap'[o].slots[l].cur # 0
          /\ discarded' = discarded /\ chain' = chain /\ pc'[c] = "fetch"
          /\ HasBelow(l, acc, from, Cached(heap'[o].slots[l]).coins)
          BY <1>1, <1>4, <1>8
    <3> QED
        BY <2>3, <3>1 DEF FetchInv, ApplyInv, FileInv, HasBelow, Slot
  <2> QED
      BY <1>1, <1>2, <1>4, <1>8, <2>1, <2>2, <2>3, <2>4 DEF CallInv, Working
<1> QED
    BY <1>1, <1>2, <1>4, <1>6, <1>8, <1>10, <1>11, ObjectStep DEF TypeOK

\* The objects after a tokenCache has been put into entry k of object o.
PutHeap(o, k, held, cell) ==
    [heap EXCEPT ![o].slots[k] = PutCell(heap[o].slots[k], held, cell)]

\* An object with one entry changed: a tokenCache, one that the entry had or a
\* new one, has gained coins and is put into the map.
LEMMA ChangedObject ==
    ASSUME IInv, UNCHANGED <<chain, cachedData>>, discarded \subseteq discarded',
           NEW o \in DOMAIN heap, NEW k \in Keys,
           NEW held \in 0..Len(heap[o].slots[k].cells), NEW cell \in CacheType,
           CellInv(heap[o].acc, k, cell),
           held # 0 => heap[o].slots[k].cells[held].coins \subseteq cell.coins,
           k \in Lists /\ heap[o].acc \notin discarded' =>
               Cached(heap[o].slots[k]).coins \subseteq cell.coins,
           heap' = PutHeap(o, k, held, cell)
    PROVE  /\ heap' \in Seq(Object)
           /\ cachedData' \in [Accounts -> 0..Len(heap')]
           /\ HeapExtends /\ HeapInv' /\ MapInv'
           /\ DOMAIN heap' = DOMAIN heap /\ heap'[o].acc = heap[o].acc
           /\ \A p \in DOMAIN heap \ {o} : heap'[p] = heap[p]
           /\ heap'[o].slots[k] = PutCell(heap[o].slots[k], held, cell)
           /\ \A j \in Keys \ {k} : heap'[o].slots[j] = heap[o].slots[j]
<1> DEFINE slot == heap[o].slots[k]
           put == PutCell(slot, held, cell)
           slots == [heap[o].slots EXCEPT ![k] = put]
           new == [acc |-> heap[o].acc, slots |-> slots]
<1>1. /\ heap \in Seq(Object) /\ o \in 1..Len(heap) /\ Len(heap) \in Nat
      /\ DOMAIN heap = 1..Len(heap)
      /\ heap[o] \in Object /\ slot \in SlotType
      /\ heap[o].slots \in [Keys -> SlotType] /\ heap[o].acc \in Accounts
  <2>1. TypeOK
        BY DEF IInv
  <2> QED
      BY <2>1, ObjectFacts DEF Object
<1>2. /\ put \in SlotType /\ put.cur # 0 /\ Cached(put) = cell
      /\ Len(slot.cells) <= Len(put.cells)
      /\ \A j \in 1..Len(slot.cells) : put.cells[j] = IF j = held THEN cell ELSE slot.cells[j]
      /\ \A j \in 1..Len(put.cells) :
            put.cells[j] = cell \/ (j \in 1..Len(slot.cells) /\ put.cells[j] = slot.cells[j])
      BY SMTT(40), <1>1, PutFacts
<1> HIDE DEF put
<1>3. /\ slots \in [Keys -> SlotType] /\ slots[k] = put
      /\ \A j \in Keys \ {k} : slots[j] = heap[o].slots[j]
      BY <1>1, <1>2
<1>4. heap' = [heap EXCEPT ![o] = new]
  <2>1. heap' = [heap EXCEPT ![o].slots = slots]
        BY DEF PutHeap, put
  <2> HIDE DEF slots
  <2>2. [heap[o] EXCEPT !.slots = slots] = [acc |-> heap[o].acc, slots |-> slots]
        BY <1>1 DEF Object
  <2>3. heap' = [heap EXCEPT ![o] = [heap[o] EXCEPT !.slots = slots]]
        BY <2>1
  <2> QED
      BY <2>2, <2>3, Zenon
<1> HIDE DEF slots
<1>5. new \in Object /\ new.acc = heap[o].acc /\ new.slots = slots
      BY <1>1, <1>3 DEF Object
<1> HIDE DEF new
<1>6. /\ heap' \in Seq(Object)
      /\ Len(heap') = Len(heap)
      /\ \A p \in 1..Len(heap) : heap'[p] = IF p = o THEN new ELSE heap[p]
      BY <1>1, <1>4, <1>5, ExceptSeq
<1>7. DOMAIN heap' = 1..Len(heap)
      BY <1>6, LenProperties
<1>8. HeapExtends
  <2>1. \A p \in DOMAIN heap : \A j \in Keys : Len(heap[p].slots[j].cells) \in Nat
        BY <1>1, ObjectsFacts, SlotFacts
  <2>2. SlotExtends(slot, put)
        BY <1>2 DEF SlotExtends
  <2>3. ASSUME NEW p \in DOMAIN heap
        PROVE  /\ heap'[p].acc = heap[p].acc
               /\ \A j \in Keys : SlotExtends(heap[p].slots[j], heap'[p].slots[j])
               /\ heap[p].acc \notin discarded' => \A l \in Lists :
                     Cached(heap[p].slots[l]).coins \subseteq Cached(heap'[p].slots[l]).coins
    <3>1. CASE p # o
      <4>1. heap'[p] = heap[p]
            BY <1>1, <1>6, <3>1
      <4>2. \A j \in Keys : SlotExtends(heap[p].slots[j], heap[p].slots[j])
            BY <2>1 DEF SlotExtends
      <4> QED
          BY <4>1, <4>2
    <3>2. CASE p = o
      <4>1. heap'[p].acc = heap[p].acc /\ heap'[p].slots = slots
            BY <1>1, <1>5, <1>6, <3>2
      <4>2. \A j \in Keys : SlotExtends(heap[o].slots[j], slots[j])
        <5> SUFFICES ASSUME NEW j \in Keys PROVE SlotExtends(heap[o].slots[j], slots[j])
            OBVIOUS
        <5>1. CASE j = k
              BY <1>3, <2>2, <5>1
        <5>2. CASE j # k
              BY <1>3, <2>1, <5>2 DEF SlotExtends
        <5> QED
            BY <5>1, <5>2
      <4>3. heap[o].acc \notin discarded' => \A l \in Lists :
                Cached(heap[o].slots[l]).coins \subseteq Cached(slots[l]).coins
            BY <1>2, <1>3 DEF Keys
      <4> QED
          BY <3>2, <4>1, <4>2, <4>3
    <3> QED
        BY <3>1, <3>2
  <2>4. Len(heap) <= Len(heap')
        BY <1>1, <1>6
  <2> QED
      BY <2>3, <2>4 DEF HeapExtends
<1>9. \A p \in DOMAIN heap' : SlotsInv(heap'[p].acc, heap'[p].slots)
  <2>1. \A p \in DOMAIN heap : SlotsInv(heap[p].acc, heap[p].slots)
        BY DEF IInv, HeapInv
  <2>2. SlotsInv(heap[o].acc, slots)
    <3> SUFFICES ASSUME NEW j \in Keys, NEW i \in 1..Len(slots[j].cells)
                 PROVE  CellInv(heap[o].acc, j, slots[j].cells[i])
        BY DEF SlotsInv
    <3>1. CASE j = k
          BY <1>2, <1>3, <2>1, <3>1 DEF SlotsInv
    <3>2. CASE j # k
          BY <1>3, <2>1, <3>2 DEF SlotsInv
    <3> QED
        BY <3>1, <3>2
  <2> SUFFICES ASSUME NEW p \in DOMAIN heap'
               PROVE  SlotsInv(heap'[p].acc, heap'[p].slots)
      OBVIOUS
  <2>3. CASE p = o
        BY <1>1, <1>5, <1>6, <2>2, <2>3
  <2>4. CASE p # o
        BY <1>1, <1>6, <1>7, <2>1, <2>4
  <2> QED
      BY <2>3, <2>4
<1>10. HeapInv'
      BY <1>9, SlotsKept DEF HeapInv
<1>11. cachedData' \in [Accounts -> 0..Len(heap')]
      BY <1>6 DEF IInv, TypeOK
<1>12. MapInv'
  <2> SUFFICES ASSUME NEW a \in Accounts, cachedData[a] # 0
               PROVE  heap'[cachedData[a]].acc = a
      BY DEF MapInv
  <2>1. cachedData[a] \in 1..Len(heap) /\ heap[cachedData[a]].acc = a
        BY <1>1 DEF IInv, TypeOK, MapInv
  <2> QED
      BY <1>5, <1>6, <2>1
<1>13. /\ DOMAIN heap' = DOMAIN heap /\ heap'[o].acc = heap[o].acc
       /\ \A p \in DOMAIN heap \ {o} : heap'[p] = heap[p]
       /\ heap'[o].slots[k] = put
       /\ \A j \in Keys \ {k} : heap'[o].slots[j] = heap[o].slots[j]
      BY <1>1, <1>3, <1>5, <1>6, <1>7
<1> QED
    BY <1>6, <1>8, <1>10, <1>11, <1>12, <1>13 DEF put

-----------------------------------------------------------------------------
(* accountCache.update: the entries are read and written in two steps.     *)

\* The tokenCache a caller reads from the map has the coins its object has.
LEMMA ReadEntryStep ==
    ASSUME IInv, NEW c \in Callers, ReadEntry(c)
    PROVE  IInv'
<1> DEFINE acc == call[c].acc
           o == call[c].obj
           l == ListOf(call[c].tok)
           slot == heap[o].slots[l]
           new == [call[c] EXCEPT !.held = slot.cur]
<1>1. /\ pc[c] = "update" /\ outcome' = outcome
      /\ pc' = [pc EXCEPT ![c] = "apply"]
      /\ call' = [call EXCEPT ![c] = new]
      /\ UNCHANGED <<chain, listed, heap, cachedData, disk, mtx, otaKey, discarded, crashes,
                     storeFaults>>
      BY DEF ReadEntry, Goto, node, counters
<1>2. /\ TypeOK /\ CallInv(c) /\ call[c] \in CallType /\ l \in Keys
      /\ o \in DOMAIN heap
      BY <1>1 DEF IInv, CallInv, TypeOK, ListOf, Lists, Keys, Working
<1>3. slot \in SlotType
      BY <1>2, ObjectFacts
<1>4. /\ Len(slot.cells) \in Nat /\ slot.cur \in Nat /\ slot.cur <= Len(slot.cells)
      /\ slot.cur # 0 => Cached(slot) = slot.cells[slot.cur]
  <2> HIDE DEF slot
  <2>1. /\ slot.cur \in 0..Len(slot.cells) /\ Len(slot.cells) \in Nat
        /\ slot.cur # 0 => Cached(slot) = slot.cells[slot.cur]
        BY <1>3, SlotFacts
  <2> QED
      BY <2>1
<1>5. /\ new \in CallType /\ new.held = slot.cur /\ new.acc = acc
      /\ new.tok = call[c].tok /\ new.result = call[c].result
      /\ new.length = call[c].length /\ new.from = call[c].from /\ new.obj = o
      /\ new.data = call[c].data
  <2>1. \A h \in Nat : [call[c] EXCEPT !.held = h] \in CallType
        BY <1>2, Zenon DEF CallType
  <2>2. slot.cur \in Nat
        BY <1>4, Zenon
  <2> HIDE DEF slot
  <2>3. /\ new.held = slot.cur /\ new.acc = acc
        /\ new.tok = call[c].tok /\ new.result = call[c].result
        /\ new.length = call[c].length /\ new.from = call[c].from /\ new.obj = o
        /\ new.data = call[c].data
        BY <1>2 DEF CallType
  <2> QED
      BY <2>1, <2>2, <2>3
<1> HIDE DEF new
<1>6. TypeOK' /\ pc'[c] = "apply" /\ call'[c] = new
      BY <1>1, <1>2, <1>5 DEF TypeOK
<1>7. CallInv(c)'
  <2>1. /\ call'[c].acc = call[c].acc /\ call'[c].tok = call[c].tok
        /\ call'[c].length = call[c].length /\ call'[c].obj = o
        /\ call'[c].from = call[c].from /\ call'[c].data = call[c].data
        /\ call'[c].result = call[c].result /\ call'[c].held = slot.cur
        BY <1>5, <1>6
  <2>2. FetchInv(c) /\ call[c].from \in Nat
        BY <1>2 DEF CallInv, CallType
  <2>3. /\ slot.cur = 0 => call[c].from = 0
        /\ slot.cur # 0 => HasBelow(l, acc, call[c].from, slot.cells[slot.cur].coins)
    <3>1. /\ call[c].from > 0 => slot.cur # 0
          /\ HasBelow(l, acc, call[c].from, Cached(slot).coins)
          BY <1>1, <2>2 DEF FetchInv, Slot
    <3> HIDE DEF slot, l, acc
    <3>2. slot.cur = 0 => call[c].from = 0
          BY <2>2, <3>1
    <3> QED
        BY <1>4, <3>1, <3>2
  <2>4. FetchInv(c)' /\ FileInv(c)'
        BY <1>6 DEF FetchInv, FileInv
  <2>5. ApplyInv(c)'
    <3>1. /\ UNCHANGED <<chain, heap, discarded>>
          /\ slot.cur <= Len(slot.cells)
          BY <1>1, <1>4, Zenon
    <3>2. Slot(c, l)' = slot
          BY <2>1, <3>1 DEF Slot
    <3>3. slot.cur # 0 => HasBelow(l, acc, call[c].from, slot.cells[slot.cur].coins)'
          BY <2>1, <2>3, <3>1 DEF HasBelow
    <3> QED
        BY <2>1, <2>3, <3>1, <3>2, <3>3 DEF ApplyInv
  <2> QED
      BY ZenonT(60), <1>1, <1>2, <1>6, <2>1, <2>4, <2>5
      DEF CallInv, Working, OfToken, Owned, GetCoinsByIndices
<1> QED
    BY <1>1, <1>2, <1>6, <1>7, LocalStep DEF TypeOK

\* What remains of a call whose update is complete.
LEMMA UpdatedFacts ==
    ASSUME NEW c, call[c] \in CallType
    PROVE  /\ Updated(c) \in CallType
           /\ Updated(c).acc = call[c].acc /\ Updated(c).tok = call[c].tok
           /\ Updated(c).length = call[c].length /\ Updated(c).obj = call[c].obj
           /\ Updated(c).from = call[c].from /\ Updated(c).result = call[c].result
           /\ Updated(c).fresh = {} /\ Updated(c).data = {} /\ Updated(c).tags = {}
<1> DEFINE new == [call[c] EXCEPT !.data = {}, !.tags = {}, !.held = 0, !.fresh = {},
                                  !.alias = 0, !.coin = 0]
<1>1. new \in CallType
      BY Zenon DEF CallType
<1>2. /\ new.acc = call[c].acc /\ new.tok = call[c].tok
      /\ new.length = call[c].length /\ new.obj = call[c].obj
      /\ new.from = call[c].from /\ new.result = call[c].result
      /\ new.fresh = {} /\ new.data = {} /\ new.tags = {}
      BY DEF CallType
<1> QED
    BY <1>1, <1>2 DEF Updated

\* The end of updateAllTokens.
LEMMA AllFiledStep ==
    ASSUME IInv, NEW c \in Callers, AllFiled(c)
    PROVE  IInv'
<1>1. /\ pc[c] = "index" /\ outcome' = outcome
      /\ pc' = [pc EXCEPT ![c] = "store"]
      /\ call' = [call EXCEPT ![c] = Updated(c)]
      /\ UNCHANGED <<chain, listed, heap, cachedData, disk, mtx, otaKey, discarded, crashes,
                     storeFaults>>
      BY DEF AllFiled, Goto, node, counters
<1>2. TypeOK /\ CallInv(c) /\ call[c] \in CallType
      BY DEF IInv, TypeOK
<1>3. TypeOK' /\ pc'[c] = "store" /\ call'[c] = Updated(c)
      BY <1>1, <1>2, UpdatedFacts DEF TypeOK
<1>4. /\ call'[c].acc = call[c].acc /\ call'[c].tok = call[c].tok
      /\ call'[c].length = call[c].length /\ call'[c].obj = call[c].obj
      /\ call'[c].result = call[c].result
      BY <1>2, <1>3, UpdatedFacts
<1>5. CallInv(c)'
      BY <1>1, <1>2, <1>3, <1>4
      DEF CallInv, FetchInv, ApplyInv, FileInv, Working, OfToken, Owned
<1> QED
    BY <1>1, <1>2, <1>3, <1>5, LocalStep DEF TypeOK

\* The coins that are filed are the account's, also those that another caller
\* has added to the tokenCache the loop ranges over.
LEMMA ToFileOwned ==
    ASSUME IInv, NEW c \in Callers, pc[c] = "index", NEW n \in ToFile(c) \cup Aliased(c)
    PROVE  Owned(CA, call[c].acc, n)
<1>1. /\ FileInv(c) /\ call[c] \in CallType /\ TypeOK /\ CA \in Keys /\ CA \in Lists
      /\ call[c].obj \in DOMAIN heap /\ heap[call[c].obj].acc = call[c].acc
      BY DEF IInv, CallInv, TypeOK, Working, Keys, Lists
<1>2. CASE n \in ToFile(c)
      BY <1>1, <1>2 DEF ToFile, FileInv
<1>3. CASE n \in Aliased(c)
  <2> DEFINE slot == Slot(c, CA)
             alias == call[c].alias
  <2>1. alias # 0 /\ n \in slot.cells[alias].coins
        BY <1>3 DEF Aliased, Slot
  <2>2. alias \in Nat /\ alias <= Len(slot.cells)
        BY <1>1 DEF FileInv, CallType
  <2>3. slot \in SlotType
        BY <1>1, ObjectFacts DEF Slot
  <2>4. alias \in 1..Len(slot.cells)
        BY <2>1, <2>2, <2>3, SlotFacts
  <2>5. CellInv(call[c].acc, CA, slot.cells[alias])
        BY <1>1, <2>4 DEF IInv, HeapInv, SlotsInv, Slot
  <2> QED
      BY <1>1, <2>1, <2>5 DEF CellInv
<1> QED
    BY <1>2, <1>3

\* The entry of the coin's token is read.
LEMMA IndexCoinStep ==
    ASSUME IInv, NEW c \in Callers, IndexCoin(c)
    PROVE  IInv'
<1> DEFINE acc == call[c].acc
           o == call[c].obj
           slot(n) == heap[o].slots[TokenOf(n)]
           newCall(n) == [call[c] EXCEPT !.coin = n, !.fresh = @ \ {n}, !.data = @ \cup {n},
                             !.held = slot(n).cur]
<1>1. PICK n \in ToFile(c) \cup Aliased(c) : call' = [call EXCEPT ![c] = newCall(n)]
      BY ZenonT(60) DEF IndexCoin
<1> DEFINE new == newCall(n)
<1>2. /\ pc[c] = "index" /\ outcome' = outcome
      /\ pc' = [pc EXCEPT ![c] = "file"]
      /\ UNCHANGED <<chain, listed, heap, cachedData, disk, mtx, otaKey, discarded, crashes,
                     storeFaults>>
      BY DEF IndexCoin, Goto, node, counters
<1>3. /\ TypeOK /\ CallInv(c) /\ call[c] \in CallType /\ o \in DOMAIN heap
      BY <1>2 DEF IInv, CallInv, TypeOK, Working
<1>4. Owned(CA, acc, n)
      BY <1>2, ToFileOwned
<1>5. TokenOf(n) \in Keys /\ n \in Nat
      BY <1>3, <1>4, CoinOfToken DEF Owned
<1>6. slot(n) \in SlotType
      BY <1>3, <1>5, ObjectFacts
<1>7. slot(n).cur \in 0..Len(slot(n).cells) /\ Len(slot(n).cells) \in Nat
      BY <1>6, SlotFacts
<1> HIDE DEF slot
<1>8. /\ new \in CallType /\ new.held = slot(n).cur /\ new.acc = acc
      /\ new.tok = call[c].tok /\ new.result = call[c].result
      /\ new.length = call[c].length /\ new.obj = o /\ new.coin = n
      /\ new.fresh = call[c].fresh \ {n} /\ new.alias = call[c].alias
  <2>1. \A h \in Nat, f \in SUBSET Nat, d \in SUBSET Nat :
            [call[c] EXCEPT !.coin = n, !.fresh = f, !.data = d, !.held = h] \in CallType
        BY <1>3, <1>5, Zenon DEF CallType
  <2>2. /\ slot(n).cur \in Nat /\ call[c].fresh \ {n} \in SUBSET Nat
        /\ call[c].data \cup {n} \in SUBSET Nat
        BY <1>3, <1>5, <1>7 DEF CallType
  <2>3. /\ new.held = slot(n).cur /\ new.acc = acc
        /\ new.tok = call[c].tok /\ new.result = call[c].result
        /\ new.length = call[c].length /\ new.obj = o /\ new.coin = n
        /\ new.fresh = call[c].fresh \ {n} /\ new.alias = call[c].alias
        BY <1>3 DEF CallType
  <2>4. new = [call[c] EXCEPT !.coin = n, !.fresh = call[c].fresh \ {n},
                              !.data = call[c].data \cup {n}, !.held = slot(n).cur]
        BY <1>3 DEF CallType
  <2> QED
      BY <2>1, <2>2, <2>3, <2>4
<1>9. call' = [call EXCEPT ![c] = new]
      BY <1>1
<1> HIDE DEF new, newCall
<1>10. TypeOK' /\ pc'[c] = "file" /\ call'[c] = new
      BY <1>2, <1>3, <1>8, <1>9 DEF TypeOK
<1>11. CallInv(c)'
  <2>1. /\ call'[c].acc = call[c].acc /\ call'[c].tok = call[c].tok
        /\ call'[c].length = call[c].length /\ call'[c].obj = o
        /\ call'[c].result = call[c].result /\ call'[c].held = slot(n).cur
        /\ call'[c].coin = n /\ call'[c].fresh = call[c].fresh \ {n}
        /\ call'[c].alias = call[c].alias
        BY <1>8, <1>10
  <2>2. FetchInv(c)' /\ ApplyInv(c)'
        BY <1>10 DEF FetchInv, ApplyInv
  <2>3. /\ \A m \in call[c].fresh : Owned(CA, acc, m)
        /\ call[c].alias <= Len(Slot(c, CA).cells)
        BY <1>2, <1>3 DEF CallInv, FileInv
  <2>4. FileInv(c)'
    <3>1. UNCHANGED <<chain, heap>>
          BY <1>2
    <3>2. Slot(c, CA)' = Slot(c, CA) /\ Slot(c, TokenOf(call[c].coin))' = slot(n)
          BY <2>1, <3>1 DEF Slot, TokenOf, slot
    <3>3. \A m : Owned(CA, acc, m) => Owned(CA, call[c].acc, m)'
          BY <2>1, <3>1 DEF Owned
    <3>4. /\ \A m \in call'[c].fresh : Owned(CA, call[c].acc, m)'
          /\ call'[c].alias <= Len(Slot(c, CA)'.cells)
          BY <2>1, <2>3, <3>2, <3>3
    <3>5. /\ Owned(CA, call[c].acc, call[c].coin)'
          /\ call'[c].held <= Len(slot(n).cells)
          BY <1>4, <1>7, <2>1, <3>1 DEF Owned
    <3> QED
        BY <3>2, <3>4, <3>5 DEF FileInv
  <2> QED
      BY <1>2, <1>3, <1>10, <2>1, <2>2, <2>4 DEF CallInv, Working, OfToken, Owned
<1> QED
    BY <1>2, <1>3, <1>9, <1>10, <1>11, LocalStep DEF TypeOK

\* Filing under a token adds a coin of the token.
LEMMA FileCoinStep ==
    ASSUME IInv, NEW c \in Callers, FileCoin(c)
    PROVE  IInv'
<1> DEFINE acc == call[c].acc
           o == call[c].obj
           n == call[c].coin
           t == TokenOf(n)
           slot == heap[o].slots[t]
           held == call[c].held
           first == [present |-> TRUE, latest |-> LatestIndex(c), coins |-> {}]
           old == IF held = 0 THEN first ELSE slot.cells[held]
           cell == IF n \in old.coins THEN old
                   ELSE [old EXCEPT !.latest = LatestIndex(c), !.coins = @ \cup {n}]
<1>1. /\ pc[c] = "file" /\ outcome' = outcome
      /\ pc' = [pc EXCEPT ![c] = "index"]
      /\ heap' = [heap EXCEPT ![o].slots[t] = PutCell(slot, held, cell)]
      /\ UNCHANGED <<chain, listed, cachedData, disk, mtx, call, otaKey, discarded, crashes,
                     storeFaults>>
      BY DEF FileCoin, Goto, node, counters
<1>2. /\ TypeOK /\ CallInv(c) /\ call[c] \in CallType
      /\ o \in DOMAIN heap /\ heap[o].acc = acc
      /\ call[c].length \in Nat /\ call[c].length >= 1
      /\ held \in Nat /\ held <= Len(slot.cells) /\ Owned(CA, acc, n)
      BY <1>1 DEF IInv, CallInv, TypeOK, Working, FileInv, CallType, Slot
<1>3. t \in Tokens /\ t \in Keys /\ OfToken(t, acc, n) /\ t \notin Lists /\ n \in Nat
      BY <1>2, CoinOfToken, NamesAssumption DEF Lists, Owned
<1>4. /\ slot \in SlotType /\ Len(slot.cells) \in Nat
      /\ \A j \in 1..Len(slot.cells) : slot.cells[j] \in CacheType
      BY <1>2, <1>3, ObjectFacts, SlotFacts
<1>5. held \in 0..Len(slot.cells)
      BY <1>2, <1>4
<1>6. LatestIndex(c) \in Nat
      BY <1>2 DEF LatestIndex
<1>7. old \in CacheType /\ CellInv(acc, t, old) /\ (held # 0 => old = slot.cells[held])
  <2>1. CASE held = 0
    <3>1. first \in CacheType /\ first.present /\ first.coins = {}
          BY <1>6, Zenon DEF CacheType
    <3> QED
        BY <1>3, <2>1, <3>1 DEF CellInv
  <2>2. CASE held # 0
    <3>1. held \in 1..Len(slot.cells)
          BY <1>5, <2>2
    <3> QED
        BY <1>2, <1>3, <1>4, <2>2, <3>1 DEF IInv, HeapInv, SlotsInv
  <2> QED
      BY <2>1, <2>2
<1> HIDE DEF old
<1>8. cell \in CacheType /\ CellInv(acc, t, cell) /\ old.coins \subseteq cell.coins
  <2>1. CASE n \in old.coins
        BY <1>7, <2>1
  <2>2. CASE n \notin old.coins
    <3> DEFINE more == [old EXCEPT !.latest = LatestIndex(c), !.coins = @ \cup {n}]
    <3>1. more.present = old.present /\ more.coins = old.coins \cup {n}
          BY <1>7 DEF CacheType
    <3>2. more \in CacheType
      <4>1. old.coins \cup {n} \in SUBSET Nat
            BY <1>3, <1>7 DEF CacheType
      <4>2. \A x \in SUBSET Nat, i \in Nat : [old EXCEPT !.latest = i, !.coins = x] \in CacheType
            BY <1>7, Zenon DEF CacheType
      <4> QED
          BY <1>6, <4>1, <4>2
    <3>3. cell = more
          BY <2>2
    <3> HIDE DEF more, cell
    <3>4. CellInv(acc, t, more)
          BY <1>3, <1>7, <3>1 DEF CellInv
    <3> QED
        BY <3>1, <3>2, <3>3, <3>4
  <2> QED
      BY <2>1, <2>2
<1> HIDE DEF cell, t, slot
<1>p. heap' = PutHeap(o, t, held, cell)
      BY <1>1 DEF PutHeap, slot
<1>9. /\ heap' \in Seq(Object)
      /\ cachedData' \in [Accounts -> 0..Len(heap')]
      /\ HeapExtends /\ HeapInv' /\ MapInv'
      /\ DOMAIN heap' = DOMAIN heap /\ heap'[o].acc = heap[o].acc
  <2>1. UNCHANGED <<chain, cachedData>> /\ discarded \subseteq discarded'
        BY <1>1
  <2>2. /\ held \in 0..Len(heap[o].slots[t].cells) /\ CellInv(heap[o].acc, t, cell)
        /\ held # 0 => heap[o].slots[t].cells[held].coins \subseteq cell.coins
        /\ t \in Lists /\ heap[o].acc \notin discarded' =>
              Cached(heap[o].slots[t]).coins \subseteq cell.coins
        BY <1>2, <1>3, <1>5, <1>7, <1>8 DEF slot
  <2>3. o \in DOMAIN heap /\ t \in Keys /\ cell \in CacheType
        BY <1>2, <1>3, <1>8
  <2> HIDE DEF o, held
  <2> QED
      BY <1>p, <2>1, <2>2, <2>3, ChangedObject
<1>10. call' = [call EXCEPT ![c] = call[c]]
      BY <1>1, <1>2 DEF TypeOK
<1>11. TypeOK' /\ pc'[c] = "index" /\ call'[c] = call[c]
       /\ \A d \in Callers \ {c} : call'[d] = call[d] /\ pc'[d] = pc[d]
      BY <1>1, <1>2, <1>9, <1>10, TypeStep DEF Labels, TypeOK
<1>12. CallInv(c)'
  <2>1. o \in DOMAIN heap' /\ heap'[o].acc = acc
        BY <1>2, <1>9
  <2>2. FetchInv(c)' /\ ApplyInv(c)'
        BY <1>11 DEF FetchInv, ApplyInv
  <2>3. FileInv(c)'
    <3>1. /\ \A m \in call[c].fresh : Owned(CA, acc, m)
          /\ call[c].alias <= Len(heap[o].slots[CA].cells) /\ call[c].alias \in Nat
          BY <1>1, <1>2 DEF CallInv, FileInv, Slot, CallType
    <3>2. CA \in Keys
          BY DEF Keys, Lists
    <3>3. Len(heap[o].slots[CA].cells) \in Nat /\ Len(heap'[o].slots[CA].cells) \in Nat
          BY <1>2, <1>9, <2>1, <3>2, ObjectFacts, ObjectsFacts, SlotFacts
    <3>4. Len(heap[o].slots[CA].cells) <= Len(heap'[o].slots[CA].cells)
          BY <1>2, <1>9, <3>2 DEF HeapExtends, SlotExtends
    <3> QED
        BY <1>1, <1>11, <3>1, <3>3, <3>4 DEF FileInv, Owned, Slot
  <2> QED
      BY <1>1, <1>2, <1>11, <2>1, <2>2, <2>3 DEF CallInv, Working, OfToken, Owned
<1> QED
    BY <1>1, <1>9, <1>11, <1>12, ObjectStep

\* The list is complete up to the length the caller asked for: the tokenCache
\* it has read had the coins below the first index fetched, and if there was
\* none it has fetched all.  What it replaces may be lost, but then the account
\* is one of the discarded.
LEMMA ApplyStep ==
    ASSUME IInv, NEW c \in Callers, Apply(c)
    PROVE  IInv'
<1> DEFINE acc == call[c].acc
           o == call[c].obj
           l == ListOf(call[c].tok)
           slot == heap[o].slots[l]
           held == call[c].held
           old == IF held = 0 THEN {} ELSE slot.cells[held].coins
           cell == [present |-> TRUE, latest |-> call[c].length - 1,
                    coins |-> old \cup call[c].data]
           put == PutCell(slot, held, cell)
           indexed == [call[c] EXCEPT !.fresh = call[c].data \ old,
                          !.alias = IF held = 0 THEN put.cur ELSE 0]
           new == IF l = CA THEN indexed ELSE Updated(c)
           label == IF l = CA THEN "index" ELSE "store"
<1>1. /\ pc[c] = "apply" /\ outcome' = outcome
      /\ UNCHANGED <<chain, listed, cachedData, disk, mtx, otaKey, crashes, storeFaults>>
      BY DEF Apply, node, counters
<1>2. /\ heap' = [heap EXCEPT ![o].slots[l] = put]
      /\ discarded' = IF Cached(slot).coins \subseteq Cached(put).coins
                      THEN discarded ELSE discarded \cup {acc}
      BY DEF Apply, LatestIndex
<1>3. call' = [call EXCEPT ![c] = new] /\ pc' = [pc EXCEPT ![c] = label]
      BY DEF Apply, LatestIndex, Goto
<1>4. /\ TypeOK /\ CallInv(c) /\ call[c] \in CallType
      /\ l \in Lists /\ l \in Keys /\ acc \in Accounts
      /\ o \in DOMAIN heap /\ heap[o].acc = acc
      /\ call[c].length \in Nat /\ call[c].length >= 1 /\ call[c].from \in Nat
      /\ call[c].length <= Len(chain[l]) /\ call[c].data \in SUBSET Nat
      /\ call[c].data = GetCoinsByIndices(l, acc, call[c].from, call[c].length - 1)
  <2>1. call[c] \in CallType /\ TypeOK /\ CallInv(c)
        BY DEF IInv, TypeOK
  <2>2. /\ call[c].length \in Nat /\ call[c].from \in Nat /\ call[c].data \in SUBSET Nat
        BY <2>1 DEF CallType
  <2>3. l \in Lists /\ l \in Keys
        BY DEF ListOf, Lists, Keys
  <2> QED
      BY <1>1, <2>1, <2>2, <2>3 DEF CallInv, Working
<1>5. /\ held \in Nat /\ held <= Len(slot.cells)
      /\ held = 0 => call[c].from = 0
      /\ held # 0 => HasBelow(l, acc, call[c].from, slot.cells[held].coins)
      BY <1>1, <1>4 DEF CallInv, ApplyInv, Slot, CallType
<1>6. /\ slot \in SlotType /\ Len(slot.cells) \in Nat
      /\ \A j \in 1..Len(slot.cells) : slot.cells[j] \in CacheType
      BY <1>4, ObjectFacts, SlotFacts
<1>7. held \in 0..Len(slot.cells) /\ (held # 0 => held \in 1..Len(slot.cells))
  <2> HIDE DEF slot, held
  <2> QED
      BY <1>5, <1>6
<1>8. Len(chain[l]) \in Nat
      BY <1>4, LenProperties DEF TypeOK
<1>9. /\ old \in SUBSET Nat
      /\ \A n \in old : Owned(l, acc, n)
      /\ HasBelow(l, acc, call[c].from, old)
  <2>1. CASE held = 0
        BY <1>5, <2>1 DEF HasBelow
  <2>2. CASE held # 0
    <3>1. CellInv(acc, l, slot.cells[held])
          BY <1>4, <1>7, <2>2 DEF IInv, HeapInv, SlotsInv
    <3>2. slot.cells[held] \in CacheType
          BY <1>6, <1>7, <2>2
    <3> QED
        BY <1>4, <1>5, <2>2, <3>1, <3>2 DEF CellInv, CacheType
  <2> QED
      BY <2>1, <2>2
<1>10. held # 0 => slot.cells[held].coins = old
      OBVIOUS
<1> HIDE DEF old, l, slot, acc
<1>11. /\ cell \in CacheType
       /\ cell.present = TRUE /\ cell.latest = call[c].length - 1
       /\ cell.coins = old \cup call[c].data
  <2>1. call[c].length - 1 \in Nat
        BY <1>4
  <2>2. old \cup call[c].data \in SUBSET Nat
        BY <1>4, <1>9, Zenon
  <2> QED
      BY <2>1, <2>2, Zenon DEF CacheType
<1> HIDE DEF cell
<1>12. CellInv(acc, l, cell)
  <2>1. \A n \in call[c].data : Owned(l, acc, n)
        BY <1>4, <1>8 DEF GetCoinsByIndices, Owned
  <2>2. \A n \in cell.coins : Owned(l, acc, n)
        BY <1>9, <1>11, <2>1
  <2>3. acc \notin discarded => \A n \in 0..(call[c].length - 1) :
            chain[l][n + 1].owner = acc => n \in cell.coins
    <3>1. ASSUME acc \notin discarded, NEW n \in 0..(call[c].length - 1),
                 chain[l][n + 1].owner = acc
          PROVE  n \in cell.coins
      <4>1. CASE n < call[c].from
        <5>1. n \in 0..(call[c].from - 1)
              BY <1>4, <4>1
        <5> QED
            BY <1>9, <1>11, <3>1, <5>1 DEF HasBelow
      <4>2. CASE n >= call[c].from
        <5>1. n \in call[c].from..(call[c].length - 1)
              BY <1>4, <4>2
        <5> QED
            BY <1>4, <1>11, <3>1, <5>1 DEF GetCoinsByIndices
      <4> QED
          BY <1>4, <4>1, <4>2
    <3> QED
        BY <3>1
  <2>4. cell.latest < Len(chain[l]) /\ (cell.latest + 1) - 1 = call[c].length - 1
        BY <1>4, <1>8, <1>11
  <2>5. HasBelow(l, acc, cell.latest + 1, cell.coins)
        BY <2>3, <2>4 DEF HasBelow
  <2>6. l \notin Tokens
        BY <1>4, NamesAssumption DEF Lists
  <2> QED
      BY <1>11, <2>2, <2>4, <2>5, <2>6 DEF CellInv
<1>13. /\ put \in SlotType /\ Cached(put) = cell
       /\ held = 0 => put.cur = Len(put.cells)
      BY <1>6, <1>7, <1>11, PutFacts
<1> HIDE DEF put
<1>14. /\ discarded \subseteq discarded' /\ discarded' \subseteq Accounts
       /\ acc \notin discarded' => Cached(slot).coins \subseteq cell.coins
  <2>1. discarded \subseteq Accounts
        BY <1>4 DEF TypeOK
  <2>2. CASE Cached(slot).coins \subseteq Cached(put).coins
        BY <1>2, <1>13, <2>1, <2>2
  <2>3. CASE ~(Cached(slot).coins \subseteq Cached(put).coins)
        BY <1>2, <1>4, <2>1, <2>3
  <2> QED
      BY <2>2, <2>3
<1>15. /\ heap' \in Seq(Object)
       /\ cachedData' \in [Accounts -> 0..Len(heap')]
       /\ HeapExtends /\ HeapInv' /\ MapInv'
       /\ DOMAIN heap' = DOMAIN heap /\ heap'[o].acc = heap[o].acc
       /\ heap'[o].slots[l] = put
  <2>1. /\ UNCHANGED <<chain, cachedData>>
        /\ heap' = PutHeap(o, l, held, cell)
        BY <1>1, <1>2 DEF PutHeap, put, slot
  <2>2. /\ held \in 0..Len(heap[o].slots[l].cells) /\ CellInv(heap[o].acc, l, cell)
        /\ held # 0 => heap[o].slots[l].cells[held].coins \subseteq cell.coins
        /\ l \in Lists /\ heap[o].acc \notin discarded' =>
              Cached(heap[o].slots[l]).coins \subseteq cell.coins
        BY <1>4, <1>7, <1>10, <1>11, <1>12, <1>14 DEF slot
  <2>3. o \in DOMAIN heap /\ l \in Keys /\ cell \in CacheType /\ discarded \subseteq discarded'
        BY <1>4, <1>11, <1>14
  <2> HIDE DEF o, held
  <2>4. /\ heap' \in Seq(Object)
        /\ cachedData' \in [Accounts -> 0..Len(heap')]
        /\ HeapExtends /\ HeapInv' /\ MapInv'
        /\ DOMAIN heap' = DOMAIN heap /\ heap'[o].acc = heap[o].acc
        /\ heap'[o].slots[l] = PutCell(heap[o].slots[l], held, cell)
        BY <2>1, <2>2, <2>3, ChangedObject
  <2> QED
      BY <2>4 DEF put, slot
<1>16. /\ new \in CallType /\ new.acc = acc /\ new.tok = call[c].tok
       /\ new.result = call[c].result /\ new.length = call[c].length /\ new.obj = o
       /\ label = "index" => /\ l = CA
                             /\ new.fresh \subseteq call[c].data
                             /\ new.alias = 0 \/ new.alias = Len(put.cells)
       /\ label \in {"index", "store"}
  <2>1. CASE l = CA
    <3> DEFINE alias == IF held = 0 THEN put.cur ELSE 0
               fresh == call[c].data \ old
    <3>1. fresh \in SUBSET Nat /\ alias \in Nat /\ fresh \subseteq call[c].data
          BY <1>4, <1>13, SlotFacts
    <3>2. alias = 0 \/ alias = Len(put.cells)
          BY <1>13
    <3> HIDE DEF alias, fresh
    <3>3. indexed = [call[c] EXCEPT !.fresh = fresh, !.alias = alias]
          BY DEF alias, fresh
    <3>4. indexed \in CallType
          BY <1>4, <3>1, <3>3, Zenon DEF CallType
    <3>5. /\ indexed.acc = acc /\ indexed.tok = call[c].tok
          /\ indexed.result = call[c].result /\ indexed.length = call[c].length
          /\ indexed.obj = o /\ indexed.fresh = fresh /\ indexed.alias = alias
          BY <1>4, <3>3 DEF CallType, acc
    <3> HIDE DEF indexed
    <3> QED
        BY <2>1, <3>1, <3>2, <3>4, <3>5
  <2>2. CASE l # CA
        BY <1>4, <2>2, UpdatedFacts DEF acc
  <2> QED
      BY <2>1, <2>2
<1> HIDE DEF new, label
<1>17. TypeOK' /\ pc'[c] = label /\ call'[c] = new
       /\ \A d \in Callers \ {c} : call'[d] = call[d] /\ pc'[d] = pc[d]
  <2>1. UNCHANGED <<chain, listed, disk, mtx, otaKey, outcome>> /\ label \in Labels
        BY <1>1, <1>16 DEF Labels
  <2> QED
      BY ZenonT(60), <1>3, <1>4, <1>14, <1>15, <1>16, <2>1, TypeStep
<1>18. CallInv(c)'
  <2>1. /\ call'[c].acc = call[c].acc /\ call'[c].tok = call[c].tok
        /\ call'[c].length = call[c].length /\ call'[c].obj = o
        /\ call'[c].result = call[c].result
        /\ o \in DOMAIN heap' /\ heap'[o].acc = call'[c].acc
        BY <1>4, <1>15, <1>16, <1>17 DEF acc
  <2>2. FetchInv(c)' /\ ApplyInv(c)'
        BY <1>16, <1>17 DEF FetchInv, ApplyInv
  <2>3. FileInv(c)'
    <3>1. CASE label = "store"
          BY <1>17, <3>1 DEF FileInv
    <3>2. CASE label = "index"
      <4>1. \A n \in call[c].data : Owned(CA, acc, n)
            BY <1>4, <1>8, <1>16, <3>2 DEF GetCoinsByIndices, Owned
      <4>2. call'[c].fresh \subseteq call[c].data
            /\ (call'[c].alias = 0 \/ call'[c].alias = Len(put.cells))
            BY <1>16, <1>17, <3>2
      <4>3. Slot(c, CA)' = put /\ Len(put.cells) \in Nat
            BY <1>13, <1>15, <1>16, <2>1, <3>2, SlotFacts DEF Slot
      <4>4. \A n \in call'[c].fresh : Owned(CA, call[c].acc, n)'
            BY <1>1, <2>1, <4>1, <4>2 DEF Owned, acc
      <4> QED
          BY <1>17, <3>2, <4>2, <4>3, <4>4 DEF FileInv
    <3> QED
        BY <1>16, <3>1, <3>2
  <2>4. /\ call'[c].length <= Len(chain'[ListOf(call'[c].tok)])
        /\ call'[c].length >= 1 /\ call'[c].acc \in Accounts
        BY <1>1, <1>4, <2>1 DEF l, acc
  <2>5. outcome'[c] = "ok" => \A n \in call'[c].result : OfToken(call[c].tok, call[c].acc, n)'
        BY <1>1, <1>4, <2>1 DEF CallInv, OfToken, Owned
  <2>6. pc'[c] \in {"index", "store"}
        BY <1>16, <1>17
  <2> QED
      BY <2>1, <2>2, <2>3, <2>4, <2>5, <2>6 DEF CallInv
<1>19. pc'[c] # "write" /\ pc[c] # "write"
      BY <1>1, <1>16, <1>17
<1>20. UNCHANGED <<chain, disk, mtx, crashes, storeFaults, outcome>>
      BY <1>1
<1> QED
    BY <1>15, <1>17, <1>18, <1>19, <1>20, ObjectStep

-----------------------------------------------------------------------------
(* Store, under the mutex.                                                 *)

\* Emptying the file, with the mutex held.
LEMMA StoreBeginStep ==
    ASSUME IInv, NEW c \in Callers, StoreBegin(c)
    PROVE  IInv'
<1> DEFINE acc == call[c].acc
           obj == call[c].obj
<1>1. /\ pc[c] = "store" /\ mtx = NoCaller /\ mtx' = c
      /\ pc' = [pc EXCEPT ![c] = "write"]
      /\ cachedData' = [cachedData EXCEPT ![acc] = obj]
      /\ disk' = [disk EXCEPT ![acc] = Damaged]
      /\ UNCHANGED <<chain, listed, heap, call, otaKey, outcome, discarded, crashes, storeFaults>>
      BY DEF StoreBegin, Goto, node, counters
<1>2. /\ acc \in Accounts /\ TypeOK /\ CallInv(c)
      /\ obj \in DOMAIN heap /\ heap[obj].acc = acc
      BY <1>1 DEF IInv, CallInv, Working
<1>3. /\ Damaged \in [state : {"absent", "damaged", "ok"}, caches : CachesType]
      /\ Damaged.state = "damaged" /\ Damaged.caches = EmptyCaches
      BY EmptyCachesInv DEF Damaged
<1>4. obj \in 0..Len(heap) /\ obj # 0
      BY <1>2, LenProperties DEF TypeOK
<1>5. TypeOK'
      BY <1>1, <1>2, <1>3, <1>4 DEF TypeOK
<1>6. HeapExtends /\ HeapInv'
      BY <1>1, <1>2, HeapSame, SlotsKept DEF HeapInv, IInv
<1>7. MapInv'
      BY <1>1, <1>2 DEF MapInv, IInv, TypeOK
<1>8. DiskInv'
  <2>1. \A a \in Accounts : CacheInv(a, disk'[a].caches)
        BY <1>1, <1>2, <1>3, EmptyCachesInv DEF IInv, DiskInv, TypeOK
  <2> QED
      BY <1>1, <2>1, CacheKept DEF DiskInv
<1>9. pc'[c] = "write" /\ \A d \in Callers \ {c} : pc'[d] = pc[d]
      BY <1>1, <1>2 DEF TypeOK
<1>10. CallInv(c)'
      BY <1>1, <1>2, <1>9 DEF CallInv, FetchInv, ApplyInv, FileInv, Working, OfToken, Owned
<1>11. \A d \in Callers : CallInv(d)'
      BY <1>1, <1>5, <1>6, <1>9, <1>10, OtherCaller
<1>12. MutexInv'
  <2>1. \A d \in Callers : pc'[d] = "write" <=> mtx' = d
        BY <1>1, <1>9, NamesAssumption DEF IInv, MutexInv
  <2>2. crashes + storeFaults = 0 => \A a \in Accounts : disk[a].state # "damaged"
        BY <1>1 DEF IInv, MutexInv
  <2>3. \A a \in Accounts \ {acc} : disk'[a] = disk[a]
        BY <1>1, <1>2 DEF TypeOK
  <2> QED
      BY <1>1, <2>1, <2>2, <2>3, NamesAssumption DEF IInv, MutexInv
<1>13. DamageNeedsFault'
      BY <1>1 DEF IInv, DamageNeedsFault
<1> QED
    BY <1>5, <1>6, <1>7, <1>8, <1>11, <1>12, <1>13 DEF IInv

\* Writing the object, with the mutex held.
LEMMA StoreEndStep ==
    ASSUME IInv, NEW c \in Callers, StoreEnd(c)
    PROVE  IInv'
<1> DEFINE acc == call[c].acc
           obj == call[c].obj
           file == [state |-> "ok", caches |-> CachesOf(heap[obj])]
<1>1. /\ pc[c] = "write" /\ mtx' = NoCaller
      /\ pc' = [pc EXCEPT ![c] = "readBack"]
      /\ disk' = [disk EXCEPT ![acc] = file]
      /\ UNCHANGED <<chain, listed, heap, cachedData, call, otaKey, outcome, discarded, crashes, storeFaults>>
      BY DEF StoreEnd, Goto, node, counters
<1>2. /\ acc \in Accounts /\ TypeOK /\ CallInv(c)
      /\ obj \in DOMAIN heap /\ heap[obj].acc = acc
      /\ mtx = c
      BY <1>1 DEF IInv, CallInv, Working, MutexInv
<1>3. CachesOf(heap[obj]) \in CachesType /\ CacheInv(acc, CachesOf(heap[obj]))
  <2>1. heap[obj] \in Object /\ SlotsInv(acc, heap[obj].slots)
        BY <1>2, ObjectFacts DEF IInv, HeapInv
  <2> QED
      BY <2>1, CachesFacts
<1>4. /\ file \in [state : {"absent", "damaged", "ok"}, caches : CachesType]
      /\ file.state = "ok" /\ file.caches = CachesOf(heap[obj])
      BY <1>3
<1> HIDE DEF file
<1>5. TypeOK'
      BY <1>1, <1>2, <1>4 DEF TypeOK
<1>6. HeapExtends /\ HeapInv' /\ MapInv'
      BY <1>1, <1>2, HeapSame, SlotsKept DEF HeapInv, MapInv, IInv
<1>7. DiskInv'
  <2>1. \A a \in Accounts : CacheInv(a, disk'[a].caches)
        BY <1>1, <1>2, <1>3, <1>4 DEF IInv, DiskInv, TypeOK
  <2> QED
      BY <1>1, <2>1, CacheKept DEF DiskInv
<1>8. pc'[c] = "readBack" /\ \A d \in Callers \ {c} : pc'[d] = pc[d]
      BY <1>1, <1>2 DEF TypeOK
<1>9. CallInv(c)'
      BY <1>1, <1>2, <1>8 DEF CallInv, FetchInv, ApplyInv, FileInv, Working, OfToken, Owned
<1>10. \A d \in Callers : CallInv(d)'
      BY <1>1, <1>5, <1>6, <1>8, <1>9, OtherCaller
<1>11. MutexInv'
  <2>1. \A d \in Callers : pc'[d] = "write" <=> mtx' = d
        BY <1>1, <1>2, <1>8, NamesAssumption DEF IInv, MutexInv
  <2>2. \A a \in Accounts \ {acc} : disk'[a] = disk[a]
        BY <1>1, <1>2 DEF TypeOK
  <2>3. disk'[acc].state # "damaged"
        BY <1>1, <1>2, <1>4 DEF TypeOK
  <2>4. crashes + storeFaults = 0 => \A a \in Accounts : disk'[a].state # "damaged"
        BY <1>2, <2>2, <2>3 DEF IInv, MutexInv
  <2> QED
      BY <1>1, <2>1, <2>4 DEF IInv, MutexInv
<1>12. DamageNeedsFault'
      BY <1>1 DEF IInv, DamageNeedsFault
<1> QED
    BY <1>5, <1>6, <1>7, <1>10, <1>11, <1>12 DEF IInv

\* A file that could not be written is damaged by a fault.
LEMMA StoreFailsStep ==
    ASSUME IInv, NEW c \in Callers, StoreFails(c)
    PROVE  IInv'
<1> DEFINE acc == call[c].acc
<1>1. /\ pc[c] \in {"store", "write"} /\ mtx' = NoCaller
      /\ pc[c] = "store" => mtx = NoCaller
      /\ pc' = [pc EXCEPT ![c] = "readBack"]
      /\ cachedData' = [cachedData EXCEPT ![acc] = 0]
      /\ storeFaults' = storeFaults + 1
      /\ UNCHANGED <<chain, listed, heap, disk, call, otaKey, outcome, discarded, crashes>>
      BY DEF StoreFails, Goto, node
<1>2. /\ acc \in Accounts /\ TypeOK /\ CallInv(c)
      /\ crashes \in Nat /\ storeFaults \in Nat
      BY <1>1 DEF IInv, CallInv, MutexInv
<1>3. TypeOK'
  <2>1. Len(heap) \in Nat
        BY <1>2, LenProperties DEF TypeOK
  <2>2. cachedData' \in [Accounts -> 0..Len(heap)]
        BY <1>1, <1>2, <2>1 DEF TypeOK
  <2>3. pc' \in [Callers -> Labels]
        BY <1>1, <1>2 DEF TypeOK, Labels
  <2> QED
      BY <1>1, <1>2, <2>2, <2>3 DEF TypeOK, Labels
<1>4. HeapExtends /\ HeapInv' /\ DiskInv'
      BY <1>1, <1>2, HeapSame, SlotsKept, CacheKept DEF HeapInv, DiskInv, IInv
<1>5. MapInv'
      BY <1>1, <1>2 DEF MapInv, IInv, TypeOK
<1>6. pc'[c] = "readBack" /\ \A d \in Callers \ {c} : pc'[d] = pc[d]
      BY <1>1, <1>2 DEF TypeOK
<1>7. CallInv(c)'
      BY <1>1, <1>2, <1>6 DEF CallInv, FetchInv, ApplyInv, FileInv, Working, OfToken, Owned
<1>8. \A d \in Callers : CallInv(d)'
      BY <1>1, <1>3, <1>4, <1>6, <1>7, OtherCaller
<1>9. MutexInv'
  <2>1. \A d \in Callers \ {c} : pc[d] # "write"
        BY <1>1, NamesAssumption DEF IInv, MutexInv
  <2>2. \A d \in Callers : pc'[d] = "write" <=> mtx' = d
        BY <1>1, <1>6, <2>1, NamesAssumption
  <2>3. crashes' \in Nat /\ storeFaults' \in Nat /\ crashes' + storeFaults' # 0
        BY <1>1, <1>2
  <2> QED
      BY <2>2, <2>3 DEF MutexInv
<1>10. DamageNeedsFault'
      BY <1>1, <1>2 DEF DamageNeedsFault
<1> QED
    BY <1>3, <1>4, <1>5, <1>8, <1>9, <1>10 DEF IInv

\* Only the files survive a crash.
LEMMA CrashStep ==
    ASSUME IInv, Crash
    PROVE  IInv'
<1>1. /\ crashes' = crashes + 1
      /\ heap' = <<>>
      /\ cachedData' = [a \in Accounts |-> 0]
      /\ mtx' = NoCaller
      /\ pc' = [c \in Callers |-> "idle"]
      /\ call' = [c \in Callers |-> Idle]
      /\ otaKey' = [c \in Callers |-> TRUE]
      /\ outcome' = [c \in Callers |-> "none"]
      /\ UNCHANGED <<chain, listed, disk, discarded, storeFaults>>
      BY DEF Crash, node
<1>2. Idle \in CallType
  <2>1. PRV \in TokenIDs
        BY DEF TokenIDs
  <2> QED
      BY <2>1, Zenon DEF Idle, CallType
<1>3. heap' \in Seq(Object) /\ Len(heap') = 0 /\ DOMAIN heap' = {}
      BY <1>1
<1>4. cachedData' \in [Accounts -> 0..Len(heap')]
      BY <1>1, <1>3
<1>5. /\ call' \in [Callers -> CallType] /\ otaKey' \in [Callers -> BOOLEAN]
      /\ pc' \in [Callers -> Labels] /\ outcome' \in [Callers -> Outcomes]
      BY <1>1, <1>2 DEF Labels, Outcomes
<1>6. TypeOK'
      BY <1>1, <1>3, <1>4, <1>5 DEF IInv, TypeOK, Labels, Outcomes, Object
<1>7. HeapInv' /\ MapInv' /\ DiskInv'
      BY <1>1, <1>3, CacheKept DEF IInv, HeapInv, MapInv, DiskInv
<1>8. \A c \in Callers : pc'[c] = "idle" /\ outcome'[c] = "none"
      BY <1>1
<1>9. \A c \in Callers : CallInv(c)'
      BY <1>8 DEF CallInv, FetchInv, ApplyInv, FileInv, Working
<1>10. MutexInv'
  <2>1. crashes' \in Nat /\ storeFaults' \in Nat /\ crashes' + storeFaults' # 0
        BY <1>1 DEF IInv, MutexInv
  <2> QED
      BY <1>1, <1>8, <2>1, NamesAssumption DEF MutexInv
<1>11. DamageNeedsFault'
      BY <1>8 DEF DamageNeedsFault
<1> QED
    BY <1>6, <1>7, <1>9, <1>10, <1>11 DEF IInv

-----------------------------------------------------------------------------
(* The node: the chain only grows.                                         *)

\* Coins keep their number and their owner.
LEMMA ChainGrows ==
    ASSUME IInv, NEW list \in Lists, AddCoin(list)
    PROVE  /\ chain' \in [Lists -> Seq([owner : Accounts, token : TokenIDs])]
           /\ \A l \in Lists :
                 /\ Len(chain[l]) \in Nat /\ Len(chain'[l]) \in Nat
                 /\ Len(chain[l]) <= Len(chain'[l])
                 /\ \A k \in 1..Len(chain[l]) : chain'[l][k] = chain[l][k]
                 /\ \A k \in DOMAIN chain'[l] : chain'[l][k] \in NewCoins(l)
           /\ \A l \in Lists, n \in Nat : n < Len(chain[l]) =>
                 n < Len(chain'[l]) /\ chain'[l][n + 1] = chain[l][n + 1]
<1>1. PICK coin \in NewCoins(list) : chain' = [chain EXCEPT ![list] = Append(@, coin)]
      BY DEF AddCoin
<1>3. TypeOK
      BY DEF IInv
<1> DEFINE Coin == [owner : Accounts, token : TokenIDs]
<1>4. coin \in Coin
      BY DEF NewCoins, TokenIDs
<1> HIDE DEF Coin
<1>5. chain \in [Lists -> Seq(Coin)]
      BY <1>3 DEF TypeOK, Coin
<1>6. \A l \in Lists :
          /\ chain'[l] \in Seq(Coin)
          /\ Len(chain[l]) \in Nat /\ Len(chain'[l]) \in Nat
          /\ Len(chain[l]) <= Len(chain'[l])
          /\ \A k \in 1..Len(chain[l]) : chain'[l][k] = chain[l][k]
          /\ \A k \in 1..Len(chain'[l]) : chain'[l][k] \in NewCoins(l)
  <2> SUFFICES ASSUME NEW l \in Lists
               PROVE  /\ chain'[l] \in Seq(Coin)
                      /\ Len(chain[l]) \in Nat /\ Len(chain'[l]) \in Nat
                      /\ Len(chain[l]) <= Len(chain'[l])
                      /\ \A k \in 1..Len(chain[l]) : chain'[l][k] = chain[l][k]
                      /\ \A k \in 1..Len(chain'[l]) : chain'[l][k] \in NewCoins(l)
      OBVIOUS
  <2>1. /\ chain[l] \in Seq(Coin) /\ Len(chain[l]) \in Nat
        /\ DOMAIN chain[l] = 1..Len(chain[l])
        BY <1>5, LenProperties
  <2>2. \A k \in 1..Len(chain[l]) : chain[l][k] \in NewCoins(l)
        BY <1>3, <2>1 DEF TypeOK
  <2>3. CASE l = list
    <3>1. chain'[l] = Append(chain[l], coin)
          BY <1>1, <1>5, <2>3
    <3>2. /\ chain'[l] \in Seq(Coin)
          /\ Len(chain'[l]) = Len(chain[l]) + 1
          /\ chain'[l][Len(chain[l]) + 1] = coin
          /\ \A k \in 1..Len(chain[l]) : chain'[l][k] = chain[l][k]
          BY <1>4, <2>1, <3>1, AppendProperties
    <3> QED
        BY <2>1, <2>2, <2>3, <3>2
  <2>4. CASE l # list
    <3>1. chain'[l] = chain[l]
          BY <1>1, <1>5, <2>4
    <3> QED
        BY <2>1, <2>2, <3>1
  <2> QED
      BY <2>3, <2>4
<1>7. chain' \in [Lists -> Seq(Coin)]
      BY <1>1, <1>5, <1>6
<1>8. \A l \in Lists : DOMAIN chain'[l] = 1..Len(chain'[l])
      BY <1>6, LenProperties
<1>9. \A l \in Lists, n \in Nat : n < Len(chain[l]) =>
          n < Len(chain'[l]) /\ chain'[l][n + 1] = chain[l][n + 1]
      BY <1>6
<1> QED
    BY <1>6, <1>7, <1>8, <1>9 DEF Coin

\* New coins come behind those that are there.
LEMMA AddCoinStep ==
    ASSUME IInv, NEW list \in Lists, AddCoin(list)
    PROVE  IInv'
<1>1. UNCHANGED <<listed, heap, cachedData, disk, mtx, pc, call, otaKey, outcome,
                  discarded, crashes, storeFaults>>
      BY DEF AddCoin, counters
<1>2. TypeOK
      BY DEF IInv
<1>3. /\ chain' \in [Lists -> Seq([owner : Accounts, token : TokenIDs])]
      /\ \A l \in Lists :
            /\ Len(chain[l]) \in Nat /\ Len(chain'[l]) \in Nat
            /\ Len(chain[l]) <= Len(chain'[l])
            /\ \A k \in 1..Len(chain[l]) : chain'[l][k] = chain[l][k]
            /\ \A k \in DOMAIN chain'[l] : chain'[l][k] \in NewCoins(l)
      BY ChainGrows
<1>4. TypeOK'
      BY <1>1, <1>2, <1>3 DEF TypeOK
<1>5. \A l \in Lists, n \in Nat : n < Len(chain[l]) =>
          n < Len(chain'[l]) /\ chain'[l][n + 1] = chain[l][n + 1]
      BY ChainGrows
<1>6. \A tok : ListOf(tok) \in Lists
      BY DEF ListOf, Lists
<1>7. /\ \A l \in Lists : \A acc, n : Owned(l, acc, n) => Owned(l, acc, n)'
      /\ \A tok, acc, n : OfToken(tok, acc, n) => OfToken(tok, acc, n)'
      BY <1>5, <1>6 DEF Owned, OfToken
<1>8. ASSUME NEW l \in Lists, NEW acc, NEW from \in Nat, NEW coins,
             from <= Len(chain[l]), HasBelow(l, acc, from, coins)
      PROVE  HasBelow(l, acc, from, coins)'
  <2>1. \A n \in 0..(from - 1) : chain'[l][n + 1] = chain[l][n + 1]
        BY <1>3, <1>5, <1>8
  <2> QED
      BY <1>1, <1>8, <2>1 DEF HasBelow
<1>9. ASSUME NEW acc, NEW k, NEW cell \in CacheType, CellInv(acc, k, cell)
      PROVE  CellInv(acc, k, cell)'
  <2>1. ASSUME k \in Lists
        PROVE  /\ \A n \in cell.coins : Owned(k, acc, n)'
               /\ cell.latest < Len(chain'[k])
               /\ HasBelow(k, acc, cell.latest + 1, cell.coins)'
    <3>1. cell.latest \in Nat
          BY DEF CacheType
    <3>2. cell.latest < Len(chain[k]) /\ HasBelow(k, acc, cell.latest + 1, cell.coins)
          BY <1>9, <2>1 DEF CellInv
    <3>3. /\ cell.latest + 1 \in Nat /\ cell.latest + 1 <= Len(chain[k])
          /\ cell.latest < Len(chain'[k])
          BY <1>3, <2>1, <3>1, <3>2
    <3>4. HasBelow(k, acc, cell.latest + 1, cell.coins)'
          BY <1>8, <2>1, <3>2, <3>3
    <3> QED
        BY <1>7, <1>9, <2>1, <3>3, <3>4 DEF CellInv
  <2>2. k \in Tokens => \A n \in cell.coins : OfToken(k, acc, n)'
        BY <1>7, <1>9 DEF CellInv
  <2>3. cell.present
        BY <1>9 DEF CellInv
  <2> QED
      BY <2>1, <2>2, <2>3 DEF CellInv
<1>10. HeapInv'
  <2>1. ASSUME NEW o \in DOMAIN heap, NEW k \in Keys,
               NEW j \in 1..Len(heap[o].slots[k].cells)
        PROVE  CellInv(heap[o].acc, k, heap[o].slots[k].cells[j])'
    <3>1. heap[o].slots[k].cells[j] \in CacheType
          BY <1>2, ObjectFacts, SlotFacts
    <3>2. CellInv(heap[o].acc, k, heap[o].slots[k].cells[j])
          BY DEF IInv, HeapInv, SlotsInv
    <3>3. PICK acc, cell : acc = heap[o].acc /\ cell = heap[o].slots[k].cells[j]
          OBVIOUS
    <3>4. cell \in CacheType /\ CellInv(acc, k, cell)
          BY <3>1, <3>2, <3>3
    <3>5. CellInv(acc, k, cell)'
          BY <1>9, <3>4
    <3>6. heap'[o].acc = acc /\ heap'[o].slots[k].cells[j] = cell
          BY <1>1, <3>3
    <3> QED
        BY <3>5, <3>6
  <2> QED
      BY <1>1, <2>1 DEF HeapInv, SlotsInv
<1>11. DiskInv'
  <2>1. ASSUME NEW a \in Accounts, NEW k \in Keys
        PROVE  disk[a].caches[k] = NoCache \/ CellInv(a, k, disk[a].caches[k])'
    <3>1. disk[a].caches[k] \in CacheType
          BY <1>2 DEF TypeOK, CachesType
    <3>2. disk[a].caches[k] = NoCache \/ CellInv(a, k, disk[a].caches[k])
          BY DEF IInv, DiskInv, CacheInv
    <3>3. PICK cell : cell = disk[a].caches[k]
          OBVIOUS
    <3>4. cell = NoCache \/ CellInv(a, k, cell)'
          BY <1>9, <3>1, <3>2, <3>3
    <3>5. disk'[a].caches[k] = cell
          BY <1>1, <3>3
    <3> QED
        BY <3>3, <3>4, <3>5
  <2> QED
      BY <1>1, <2>1 DEF DiskInv, CacheInv
<1>12. MapInv' /\ MutexInv' /\ DamageNeedsFault'
      BY <1>1 DEF IInv, MapInv, MutexInv, DamageNeedsFault
<1>13. ASSUME NEW c \in Callers PROVE CallInv(c)'
  <2> DEFINE l == ListOf(call[c].tok)
             acc == call[c].acc
             from == call[c].from
             length == call[c].length
  <2>1. CallInv(c) /\ l \in Lists /\ CA \in Lists
        BY <1>6 DEF IInv, Lists
  <2>2. call[c] \in CallType
        BY <1>2 DEF TypeOK
  <2>3. from \in Nat /\ length \in Nat
        BY <2>2 DEF CallType
  <2>4. length <= Len(chain[l]) =>
            /\ length <= Len(chain'[l])
            /\ GetCoinsByIndices(l, acc, from, length - 1)'
               = GetCoinsByIndices(l, acc, from, length - 1)
    <3> SUFFICES ASSUME length <= Len(chain[l])
                 PROVE  /\ length <= Len(chain'[l])
                        /\ GetCoinsByIndices(l, acc, from, length - 1)'
                           = GetCoinsByIndices(l, acc, from, length - 1)
        OBVIOUS
    <3>1. length <= Len(chain'[l])
          BY <1>3, <2>1, <2>3
    <3>2. \A n \in from..(length - 1) : chain'[l][n + 1] = chain[l][n + 1]
          BY <1>3, <1>5, <2>1, <2>3
    <3> QED
        BY <1>1, <3>1, <3>2 DEF GetCoinsByIndices
  <2>5. from <= Len(chain[l]) =>
            /\ from <= Len(chain'[l])
            /\ \A n \in 0..(from - 1) : chain'[l][n + 1] = chain[l][n + 1]
        BY <1>3, <1>5, <2>1, <2>3
  <2>6. pc[c] \in {"fetch", "update", "apply"} => from <= Len(chain[l])
        BY <2>1 DEF CallInv
  <2>7. FetchInv(c)'
        BY <1>1, <2>1, <2>5, <2>6 DEF CallInv, FetchInv, HasBelow, Slot
  <2>8. ApplyInv(c)'
        BY <1>1, <2>1, <2>5, <2>6 DEF CallInv, ApplyInv, HasBelow, Slot
  <2>9. FileInv(c)'
    <3>1. FileInv(c)
          BY <2>1 DEF CallInv
    <3>2. Owned(CA, acc, call[c].coin) => TokenOf(call[c].coin)' = TokenOf(call[c].coin)
          BY <1>1, <1>5, <2>1 DEF Owned, TokenOf
    <3>3. \A n : Owned(CA, acc, n) => Owned(CA, call[c].acc, n)'
          BY <1>1, <1>5, <2>1 DEF Owned
    <3>4. pc'[c] \in {"index", "file"} =>
              /\ \A n \in call'[c].fresh : Owned(CA, call[c].acc, n)'
              /\ call'[c].alias <= Len(Slot(c, CA)'.cells)
          BY <1>1, <3>1, <3>3 DEF FileInv, Slot
    <3>5. pc'[c] = "file" =>
              /\ Owned(CA, call[c].acc, call[c].coin)'
              /\ call'[c].held <= Len(heap'[call'[c].obj].slots[TokenOf(call[c].coin)'].cells)
      <4> SUFFICES ASSUME pc[c] = "file"
                   PROVE  /\ Owned(CA, call[c].acc, call[c].coin)'
                          /\ call'[c].held <= Len(heap'[call'[c].obj].slots[TokenOf(call[c].coin)'].cells)
          BY <1>1
      <4>1. Owned(CA, acc, call[c].coin)
            /\ call[c].held <= Len(heap[call[c].obj].slots[TokenOf(call[c].coin)].cells)
            BY <3>1 DEF FileInv, Slot
      <4>2. Owned(CA, call[c].acc, call[c].coin)'
            BY <1>1, <1>5, <2>1, <4>1 DEF Owned
      <4> QED
          BY <1>1, <3>2, <4>1, <4>2
    <3> QED
        BY <3>4, <3>5 DEF FileInv, Slot
  <2>10. \A n : OfToken(call[c].tok, acc, n) => OfToken(call[c].tok, call[c].acc, n)'
        BY <1>1, <1>5, <2>1 DEF OfToken, Owned
  <2> QED
      BY <1>1, <2>1, <2>4, <2>5, <2>7, <2>8, <2>9, <2>10 DEF CallInv, Working
<1> QED
    BY <1>4, <1>10, <1>11, <1>12, <1>13 DEF IInv

\* The client begins without objects and files.
LEMMA InitIInv ==
    ASSUME Init
    PROVE  IInv
<1>1. PICK prvCoins \in [1..InitialLength -> NewCoins(PRV)],
           caCoins \in [1..InitialLength -> NewCoins(CA)] :
          chain = [l \in Lists |-> IF l = PRV THEN prvCoins ELSE caCoins]
      BY DEF Init
<1>2. /\ heap = <<>>
      /\ cachedData = [a \in Accounts |-> 0]
      /\ disk = [a \in Accounts |-> NoFile]
      /\ mtx = NoCaller
      /\ pc = [c \in Callers |-> "idle"]
      /\ call = [c \in Callers |-> Idle]
      /\ otaKey = [c \in Callers |-> TRUE]
      /\ outcome = [c \in Callers |-> "none"]
      /\ discarded = {} /\ crashes = 0 /\ storeFaults = 0
      BY DEF Init
<1>3. listed \subseteq Tokens
      BY CacheAssumption DEF Init
<1>4. /\ chain \in [Lists -> Seq([owner : Accounts, token : TokenIDs])]
      /\ \A l \in Lists : \A k \in DOMAIN chain[l] : chain[l][k] \in NewCoins(l)
  <2> DEFINE Coin == [owner : Accounts, token : TokenIDs]
  <2>1. NewCoins(PRV) \subseteq Coin /\ NewCoins(CA) \subseteq Coin
        BY DEF NewCoins, TokenIDs
  <2>2. CA # PRV
        BY DEF CA, PRV
  <2> HIDE DEF Coin
  <2>3. prvCoins \in Seq(Coin) /\ caCoins \in Seq(Coin)
    <3>1. prvCoins \in [1..InitialLength -> Coin] /\ caCoins \in [1..InitialLength -> Coin]
          BY <2>1
    <3>2. InitialLength \in Nat
          BY CacheAssumption
    <3> QED
        BY <3>1, <3>2
  <2>4. chain \in [Lists -> Seq(Coin)]
        BY <1>1, <2>3
  <2>5. \A l \in Lists : \A k \in DOMAIN chain[l] : chain[l][k] \in NewCoins(l)
    <3>1. /\ \A k \in DOMAIN prvCoins : prvCoins[k] \in NewCoins(PRV)
          /\ \A k \in DOMAIN caCoins : caCoins[k] \in NewCoins(CA)
          BY <1>1
    <3>2. chain[PRV] = prvCoins /\ chain[CA] = caCoins
          BY <1>1, <2>2 DEF Lists
    <3> QED
        BY <3>1, <3>2 DEF Lists
  <2> QED
      BY <2>4, <2>5 DEF Coin
<1>5. Idle \in CallType
  <2>1. PRV \in TokenIDs
        BY DEF TokenIDs
  <2> QED
      BY <2>1, Zenon DEF Idle, CallType
<1>6. /\ NoFile \in [state : {"absent", "damaged", "ok"}, caches : CachesType]
      /\ NoFile.caches = EmptyCaches /\ NoFile.state = "absent"
      BY EmptyCachesInv DEF NoFile
<1>7. heap \in Seq(Object) /\ Len(heap) = 0 /\ DOMAIN heap = {}
      BY <1>2
<1>8. /\ cachedData \in [Accounts -> 0..Len(heap)]
      /\ disk \in [Accounts -> [state : {"absent", "damaged", "ok"}, caches : CachesType]]
      /\ call \in [Callers -> CallType] /\ otaKey \in [Callers -> BOOLEAN]
      /\ pc \in [Callers -> Labels] /\ outcome \in [Callers -> Outcomes]
      BY <1>2, <1>5, <1>6, <1>7 DEF Labels, Outcomes
<1>9. TypeOK
      BY <1>2, <1>3, <1>4, <1>7, <1>8 DEF TypeOK, Labels, Outcomes, Object
<1>10. \A a \in Accounts : disk[a].caches = EmptyCaches /\ disk[a].state = "absent"
      BY <1>2, <1>6
<1>11. HeapInv /\ MapInv /\ DiskInv
      BY <1>2, <1>7, <1>10, EmptyCachesInv DEF HeapInv, MapInv, DiskInv
<1>12. \A c \in Callers : pc[c] = "idle" /\ outcome[c] = "none"
      BY <1>2
<1>13. \A c \in Callers : CallInv(c)
      BY <1>12 DEF CallInv, FetchInv, ApplyInv, FileInv, Working
<1>14. MutexInv
      BY <1>2, <1>10, <1>12, NamesAssumption DEF MutexInv
<1>15. DamageNeedsFault
      BY <1>12 DEF DamageNeedsFault
<1> QED
    BY <1>9, <1>11, <1>13, <1>14, <1>15 DEF IInv

\* IInv is an invariant of every step: it needs no fairness, and no bound on
\* the callers, the calls or the faults.
LEMMA SpecIInv == Spec => []IInv
<1>1. Init => IInv
      BY InitIInv
<1>2. IInv /\ [Next]_vars => IInv'
  <2> SUFFICES ASSUME IInv, [Next]_vars
               PROVE  IInv'
      OBVIOUS
  <2>1. CASE \E list \in Lists : AddCoin(list)
        BY <2>1, AddCoinStep
  <2>2. CASE (\E tok \in Tokens : ListToken(tok))
    <3>1. PICK tok \in Tokens : ListToken(tok)
          BY <2>2
    <3>2. /\ listed' = listed \cup {tok}
          /\ UNCHANGED <<chain, heap, cachedData, disk, mtx, pc, call, otaKey, outcome,
                         discarded, crashes, storeFaults>>
          BY <3>1 DEF ListToken, counters
    <3>3. TypeOK'
          BY <3>2 DEF IInv, TypeOK
    <3>4. HeapInv' /\ DiskInv' /\ MapInv' /\ MutexInv' /\ DamageNeedsFault'
      <4>1. HeapInv'
            BY <3>2 DEF IInv, HeapInv, SlotsInv, CacheInv, CellInv, HasBelow, Owned, OfToken
      <4>2. DiskInv'
            BY <3>2 DEF IInv, DiskInv, CacheInv, CellInv, HasBelow, Owned, OfToken
      <4>3. MapInv' /\ MutexInv' /\ DamageNeedsFault'
            BY <3>2 DEF IInv, MapInv, MutexInv, DamageNeedsFault
      <4> QED
          BY <4>1, <4>2, <4>3
    <3>5. \A c \in Callers : CallInv(c)'
          BY <3>2, <3>3, HeapSame, OtherCaller DEF IInv
    <3> QED
        BY <3>3, <3>4, <3>5 DEF IInv
  <2>3. CASE \E c \in Callers, acc \in Accounts, tok \in TokenIDs : Call(c, acc, tok)
        BY <2>3, CallStep
  <2>4. CASE \E c \in Callers : Step(c) \/ FaultyStep(c)
    <3>1. PICK c \in Callers : Step(c) \/ FaultyStep(c)
          BY <2>4
    <3> QED
        BY <3>1, ReturnSteps, QuerySteps, LoadFileStep, GetAccountStep, ReadEntryStep,
           ApplyStep, IndexCoinStep, FileCoinStep, AllFiledStep, StoreBeginStep, StoreEndStep, StoreFailsStep
        DEF Step, FaultyStep
  <2>5. CASE Crash
        BY <2>5, CrashStep
  <2>6. CASE UNCHANGED vars
    <3>1. TypeOK'
          BY <2>6 DEF vars, IInv, TypeOK
    <3>2. HeapInv' /\ DiskInv' /\ MapInv' /\ MutexInv' /\ DamageNeedsFault'
      <4>1. HeapInv'
            BY <2>6 DEF vars, IInv, HeapInv, SlotsInv, CacheInv, CellInv, HasBelow, Owned, OfToken
      <4>2. DiskInv'
            BY <2>6 DEF vars, IInv, DiskInv, CacheInv, CellInv, HasBelow, Owned, OfToken
      <4>3. MapInv' /\ MutexInv' /\ DamageNeedsFault'
            BY <2>6 DEF vars, IInv, MapInv, MutexInv, DamageNeedsFault
      <4> QED
          BY <4>1, <4>2, <4>3
    <3>3. \A c \in Callers : CallInv(c)'
          BY <2>6, <3>1, HeapSame, OtherCaller DEF vars, IInv
    <3> QED
        BY <3>1, <3>2, <3>3 DEF IInv
  <2> QED
      BY <2>1, <2>2, <2>3, <2>4, <2>5, <2>6 DEF Next, Finished
<1> QED
    BY <1>1, <1>2, PTL DEF Spec

\* Every variable keeps its type; in particular a pointer in cachedData is nil
\* or points to an object.
THEOREM TypeCorrect == Spec => []TypeOK
<1>1. IInv => TypeOK
      BY DEF IInv
<1> QED
    BY <1>1, SpecIInv, PTL

\* No interleaving of unlocked updates, evictions, re-loads, failures and
\* crashes, of any number of callers, makes an object in memory or a file
\* claim coins it does not hold, unless it is of an account of which an update
\* has thrown away the tokenCache another caller had put into the map.
THEOREM NeverSkips == Spec => []NoCoinSkipped
<1>1. IInv => NoCoinSkipped
  <2> SUFFICES ASSUME IInv PROVE NoCoinSkipped
      OBVIOUS
  <2>1. ASSUME NEW acc, acc \notin discarded, NEW caches \in CachesType, CacheInv(acc, caches)
        PROVE  CompleteUpToLatest(acc, caches)
    <3> SUFFICES ASSUME NEW l \in Lists, caches[l].present
                 PROVE  /\ caches[l].latest < Len(chain[l])
                        /\ Coins(l, acc, 0, caches[l].latest) \subseteq caches[l].coins
        BY DEF CompleteUpToLatest
    <3>1. caches[l] # NoCache
          BY DEF NoCache
    <3>2. l \in Keys /\ caches[l].latest \in Nat
          BY DEF Keys, CachesType, CacheType
    <3>3. CellInv(acc, l, caches[l])
          BY <2>1, <3>1, <3>2 DEF CacheInv
    <3>4. (caches[l].latest + 1) - 1 = caches[l].latest
          BY <3>2
    <3> QED
        BY <2>1, <3>3, <3>4 DEF CellInv, HasBelow, Coins
  <2>2. \A o \in DOMAIN heap :
            CachesOf(heap[o]) \in CachesType /\ CacheInv(heap[o].acc, CachesOf(heap[o]))
        BY ObjectFacts, CachesFacts DEF IInv, HeapInv
  <2>3. \A a \in Accounts : disk[a].caches \in CachesType /\ CacheInv(a, disk[a].caches)
        BY DEF IInv, DiskInv, TypeOK
  <2> QED
      BY <2>1, <2>2, <2>3 DEF NoCoinSkipped
<1> QED
    BY <1>1, SpecIInv, PTL

\* A call that succeeds returns coins on the chain that belong to the account
\* and are of the token asked for, whatever other callers did meanwhile.
THEOREM ResultsAreSound == Spec => []ResultSound
<1>1. IInv => ResultSound
  <2> SUFFICES ASSUME IInv, NEW c \in Callers, outcome[c] = "ok",
                      NEW n \in call[c].result
               PROVE  n \in CoinsOfToken(call[c].tok, call[c].acc, 0,
                                Len(chain[ListOf(call[c].tok)]) - 1)
      BY DEF ResultSound
  <2> DEFINE l == ListOf(call[c].tok)
  <2>1. OfToken(call[c].tok, call[c].acc, n)
        BY DEF IInv, CallInv
  <2>2. Len(chain[l]) \in Nat
        BY LenProperties DEF IInv, TypeOK, ListOf, Lists
  <2>3. n \in 0..(Len(chain[l]) - 1)
        BY <2>1, <2>2 DEF OfToken, Owned
  <2> QED
      BY <2>1, <2>3 DEF OfToken, Owned, CoinsOfToken, Coins
<1> QED
    BY <1>1, SpecIInv, PTL

\* load meets a half-written file only after a crash or a failed store: the
\* unlocked ReadDir and test cannot make it see a file that is being written.
THEOREM DamageIsFromFaults == Spec => []DamageNeedsFault
<1>1. IInv => DamageNeedsFault
      BY DEF IInv
<1> QED
    BY <1>1, SpecIInv, PTL

-----------------------------------------------------------------------------
(***************************************************************************)
(* What the UTXO cache guarantees to a client that one goroutine at a time *)
(* uses: calls miss no coin, and find what they have stored.  Two callers  *)
(* do not get this (the run cache_cold_race).                              *)
(***************************************************************************)

\* Every coin in the list of confidential assets is also filed under its
\* token, those still pending aside.
Filed(caches, pending) ==
    \A n \in caches[CA].coins : \A t \in Tokens :
        chain[CA][n + 1].token = t => n \in pending \/ n \in caches[t].coins

Pending(c, o) ==
    IF pc[c] \in {"index", "file"} /\ o = call[c].obj
    THEN call[c].fresh \cup {n \in {call[c].coin} : pc[c] = "file"} ELSE {}

FiledInv(c) ==
    /\ listed = Tokens
    /\ \A a \in Accounts : Filed(disk[a].caches, {})
    /\ \A o \in DOMAIN heap : Filed(CachesOf(heap[o]), Pending(c, o))

\* The object the caller has brought up to date is the one in the map, if any.
TargetInv(c) ==
    pc[c] \in Working \cup {"readBack"} =>
        /\ call[c].obj \in DOMAIN heap
        /\ cachedData[call[c].acc] # 0 => cachedData[call[c].acc] = call[c].obj

\* Nobody has replaced an entry since a lone caller has read it.
EntryInv(c) ==
    /\ discarded = {}
    /\ pc[c] = "apply" => call[c].held = Slot(c, ListOf(call[c].tok)).cur
    /\ pc[c] = "file" => call[c].held = Slot(c, TokenOf(call[c].coin)).cur

\* What a lone caller has done so far is complete.
SoloInv(c) ==
    LET l == ListOf(call[c].tok)
        tok == call[c].tok
    IN  /\ FiledInv(c) /\ TargetInv(c) /\ EntryInv(c)
        /\ pc[c] # "idle" => outcome[c] = "none"
        /\ pc[c] \in {"update", "apply"} =>
              l # CA \/ call[c].tags = Tokens \/ call[c].data = {}
        /\ pc[c] \in {"index", "file"} =>
              l = CA /\ (call[c].tags = Tokens \/ call[c].fresh = {})
        /\ pc[c] \in {"index", "file", "store", "write", "readBack"} =>
              /\ call[c].length <= Len(chain[l])
              /\ \A n \in 0..(call[c].length - 1) : chain[l][n + 1].owner = call[c].acc =>
                    n \in Cached(Slot(c, l)).coins
        /\ pc[c] = "v1" \/ outcome[c] = "ok" =>
              /\ call[c].length <= Len(chain[l])
              /\ \A n \in 0..(call[c].length - 1) :
                    OfToken(tok, call[c].acc, n) => n \in call[c].result

\* Unless something fails, a lone caller finds what it has stored.
CachedInv(c) ==
    LET mapped == cachedData[call[c].acc]
    IN  /\ faults \in Nat
        /\ \A l \in Lists : InitialLength <= Len(chain[l])
        /\ pc[c] \in {"getAccount", "fetch"} => call[c].length >= InitialLength
        /\ pc[c] = "fetch" /\ call[c].from > 0 => mapped = call[c].obj
        /\ pc[c] = "write" => mapped = call[c].obj
        /\ faults = 0 /\ pc[c] = "readBack" => mapped # 0
        /\ faults = 0 => outcome[c] # "notCached"

-----------------------------------------------------------------------------
(* Coins under their tokens.                                               *)

\* Between two filings, nothing is pending.
LEMMA FiledSame ==
    ASSUME NEW c \in Callers, FiledInv(c), UNCHANGED <<chain, listed, heap, disk>>,
           pc[c] \notin {"index", "file"}, pc'[c] \notin {"index", "file"}
    PROVE  FiledInv(c)'
BY DEF FiledInv, Filed, Pending

\* A new object with filed coins.
LEMMA FiledAppend ==
    ASSUME IInv, NEW c \in Callers, FiledInv(c), UNCHANGED <<chain, listed, disk, discarded>>,
           NEW acc \in Accounts, NEW slots \in [Keys -> SlotType], SlotsInv(acc, slots),
           heap' = Append(heap, [acc |-> acc, slots |-> slots]),
           NEW caches, \A k \in Keys : caches[k] = Cached(slots[k]), Filed(caches, {}),
           pc[c] \notin {"index", "file"}, pc'[c] \notin {"index", "file"}
    PROVE  FiledInv(c)'
<1>1. /\ heap' \in Seq(Object)
      /\ Len(heap') = Len(heap) + 1
      /\ heap'[Len(heap) + 1] = [acc |-> acc, slots |-> slots]
      /\ \A o \in DOMAIN heap : heap'[o] = heap[o]
      BY NewObject
<1>2. heap \in Seq(Object)
      BY DEF IInv, TypeOK, Object
<1>3. /\ DOMAIN heap = 1..Len(heap) /\ DOMAIN heap' = 1..(Len(heap) + 1)
      /\ Len(heap) \in Nat
      BY <1>1, <1>2, LenProperties
<1>4. \A o \in DOMAIN heap' : Filed(CachesOf(heap'[o]), {})
  <2> SUFFICES ASSUME NEW o \in DOMAIN heap'
               PROVE  Filed(CachesOf(heap'[o]), {})
      OBVIOUS
  <2>1. CASE o = Len(heap) + 1
    <3>1. heap'[o].slots = slots
          BY <1>1, <2>1
    <3>2. \A k \in Keys : CachesOf(heap'[o])[k] = caches[k]
          BY <3>1 DEF CachesOf
    <3>3. CA \in Keys /\ \A t \in Tokens : t \in Keys
          BY DEF Keys, Lists
    <3> QED
        BY <3>2, <3>3 DEF Filed
  <2>2. CASE o \in DOMAIN heap
        BY <1>1, <2>2 DEF FiledInv, Pending
  <2> QED
      BY <1>3, <2>1, <2>2
<1>5. \A o : Pending(c, o)' = {}
      BY DEF Pending
<1> QED
    BY <1>4, <1>5 DEF FiledInv, Filed

\* The steps of a call before it has an object, and after it has returned.
LEMMA EarlyStep ==
    ASSUME NEW c \in Callers, FiledInv(c)',
           pc'[c] \notin Working \cup {"readBack", "v1"}, outcome'[c] # "ok",
           pc'[c] # "idle" => outcome'[c] = "none", discarded' = {}
    PROVE  SoloInv(c)'
BY DEF SoloInv, TargetInv, EntryInv, Working

-----------------------------------------------------------------------------
(* The steps.                                                              *)

\* A lone call begins.
LEMMA SoloCallStep ==
    ASSUME IInv, NEW c \in Callers, SoloInv(c), NEW acc, NEW tok, Call(c, acc, tok)
    PROVE  SoloInv(c)'
<1>1. /\ pc[c] = "idle"
      /\ pc' = [pc EXCEPT ![c] = "check"]
      /\ outcome' = [outcome EXCEPT ![c] = "none"]
      /\ UNCHANGED <<chain, listed, heap, disk, discarded>>
      BY DEF Call, Goto, node
<1>2. pc'[c] = "check" /\ outcome'[c] = "none"
      BY <1>1 DEF IInv, TypeOK
<1>3. FiledInv(c)'
      BY <1>1, <1>2, FiledSame DEF SoloInv
<1> QED
    BY <1>1, <1>2, <1>3, EarlyStep DEF Working, SoloInv, EntryInv

\* A call that ends early has no result to be complete.
LEMMA SoloReturnSteps ==
    ASSUME IInv, NEW c \in Callers, SoloInv(c),
           \/ LoadRefused(c) \/ LoadFails(c) \/ RpcFails(c)
           \/ NotCached(c) \/ QueryV1Fails(c)
    PROVE  SoloInv(c)'
<1>1. /\ pc[c] \notin {"index", "file"}
      /\ \E how \in Outcomes \ {"ok"} : Return(c, how, {})
      /\ UNCHANGED <<chain, listed, heap, disk, discarded>>
      BY DEF LoadRefused, LoadFails, RpcFails, NotCached, QueryV1Fails, node, Outcomes
<1>2. PICK how \in Outcomes \ {"ok"} : Return(c, how, {})
      BY <1>1
<1>3. pc' = [pc EXCEPT ![c] = "idle"] /\ outcome' = [outcome EXCEPT ![c] = how]
      BY <1>2 DEF Return
<1>4. pc'[c] = "idle" /\ outcome'[c] = how
      BY <1>3 DEF IInv, TypeOK
<1>5. FiledInv(c)'
      BY <1>1, <1>4, FiledSame DEF SoloInv
<1> QED
    BY <1>1, <1>2, <1>4, <1>5, EarlyStep DEF Working, SoloInv, EntryInv

\* A lone call returns with its result.
LEMMA SoloQueryV1Step ==
    ASSUME IInv, NEW c \in Callers, SoloInv(c), QueryV1(c)
    PROVE  SoloInv(c)'
<1> DEFINE new == [call[c] EXCEPT !.inDir = FALSE, !.from = 0, !.obj = 0,
                      !.data = {}, !.tags = {}, !.held = 0, !.fresh = {}, !.alias = 0,
                      !.coin = 0, !.result = call[c].result]
<1>1. /\ pc[c] = "v1"
      /\ pc' = [pc EXCEPT ![c] = "idle"]
      /\ outcome' = [outcome EXCEPT ![c] = "ok"]
      /\ call' = [call EXCEPT ![c] = new]
      /\ UNCHANGED <<chain, listed, heap, disk, discarded>>
      BY DEF QueryV1, Return, node
<1>2. call[c] \in CallType
      BY DEF IInv, TypeOK
<1>3. /\ new.acc = call[c].acc /\ new.tok = call[c].tok
      /\ new.result = call[c].result /\ new.length = call[c].length
      BY <1>2 DEF CallType
<1> HIDE DEF new
<1>4. pc'[c] = "idle" /\ call'[c] = new
      BY <1>1 DEF IInv, TypeOK
<1>5. FiledInv(c)'
      BY <1>1, <1>4, FiledSame DEF SoloInv
<1> QED
    BY <1>1, <1>3, <1>4, <1>5 DEF SoloInv, TargetInv, EntryInv, Working, OfToken, Owned

\* What is loaded is complete.
LEMMA SoloLoadSteps ==
    ASSUME IInv, NEW c \in Callers, SoloInv(c),
           LoadCheck(c) \/ ReadDir(c) \/ LoadFile(c) \/ GetLength(c)
    PROVE  SoloInv(c)'
<1>1. outcome' = outcome /\ outcome[c] = "none"
      BY DEF LoadCheck, ReadDir, LoadFile, GetLength, SoloInv
<1>2. /\ pc[c] \in {"check", "readDir", "load", "length"}
      /\ pc'[c] \in {"readDir", "load", "length", "getAccount"}
      /\ UNCHANGED <<chain, listed, disk, discarded>>
      BY DEF LoadCheck, ReadDir, LoadFile, GetLength, Goto, node, IInv, TypeOK
<1>3. FiledInv(c)'
  <2> DEFINE acc == call[c].acc
  <2>1. CASE heap' = heap
        BY <1>2, <2>1, FiledSame DEF SoloInv
  <2>2. CASE LoadFile(c) /\ call[c].inDir
    <3>1. heap' = Append(heap, [acc |-> acc, slots |-> Unmarshal(disk[acc].caches)])
          BY <2>2 DEF LoadFile
    <3>2. acc \in Accounts
          BY <1>2 DEF IInv, CallInv
    <3>3. disk[acc].caches \in CachesType /\ CacheInv(acc, disk[acc].caches)
          BY <3>2 DEF TypeOK, IInv, DiskInv
    <3>4. Filed(disk[acc].caches, {}) /\ FiledInv(c)
          BY <3>2 DEF SoloInv, FiledInv
    <3> DEFINE caches == disk[acc].caches
               slots == Unmarshal(caches)
    <3>5. slots \in [Keys -> SlotType] /\ SlotsInv(acc, slots)
          BY <3>3, UnmarshalFacts
    <3>6. \A k \in Keys : caches[k] = Cached(slots[k])
      <4>1. \A k \in Keys : caches[k].present \/ caches[k] = NoCache
            BY <3>3 DEF CacheInv, CellInv
      <4> QED
          BY <3>3, <4>1, UnmarshalFacts
    <3> HIDE DEF acc, caches, slots
    <3>7. heap' = Append(heap, [acc |-> acc, slots |-> slots]) /\ Filed(caches, {})
          BY <3>1, <3>4 DEF caches, slots
    <3> QED
        BY <1>2, <3>2, <3>4, <3>5, <3>6, <3>7, FiledAppend
  <2> QED
      BY <2>1, <2>2 DEF LoadCheck, ReadDir, LoadFile, GetLength
<1> QED
    BY <1>1, <1>2, <1>3, EarlyStep DEF Working, SoloInv, EntryInv

\* The object of a lone caller is the one in the map.
LEMMA SoloGetAccountStep ==
    ASSUME IInv, NEW c \in Callers, SoloInv(c), GetAccount(c)
    PROVE  SoloInv(c)'
<1> DEFINE acc == call[c].acc
           l == ListOf(call[c].tok)
<1>1. /\ pc[c] = "getAccount"
      /\ pc' = [pc EXCEPT ![c] = "fetch"]
      /\ UNCHANGED <<chain, listed, cachedData, disk, outcome, discarded>>
      BY DEF GetAccount, Goto, node
<1>2. /\ acc \in Accounts /\ TypeOK /\ call[c] \in CallType
      /\ outcome[c] = "none" /\ FiledInv(c)
      /\ heap \in Seq(Object) /\ Len(heap) \in Nat
      BY <1>1, LenProperties DEF IInv, CallInv, TypeOK, SoloInv, Object
<1>3. pc'[c] = "fetch"
      BY <1>1, <1>2 DEF TypeOK
<1>4. ASSUME NEW o, NEW from,
             call' = [call EXCEPT ![c] = [call[c] EXCEPT !.obj = o, !.from = from]]
      PROVE  call'[c].obj = o /\ call'[c].acc = acc
  <2> DEFINE new == [call[c] EXCEPT !.obj = o, !.from = from]
  <2>1. new.obj = o /\ new.acc = acc
        BY <1>2 DEF CallType
  <2> HIDE DEF new
  <2>2. call' = [call EXCEPT ![c] = new]
        BY <1>4 DEF new
  <2>3. call'[c] = new
        BY <1>2, <2>2 DEF TypeOK
  <2> QED
      BY <2>1, <2>3
<1>5. FiledInv(c)' /\ TargetInv(c)'
  <2>1. CASE cachedData[acc] # 0
    <3>1. heap' = heap
          /\ call' = [call EXCEPT ![c] = [call[c] EXCEPT !.obj = cachedData[acc],
                         !.from = CurrentIndex(Cached(heap[cachedData[acc]].slots[l]))]]
          BY <2>1 DEF GetAccount
    <3>2. call'[c].obj = cachedData[acc] /\ call'[c].acc = acc
          BY <1>4, <3>1
    <3>3. cachedData[acc] \in DOMAIN heap
          BY <1>2, <2>1, LenProperties DEF TypeOK
    <3>4. FiledInv(c)'
          BY <1>1, <1>2, <1>3, <3>1, FiledSame
    <3> QED
        BY <1>1, <3>1, <3>2, <3>3, <3>4 DEF TargetInv
  <2>2. CASE cachedData[acc] = 0
    <3>1. /\ heap' = Append(heap, [acc |-> acc, slots |-> NoSlots])
          /\ call' = [call EXCEPT ![c] = [call[c] EXCEPT !.obj = Len(heap) + 1,
                         !.from = CurrentIndex(NoCache)]]
          BY <2>2 DEF GetAccount
    <3>2. call'[c].obj = Len(heap) + 1 /\ call'[c].acc = acc
          BY <1>4, <3>1
    <3>3. heap' \in Seq(Object) /\ Len(heap') = Len(heap) + 1
          BY <1>1, <1>2, <3>1, NoSlotsInv, NewObject
    <3>4. Len(heap) + 1 \in DOMAIN heap'
          BY <1>2, <3>3, LenProperties
    <3>5. Filed(EmptyCaches, {})
          BY DEF Filed, EmptyCaches, NoCache, Keys, Lists
    <3>6. \A k \in Keys : EmptyCaches[k] = Cached(NoSlots[k])
          BY DEF EmptyCaches, NoSlots, NoSlot, Cached
    <3>7. FiledInv(c)'
          BY <1>1, <1>2, <1>3, <3>1, <3>5, <3>6, NoSlotsInv, FiledAppend
    <3> QED
        BY <1>1, <2>2, <3>2, <3>4, <3>7 DEF TargetInv
  <2> QED
      BY <2>1, <2>2
<1> QED
    BY <1>1, <1>2, <1>3, <1>5 DEF SoloInv, EntryInv

\* Nothing to fetch: the object has the coins already.
LEMMA SoloUpToDateStep ==
    ASSUME IInv, NEW c \in Callers, SoloInv(c), UpToDate(c)
    PROVE  SoloInv(c)'
<1> DEFINE l == ListOf(call[c].tok)
<1>1. /\ pc[c] = "fetch" /\ call[c].from >= call[c].length
      /\ pc' = [pc EXCEPT ![c] = "readBack"]
      /\ UNCHANGED <<chain, listed, heap, cachedData, disk, call, outcome, discarded>>
      BY DEF UpToDate, Goto, node
<1>2. call[c] \in CallType /\ CallInv(c)
      BY DEF IInv, TypeOK
<1>3. call[c].from \in Nat /\ call[c].length \in Nat
      BY <1>2 DEF CallType
<1>4. pc'[c] = "readBack"
      BY <1>1 DEF IInv, TypeOK
<1>5. FiledInv(c)'
      BY <1>1, <1>4, FiledSame DEF SoloInv
<1>6. /\ call[c].length <= Len(chain[l])
      /\ \A n \in 0..(call[c].from - 1) : chain[l][n + 1].owner = call[c].acc =>
            n \in Cached(Slot(c, l)).coins
  <2>1. FetchInv(c) /\ call[c].acc \notin discarded
        BY <1>2 DEF CallInv, SoloInv, EntryInv
  <2> QED
      BY <1>1, <1>2, <2>1 DEF CallInv, FetchInv, HasBelow, Working
<1>7. \A n \in 0..(call[c].length - 1) : n \in 0..(call[c].from - 1)
      BY <1>1, <1>3
<1>8. TargetInv(c)'
      BY <1>1 DEF SoloInv, TargetInv, Working
<1> QED
    BY <1>1, <1>4, <1>5, <1>6, <1>7, <1>8 DEF SoloInv, EntryInv, Slot

\* The fetch brings what the object lacks.
LEMMA SoloFetchStep ==
    ASSUME IInv, NEW c \in Callers, SoloInv(c), Fetch(c)
    PROVE  SoloInv(c)'
<1> DEFINE l == ListOf(call[c].tok)
           data == GetCoinsByIndices(l, call[c].acc, call[c].from, call[c].length - 1)
           tags == IF l = CA /\ data # {} THEN listed ELSE {}
           new == [call[c] EXCEPT !.data = data, !.tags = tags]
<1>1. /\ pc[c] = "fetch"
      /\ pc' = [pc EXCEPT ![c] = "update"]
      /\ call' = [call EXCEPT ![c] = new]
      /\ UNCHANGED <<chain, listed, heap, cachedData, disk, outcome, discarded>>
      BY DEF Fetch, Goto, node
<1>2. call[c] \in CallType
      BY DEF IInv, TypeOK
<1>3. l # CA \/ tags = Tokens \/ data = {}
      BY DEF SoloInv, FiledInv
<1> HIDE DEF data, tags
<1>4. /\ new.acc = call[c].acc /\ new.tok = call[c].tok /\ new.obj = call[c].obj
      /\ new.data = data /\ new.tags = tags
      BY <1>2 DEF CallType
<1> HIDE DEF new
<1>5. pc'[c] = "update" /\ call'[c] = new
      BY <1>1 DEF IInv, TypeOK
<1>6. FiledInv(c)'
      BY <1>1, <1>5, FiledSame DEF SoloInv
<1>7. TargetInv(c)'
      BY <1>1, <1>4, <1>5 DEF SoloInv, TargetInv, Working
<1> QED
    BY <1>1, <1>3, <1>4, <1>5, <1>6, <1>7 DEF SoloInv, EntryInv

\* The objects after a tokenCache has been put into an entry.
LEMMA PutHeapFacts ==
    ASSUME TypeOK, NEW o \in DOMAIN heap, NEW k \in Keys, NEW held, NEW cell,
           heap' = PutHeap(o, k, held, cell)
    PROVE  /\ DOMAIN heap' = DOMAIN heap
           /\ \A p \in DOMAIN heap \ {o} : heap'[p] = heap[p]
           /\ heap'[o].slots[k] = PutCell(heap[o].slots[k], held, cell)
           /\ \A j \in Keys \ {k} : heap'[o].slots[j] = heap[o].slots[j]
<1> DEFINE put == PutCell(heap[o].slots[k], held, cell)
           slots == [heap[o].slots EXCEPT ![k] = put]
           new == [acc |-> heap[o].acc, slots |-> slots]
<1>1. heap[o] \in Object /\ heap[o].slots \in [Keys -> SlotType]
      BY ObjectFacts DEF Object
<1>2. heap' = [heap EXCEPT ![o].slots = slots]
      BY DEF PutHeap
<1> HIDE DEF put
<1>3. slots[k] = put /\ \A j \in Keys \ {k} : slots[j] = heap[o].slots[j]
      BY <1>1
<1> HIDE DEF slots
<1>4. [heap[o] EXCEPT !.slots = slots] = new /\ new.slots = slots
      BY <1>1 DEF Object
<1>5. heap' = [heap EXCEPT ![o] = [heap[o] EXCEPT !.slots = slots]]
      BY <1>2
<1> HIDE DEF new
<1>6. heap' = [heap EXCEPT ![o] = new]
      BY <1>4, <1>5, Zenon
<1>7. /\ DOMAIN heap' = DOMAIN heap /\ heap'[o] = new
      /\ \A p \in DOMAIN heap \ {o} : heap'[p] = heap[p]
      BY <1>6, Zenon
<1> QED
    BY <1>3, <1>4, <1>7 DEF put

\* Only the caller's object changes.
LEMMA FiledChanged ==
    ASSUME NEW c \in Callers, FiledInv(c), UNCHANGED <<chain, listed, disk>>,
           NEW o \in DOMAIN heap, call[c].obj = o, call'[c].obj = o,
           DOMAIN heap' = DOMAIN heap, \A p \in DOMAIN heap \ {o} : heap'[p] = heap[p],
           NEW pending, Pending(c, o)' = pending, Filed(CachesOf(heap'[o]), pending)
    PROVE  FiledInv(c)'
<1>1. \A p \in DOMAIN heap \ {o} : Filed(CachesOf(heap[p]), {})
      BY DEF FiledInv, Pending
<1>2. \A p : p # o => Pending(c, p)' = {}
      BY DEF Pending
<1>3. ASSUME NEW p \in DOMAIN heap' PROVE Filed(CachesOf(heap'[p]), Pending(c, p)')
  <2>1. CASE p = o
        BY <2>1
  <2>2. CASE p # o
        BY <1>1, <1>2, <2>2
  <2> QED
      BY <2>1, <2>2
<1>4. \A a \in Accounts : Filed(disk'[a].caches, {})
      BY DEF FiledInv
<1> QED
    BY <1>3, <1>4 DEF FiledInv, Filed

\* A lone caller reads the entry of the list.
LEMMA SoloReadEntryStep ==
    ASSUME IInv, NEW c \in Callers, SoloInv(c), ReadEntry(c)
    PROVE  SoloInv(c)'
<1> DEFINE cur == Slot(c, ListOf(call[c].tok)).cur
           new == [call[c] EXCEPT !.held = cur]
<1>1. /\ pc[c] = "update"
      /\ pc' = [pc EXCEPT ![c] = "apply"]
      /\ call' = [call EXCEPT ![c] = new]
      /\ UNCHANGED <<chain, listed, heap, cachedData, disk, outcome, discarded>>
      BY DEF ReadEntry, Goto, node, Slot
<1>2. call[c] \in CallType
      BY DEF IInv, TypeOK
<1> HIDE DEF cur
<1>3. /\ new.acc = call[c].acc /\ new.tok = call[c].tok /\ new.obj = call[c].obj
      /\ new.data = call[c].data /\ new.tags = call[c].tags /\ new.held = cur
      BY <1>2 DEF CallType
<1> HIDE DEF new
<1>4. pc'[c] = "apply" /\ call'[c] = new
      BY <1>1 DEF IInv, TypeOK
<1>5. FiledInv(c)'
      BY <1>1, <1>4, FiledSame DEF SoloInv
<1>6. TargetInv(c)'
      BY <1>1, <1>3, <1>4 DEF SoloInv, TargetInv, Working
<1>7. EntryInv(c)'
      BY <1>1, <1>3, <1>4 DEF SoloInv, EntryInv, Slot, cur
<1> QED
    BY <1>1, <1>3, <1>4, <1>5, <1>6, <1>7 DEF SoloInv

\* Afterwards the list has every coin below the length; new coins of
\* confidential assets are pending.  Nothing is discarded.
LEMMA SoloApplyStep ==
    ASSUME IInv, NEW c \in Callers, SoloInv(c), Apply(c)
    PROVE  SoloInv(c)'
<1> DEFINE acc == call[c].acc
           o == call[c].obj
           l == ListOf(call[c].tok)
           slot == heap[o].slots[l]
           held == call[c].held
           old == IF held = 0 THEN {} ELSE slot.cells[held].coins
           cell == [present |-> TRUE, latest |-> call[c].length - 1,
                    coins |-> old \cup call[c].data]
           put == PutCell(slot, held, cell)
           fresh == call[c].data \ old
           indexed == [call[c] EXCEPT !.fresh = fresh,
                          !.alias = IF held = 0 THEN put.cur ELSE 0]
           new == IF l = CA THEN indexed ELSE Updated(c)
           label == IF l = CA THEN "index" ELSE "store"
           caches == CachesOf(heap[o])
<1>1. /\ pc[c] = "apply"
      /\ UNCHANGED <<chain, listed, cachedData, disk, outcome>>
      BY DEF Apply, node
<1>2. /\ heap' = PutHeap(o, l, held, cell)
      /\ discarded' = IF Cached(slot).coins \subseteq Cached(put).coins
                      THEN discarded ELSE discarded \cup {acc}
      BY DEF Apply, LatestIndex, PutHeap
<1>3. call' = [call EXCEPT ![c] = new] /\ pc' = [pc EXCEPT ![c] = label]
      BY DEF Apply, LatestIndex, Goto
<1>4. /\ TypeOK /\ CallInv(c) /\ call[c] \in CallType
      /\ l \in Lists /\ l \in Keys /\ o \in DOMAIN heap
      /\ held = slot.cur /\ acc \notin discarded /\ discarded = {} /\ outcome[c] = "none"
      /\ l # CA \/ call[c].tags = Tokens \/ call[c].data = {}
      BY <1>1
      DEF IInv, TypeOK, CallInv, Working, ListOf, Lists, Keys, SoloInv, EntryInv, Slot
<1>5. /\ slot \in SlotType /\ slot.cur \in 0..Len(slot.cells)
      /\ Cached(slot).coins = old
  <2>1. slot \in SlotType
        BY <1>4, ObjectFacts
  <2>2. /\ slot.cur \in 0..Len(slot.cells)
        /\ slot.cur = 0 => Cached(slot) = NoCache
        /\ slot.cur # 0 => Cached(slot) = slot.cells[slot.cur]
        BY <2>1, SlotFacts
  <2>3. NoCache.coins = {}
        BY DEF NoCache
  <2> HIDE DEF slot, held
  <2>4. held = slot.cur
        BY <1>4
  <2> QED
      BY <2>1, <2>2, <2>3, <2>4
<1>6. /\ call[c].length \in Nat /\ call[c].from \in Nat /\ call[c].data \in SUBSET Nat
      /\ call[c].length >= 1 /\ call[c].length <= Len(chain[l])
      /\ call[c].data = GetCoinsByIndices(l, acc, call[c].from, call[c].length - 1)
  <2>1. call[c].length \in Nat /\ call[c].from \in Nat /\ call[c].data \in SUBSET Nat
        BY <1>4 DEF CallType
  <2> QED
      BY <1>1, <1>4, <2>1 DEF CallInv, Working
<1>7. \A n \in 0..(call[c].from - 1) : chain[l][n + 1].owner = acc => n \in old
  <2>1. /\ held = 0 => call[c].from = 0
        /\ held # 0 => HasBelow(l, acc, call[c].from, slot.cells[held].coins)
        BY <1>1, <1>4 DEF CallInv, ApplyInv, Slot
  <2>2. CASE held = 0
        BY <2>1, <2>2
  <2>3. CASE held # 0
        BY <1>4, <2>1, <2>3 DEF HasBelow
  <2> QED
      BY <2>2, <2>3
<1>8. cell \in CacheType /\ cell.coins = old \cup call[c].data
  <2>1. old \in SUBSET Nat
        BY <1>5, SlotFacts DEF CacheType
  <2> HIDE DEF old
  <2>2. call[c].length - 1 \in Nat
        BY <1>6
  <2>3. old \cup call[c].data \in SUBSET Nat
        BY <1>6, <2>1, Zenon
  <2> QED
      BY <2>2, <2>3, Zenon DEF CacheType
<1> HIDE DEF cell, old
<1>9. Cached(put) = cell
      BY <1>4, <1>5, <1>8, PutFacts
<1>10. discarded' = {}
      BY <1>2, <1>4, <1>5, <1>8, <1>9
<1>11. /\ DOMAIN heap' = DOMAIN heap
       /\ \A p \in DOMAIN heap \ {o} : heap'[p] = heap[p]
       /\ heap'[o].slots[l] = put
       /\ \A j \in Keys \ {l} : heap'[o].slots[j] = heap[o].slots[j]
  <2> HIDE DEF o, l, held
  <2> QED
      BY <1>2, <1>4, PutHeapFacts
<1> HIDE DEF put, slot, fresh
<1>12. \A n \in 0..(call[c].length - 1) : chain[l][n + 1].owner = acc => n \in cell.coins
  <2>1. \A n \in 0..(call[c].length - 1) :
            n \in 0..(call[c].from - 1) \/ n \in call[c].from..(call[c].length - 1)
        BY <1>6
  <2> QED
      BY <1>6, <1>7, <1>8, <2>1 DEF GetCoinsByIndices
<1>13. /\ new.acc = acc /\ new.tok = call[c].tok /\ new.obj = o
       /\ new.length = call[c].length
       /\ l = CA => new.fresh = fresh /\ new.tags = call[c].tags
  <2>1. CASE l = CA
    <3>1. /\ indexed.acc = acc /\ indexed.tok = call[c].tok /\ indexed.obj = o
          /\ indexed.length = call[c].length
          /\ indexed.fresh = fresh /\ indexed.tags = call[c].tags
          BY <1>4 DEF CallType
    <3> HIDE DEF indexed
    <3> QED
        BY <2>1, <3>1
  <2>2. CASE l # CA
        BY <1>4, <2>2, UpdatedFacts
  <2> QED
      BY <2>1, <2>2
<1> HIDE DEF new
<1>14. call'[c] = new /\ pc'[c] = label
      BY <1>3, <1>4 DEF TypeOK
<1>15. /\ call'[c].acc = acc /\ call'[c].tok = call[c].tok /\ call'[c].obj = o
       /\ call'[c].length = call[c].length
       /\ l = CA => call'[c].fresh = fresh /\ call'[c].tags = call[c].tags
      BY <1>13, <1>14
<1>17. Filed(CachesOf(heap'[o]), IF l = CA THEN fresh ELSE {})
  <2> DEFINE after == CachesOf(heap'[o])
  <2>1. /\ CA \in Keys /\ (\A t \in Tokens : t \in Keys \ {l})
        /\ \A k \in Keys : caches[k] = Cached(heap[o].slots[k])
        /\ \A k \in Keys : after[k] = Cached(heap'[o].slots[k])
        BY <1>4, NamesAssumption DEF Keys, Lists, CachesOf
  <2>2. Filed(caches, {})
        BY <1>1, <1>4 DEF SoloInv, FiledInv, Pending
  <2>3. \A k \in Keys \ {l} : after[k] = caches[k]
        BY <1>11, <2>1
  <2>4. after[l] = cell /\ caches[l].coins = old
        BY <1>4, <1>5, <1>9, <1>11, <2>1 DEF slot
  <2> HIDE DEF after, caches
  <2>5. \A n \in after[CA].coins : n \in caches[CA].coins \/ (l = CA /\ n \in fresh)
    <3>1. CASE l = CA
          BY <1>8, <2>4, <3>1 DEF fresh
    <3>2. CASE l # CA
          BY <2>1, <2>3, <3>2
    <3> QED
        BY <3>1, <3>2
  <2>6. \A t \in Tokens : after[t] = caches[t]
        BY <2>1, <2>3
  <2>7. Filed(after, IF l = CA THEN fresh ELSE {})
        BY <2>2, <2>5, <2>6 DEF Filed
  <2> QED
      BY <2>7 DEF after
<1>18. FiledInv(c)'
  <2>1. FiledInv(c) /\ call[c].obj = o /\ call'[c].obj = o
        BY <1>15 DEF SoloInv
  <2> DEFINE pending == IF l = CA THEN fresh ELSE {}
  <2>2. UNCHANGED <<chain, listed, disk>> /\ o \in DOMAIN heap
        BY <1>1, <1>4
  <2>3. Filed(CachesOf(heap'[o]), pending)
        BY <1>17
  <2>4. \A p : Pending(c, p)' = IF p = o THEN pending ELSE {}
        BY <1>14, <1>15 DEF Pending
  <2> HIDE DEF pending
  <2>5. PICK x : x = o
        OBVIOUS
  <2>6. Pending(c, x)' = pending
        BY <2>4, <2>5
  <2> HIDE DEF o
  <2> QED
      BY <1>11, <2>1, <2>2, <2>3, <2>5, <2>6, FiledChanged
<1>19. TargetInv(c)'
      BY <1>1, <1>4, <1>11, <1>14, <1>15 DEF SoloInv, TargetInv, Working
<1>20. EntryInv(c)'
      BY <1>10, <1>14 DEF EntryInv
<1>21. pc'[c] = "index" =>
           ListOf(call'[c].tok) = CA /\ (call'[c].tags = Tokens \/ call'[c].fresh = {})
      BY <1>4, <1>14, <1>15 DEF fresh
<1>22. heap'[call'[c].obj].slots[ListOf(call'[c].tok)] = put
      BY <1>11, <1>15
<1>23. /\ call'[c].length <= Len(chain'[ListOf(call'[c].tok)])
       /\ \A n \in 0..(call'[c].length - 1) :
             chain'[ListOf(call'[c].tok)][n + 1].owner = call'[c].acc => n \in Cached(put).coins
      BY <1>1, <1>6, <1>9, <1>12, <1>15
<1>24. outcome'[c] = "none" /\ pc'[c] \in {"index", "store"}
      BY <1>1, <1>4, <1>14
<1> QED
    BY <1>18, <1>19, <1>20, <1>21, <1>22, <1>23, <1>24 DEF SoloInv, Slot

\* A coin that is being filed is pending until it is.
LEMMA SoloIndexCoinStep ==
    ASSUME IInv, NEW c \in Callers, SoloInv(c), IndexCoin(c)
    PROVE  SoloInv(c)'
<1> DEFINE newCall(n) == [call[c] EXCEPT !.coin = n, !.fresh = @ \ {n}, !.data = @ \cup {n},
                             !.held = Slot(c, TokenOf(n)).cur]
<1>1. PICK n \in ToFile(c) \cup Aliased(c) : call' = [call EXCEPT ![c] = newCall(n)]
      BY ZenonT(60) DEF IndexCoin, Slot
<1> DEFINE cur == Slot(c, TokenOf(n)).cur
           new == [call[c] EXCEPT !.coin = n, !.fresh = call[c].fresh \ {n},
                                  !.data = call[c].data \cup {n}, !.held = cur]
<1>2. /\ pc[c] = "index"
      /\ pc' = [pc EXCEPT ![c] = "file"]
      /\ UNCHANGED <<chain, listed, heap, cachedData, disk, outcome, discarded>>
      BY DEF IndexCoin, Goto, node
<1>3. call[c] \in CallType /\ TypeOK /\ outcome[c] = "none"
      BY <1>2 DEF IInv, TypeOK, SoloInv
<1>4. call' = [call EXCEPT ![c] = new]
  <2>1. newCall(n) = new
        BY <1>3 DEF CallType
  <2> QED
      BY <1>1, <2>1
<1> HIDE DEF cur, newCall
<1>5. /\ new.acc = call[c].acc /\ new.tok = call[c].tok /\ new.obj = call[c].obj
      /\ new.length = call[c].length /\ new.fresh = call[c].fresh \ {n}
      /\ new.coin = n /\ new.held = cur /\ new.tags = call[c].tags
      BY <1>3 DEF CallType
<1> HIDE DEF new
<1>6. pc'[c] = "file" /\ call'[c] = new
      BY <1>2, <1>3, <1>4 DEF TypeOK
<1>7. FiledInv(c)'
  <2>1. \A o : Pending(c, o) \subseteq Pending(c, o)'
        BY <1>2, <1>5, <1>6 DEF Pending
  <2> QED
      BY <1>2, <2>1 DEF SoloInv, FiledInv, Filed
<1>8. TargetInv(c)'
      BY <1>2, <1>5, <1>6 DEF SoloInv, TargetInv, Working
<1>9. EntryInv(c)'
      BY <1>2, <1>5, <1>6 DEF SoloInv, EntryInv, Slot, TokenOf, cur
<1>10. /\ ListOf(call'[c].tok) = CA /\ ListOf(call[c].tok) = CA
       /\ call'[c].tags = Tokens \/ call'[c].fresh = {}
      BY <1>2, <1>5, <1>6 DEF SoloInv
<1>11. /\ call[c].length <= Len(chain[CA])
       /\ \A m \in 0..(call[c].length - 1) : chain[CA][m + 1].owner = call[c].acc =>
             m \in Cached(heap[call[c].obj].slots[CA]).coins
      BY <1>2, <1>10 DEF SoloInv, Slot
<1>12. /\ call'[c].length = call[c].length /\ call'[c].acc = call[c].acc
       /\ call'[c].obj = call[c].obj
      BY <1>5, <1>6
<1> QED
    BY <1>2, <1>3, <1>6, <1>7, <1>8, <1>9, <1>10, <1>11, <1>12 DEF SoloInv, Slot

\* Afterwards the coin is under its token.
LEMMA SoloFileCoinStep ==
    ASSUME IInv, NEW c \in Callers, SoloInv(c), FileCoin(c)
    PROVE  SoloInv(c)'
<1> DEFINE o == call[c].obj
           n == call[c].coin
           t == TokenOf(n)
           slot == heap[o].slots[t]
           held == call[c].held
           first == [present |-> TRUE, latest |-> LatestIndex(c), coins |-> {}]
           old == IF held = 0 THEN first ELSE slot.cells[held]
           cell == IF n \in old.coins THEN old
                   ELSE [old EXCEPT !.latest = LatestIndex(c), !.coins = @ \cup {n}]
<1>1. /\ pc[c] = "file"
      /\ pc' = [pc EXCEPT ![c] = "index"]
      /\ heap' = PutHeap(o, t, held, cell)
      /\ UNCHANGED <<chain, listed, cachedData, disk, call, outcome, discarded>>
      BY DEF FileCoin, Goto, node, PutHeap
<1>2. /\ TypeOK /\ call[c] \in CallType
      /\ o \in DOMAIN heap /\ held = slot.cur
      /\ call[c].length \in Nat /\ call[c].length >= 1 /\ Owned(CA, call[c].acc, n)
      /\ ListOf(call[c].tok) = CA /\ outcome[c] = "none"
      BY <1>1
      DEF IInv, CallInv, TypeOK, Working, FileInv, CallType, Slot, SoloInv, EntryInv
<1>3. t \in Tokens /\ t \in Keys /\ t # CA /\ n \in Nat /\ CA \in Keys
      BY <1>2, CoinOfToken, NamesAssumption DEF Owned, Keys, Lists
<1>4. /\ slot \in SlotType /\ held \in 0..Len(slot.cells)
      /\ held = 0 => Cached(slot) = NoCache
      /\ held # 0 => Cached(slot) = slot.cells[held] /\ slot.cells[held] \in CacheType
  <2>1. slot \in SlotType
        BY <1>2, <1>3, ObjectFacts
  <2>2. /\ slot.cur \in 0..Len(slot.cells)
        /\ slot.cur = 0 => Cached(slot) = NoCache
        /\ slot.cur # 0 => slot.cur \in 1..Len(slot.cells) /\ Cached(slot) = slot.cells[slot.cur]
        /\ \A j \in 1..Len(slot.cells) : slot.cells[j] \in CacheType
        BY <2>1, SlotFacts
  <2> HIDE DEF slot, held
  <2> QED
      BY <1>2, <2>1, <2>2
<1>5. old \in CacheType /\ Cached(slot).coins \subseteq old.coins
  <2>1. LatestIndex(c) \in Nat
        BY <1>2 DEF LatestIndex
  <2>2. first \in CacheType /\ NoCache.coins = {}
        BY <2>1, Zenon DEF CacheType, NoCache
  <2> HIDE DEF first, slot, held
  <2>3. CASE held = 0
        BY <1>4, <2>2, <2>3
  <2>4. CASE held # 0
        BY <1>4, <2>4
  <2> QED
      BY <2>3, <2>4
<1> HIDE DEF old
<1>6. cell \in CacheType /\ old.coins \subseteq cell.coins /\ n \in cell.coins
  <2>1. CASE n \in old.coins
        BY <1>5, <2>1
  <2>2. CASE n \notin old.coins
    <3> DEFINE more == [old EXCEPT !.latest = LatestIndex(c), !.coins = @ \cup {n}]
    <3>1. more.coins = old.coins \cup {n}
          BY <1>5 DEF CacheType
    <3>2. more \in CacheType
      <4>1. old.coins \cup {n} \in SUBSET Nat
            BY <1>3, <1>5 DEF CacheType
      <4>2. \A x \in SUBSET Nat, i \in Nat : [old EXCEPT !.latest = i, !.coins = x] \in CacheType
            BY <1>5, Zenon DEF CacheType
      <4>3. LatestIndex(c) \in Nat
            BY <1>2 DEF LatestIndex
      <4> QED
          BY <4>1, <4>2, <4>3
    <3>3. cell = more
          BY <2>2
    <3> HIDE DEF more, cell
    <3> QED
        BY <3>1, <3>2, <3>3
  <2> QED
      BY <2>1, <2>2
<1> HIDE DEF cell
<1>7. Cached(PutCell(slot, held, cell)) = cell
  <2> HIDE DEF slot, held
  <2> QED
      BY <1>4, <1>6, PutFacts
<1>8. /\ DOMAIN heap' = DOMAIN heap
      /\ \A p \in DOMAIN heap \ {o} : heap'[p] = heap[p]
      /\ heap'[o].slots[t] = PutCell(slot, held, cell)
      /\ \A j \in Keys \ {t} : heap'[o].slots[j] = heap[o].slots[j]
  <2> HIDE DEF o, t, held
  <2> QED
      BY <1>1, <1>2, <1>3, PutHeapFacts
<1>9. pc'[c] = "index" /\ call'[c] = call[c]
      BY <1>1, <1>2 DEF TypeOK
<1>10. Filed(CachesOf(heap'[o]), call[c].fresh)
  <2> DEFINE before == CachesOf(heap[o])
             after == CachesOf(heap'[o])
  <2>1. /\ \A u \in Tokens : u \in Keys
        /\ \A k \in Keys : before[k] = Cached(heap[o].slots[k])
        /\ \A k \in Keys : after[k] = Cached(heap'[o].slots[k])
        BY DEF Keys, CachesOf
  <2>2. Filed(before, call[c].fresh \cup {n})
        BY <1>1, <1>2 DEF SoloInv, FiledInv, Pending
  <2>3. /\ \A k \in Keys \ {t} : after[k] = before[k]
        /\ after[t] = cell /\ before[t].coins \subseteq cell.coins
        BY ZenonT(60), <1>3, <1>5, <1>6, <1>7, <1>8, <2>1
  <2> HIDE DEF before, after
  <2>4. after[CA] = before[CA] /\ \A u \in Tokens : before[u].coins \subseteq after[u].coins
        BY <1>3, <2>1, <2>3
  <2> SUFFICES ASSUME NEW m \in after[CA].coins, NEW u \in Tokens,
                      chain[CA][m + 1].token = u
               PROVE  m \in call[c].fresh \/ m \in after[u].coins
      BY DEF Filed, after
  <2>5. m \in call[c].fresh \/ m = n \/ m \in before[u].coins
        BY <2>2, <2>4 DEF Filed
  <2>6. m = n => u = t /\ m \in after[u].coins
        BY <1>6, <2>3 DEF TokenOf
  <2> QED
      BY <2>4, <2>5, <2>6
<1>11. FiledInv(c)'
  <2>1. FiledInv(c) /\ call[c].obj = o /\ call'[c].obj = o
        BY <1>9 DEF SoloInv
  <2>2. UNCHANGED <<chain, listed, disk>>
        BY <1>1
  <2>3. \A p : Pending(c, p)' = IF p = o THEN call[c].fresh ELSE {}
        BY <1>9 DEF Pending
  <2>4. PICK x, pending : x = o /\ pending = call[c].fresh
        OBVIOUS
  <2>5. Pending(c, x)' = pending /\ Filed(CachesOf(heap'[x]), pending) /\ x \in DOMAIN heap
        BY <1>2, <1>10, <2>3, <2>4
  <2> HIDE DEF o
  <2> QED
      BY <1>8, <2>1, <2>2, <2>4, <2>5, FiledChanged
<1>12. TargetInv(c)'
      BY <1>1, <1>2, <1>8, <1>9 DEF SoloInv, TargetInv, Working
<1>13. EntryInv(c)'
      BY <1>1, <1>9 DEF SoloInv, EntryInv
<1>14. heap'[o].slots[CA] = heap[o].slots[CA]
      BY <1>3, <1>8
<1>15. /\ call[c].tags = Tokens \/ call[c].fresh = {}
       /\ call[c].length <= Len(chain[CA])
       /\ \A m \in 0..(call[c].length - 1) : chain[CA][m + 1].owner = call[c].acc =>
             m \in Cached(heap[o].slots[CA]).coins
      BY <1>1, <1>2 DEF SoloInv, Slot
<1> QED
    BY <1>1, <1>2, <1>9, <1>11, <1>12, <1>13, <1>14, <1>15 DEF SoloInv, Slot

\* updateAllTokens ends when the pending coins are filed, since every token is
\* listed.
LEMMA SoloAllFiledStep ==
    ASSUME IInv, NEW c \in Callers, SoloInv(c), AllFiled(c)
    PROVE  SoloInv(c)'
<1>1. /\ pc[c] = "index" /\ ToFile(c) = {}
      /\ pc' = [pc EXCEPT ![c] = "store"]
      /\ call' = [call EXCEPT ![c] = Updated(c)]
      /\ UNCHANGED <<chain, listed, heap, cachedData, disk, outcome, discarded>>
      BY DEF AllFiled, Goto, node
<1>2. call[c] \in CallType /\ TypeOK /\ ListOf(call[c].tok) = CA /\ outcome[c] = "none"
      BY <1>1 DEF IInv, TypeOK, SoloInv
<1>3. call[c].fresh = {}
  <2> SUFFICES ASSUME NEW n \in call[c].fresh PROVE FALSE
      OBVIOUS
  <2>1. call[c].tags = Tokens /\ Owned(CA, call[c].acc, n)
        BY <1>1 DEF SoloInv, IInv, CallInv, FileInv
  <2>2. TokenOf(n) \in Tokens
        BY <1>2, <2>1, CoinOfToken
  <2> QED
      BY <1>1, <2>1, <2>2 DEF ToFile
<1>4. pc'[c] = "store" /\ call'[c] = Updated(c)
      BY <1>1, <1>2 DEF TypeOK
<1>5. /\ call'[c].acc = call[c].acc /\ call'[c].tok = call[c].tok
      /\ call'[c].length = call[c].length /\ call'[c].obj = call[c].obj
      BY <1>2, <1>4, UpdatedFacts
<1>6. FiledInv(c)'
  <2>1. \A o : Pending(c, o) = {} /\ Pending(c, o)' = {}
        BY <1>1, <1>3, <1>4 DEF Pending
  <2> QED
      BY <1>1, <2>1 DEF SoloInv, FiledInv, Filed
<1>7. TargetInv(c)'
      BY <1>1, <1>4, <1>5 DEF SoloInv, TargetInv, Working
<1>8. EntryInv(c)'
      BY <1>1, <1>4 DEF SoloInv, EntryInv
<1>9. /\ call[c].length <= Len(chain[CA])
      /\ \A m \in 0..(call[c].length - 1) : chain[CA][m + 1].owner = call[c].acc =>
            m \in Cached(heap[call[c].obj].slots[CA]).coins
      BY <1>1, <1>2 DEF SoloInv, Slot
<1> QED
    BY <1>1, <1>2, <1>4, <1>5, <1>6, <1>7, <1>8, <1>9 DEF SoloInv, Slot

\* What is stored is complete.
LEMMA SoloStoreSteps ==
    ASSUME IInv, NEW c \in Callers, SoloInv(c),
           StoreBegin(c) \/ StoreEnd(c) \/ StoreFails(c)
    PROVE  SoloInv(c)'
<1> DEFINE acc == call[c].acc
           obj == call[c].obj
<1>1. /\ pc[c] \in {"store", "write"} /\ pc'[c] \in {"write", "readBack"}
      /\ UNCHANGED <<chain, listed, heap, call, outcome, discarded>>
      BY DEF StoreBegin, StoreEnd, StoreFails, Goto, node, IInv, TypeOK
<1>2. acc \in Accounts /\ obj \in DOMAIN heap
      BY <1>1 DEF IInv, CallInv, Working
<1>3. cachedData' = cachedData \/ cachedData'[acc] \in {0, obj}
      BY <1>2 DEF StoreBegin, StoreEnd, StoreFails, IInv, TypeOK
<1>4. TargetInv(c)'
      BY <1>1, <1>2, <1>3 DEF SoloInv, TargetInv, Working
<1>5. \A p \in DOMAIN heap : Filed(CachesOf(heap[p]), {})
      BY <1>1 DEF SoloInv, FiledInv, Pending
<1>6. Filed(EmptyCaches, {})
      BY DEF Filed, EmptyCaches, NoCache, Keys, Lists
<1>7. \A a \in Accounts : Filed(disk'[a].caches, {})
  <2>1. \A a \in Accounts : Filed(disk[a].caches, {})
        BY DEF SoloInv, FiledInv
  <2>2. CASE StoreBegin(c)
    <3>1. disk' = [disk EXCEPT ![acc] = Damaged] /\ Damaged.caches = EmptyCaches
          BY <2>2 DEF StoreBegin, Damaged
    <3>2. \A a \in Accounts : disk'[a] = IF a = acc THEN Damaged ELSE disk[a]
          BY <3>1 DEF IInv, TypeOK
    <3> QED
        BY <1>6, <2>1, <3>1, <3>2
  <2>3. CASE StoreEnd(c)
    <3> DEFINE file == [state |-> "ok", caches |-> CachesOf(heap[obj])]
    <3>1. disk' = [disk EXCEPT ![acc] = file]
          BY <2>3 DEF StoreEnd
    <3>2. file.caches = CachesOf(heap[obj])
          OBVIOUS
    <3> HIDE DEF file
    <3>3. \A a \in Accounts : disk'[a] = IF a = acc THEN file ELSE disk[a]
          BY <3>1 DEF IInv, TypeOK
    <3> QED
        BY <1>2, <1>5, <2>1, <3>2, <3>3
  <2>4. CASE StoreFails(c)
        BY <2>1, <2>4 DEF StoreFails
  <2> QED
      BY <2>2, <2>3, <2>4
<1>8. FiledInv(c)'
  <2>1. \A p : Pending(c, p)' = {}
        BY <1>1 DEF Pending
  <2> QED
      BY <1>1, <1>5, <1>7, <2>1 DEF SoloInv, FiledInv, Filed
<1> QED
    BY <1>1, <1>4, <1>8 DEF SoloInv, EntryInv, Slot

\* The object that is read back is the one brought up to date.
LEMMA SoloReadBackStep ==
    ASSUME IInv, NEW c \in Callers, SoloInv(c), ReadBack(c)
    PROVE  SoloInv(c)'
<1> DEFINE acc == call[c].acc
           tok == call[c].tok
           o == cachedData[acc]
           found == Cached(heap[o].slots[tok]).coins
           new == [call[c] EXCEPT !.result = found]
<1>1. /\ pc[c] = "readBack" /\ o # 0
      /\ pc' = [pc EXCEPT ![c] = "v1"]
      /\ call' = [call EXCEPT ![c] = new]
      /\ UNCHANGED <<chain, listed, heap, cachedData, disk, outcome, discarded>>
      BY DEF ReadBack, Goto, node
<1>2. /\ call[c] \in CallType /\ tok \in TokenIDs
      /\ o \in DOMAIN heap /\ o = call[c].obj /\ outcome[c] = "none"
  <2>1. call[c] \in CallType
        BY DEF IInv, TypeOK
  <2>2. tok \in TokenIDs
        BY <2>1 DEF CallType
  <2> QED
      BY <1>1, <2>1, <2>2 DEF SoloInv, TargetInv
<1>3. /\ new.acc = acc /\ new.tok = tok /\ new.length = call[c].length
      /\ new.result = found
  <2> HIDE DEF found
  <2> QED
      BY <1>2 DEF CallType
<1> HIDE DEF new
<1>4. call'[c] = new /\ pc'[c] = "v1"
      BY <1>1 DEF IInv, TypeOK
<1>5. FiledInv(c)'
      BY <1>1, <1>4, FiledSame DEF SoloInv
<1>6. /\ call[c].length <= Len(chain[ListOf(tok)])
      /\ \A n \in 0..(call[c].length - 1) : chain[ListOf(tok)][n + 1].owner = acc =>
            n \in Cached(heap[o].slots[ListOf(tok)]).coins
      BY <1>1, <1>2 DEF SoloInv, Slot
<1>7. \A n \in 0..(call[c].length - 1) : OfToken(tok, acc, n) => n \in found
  <2> SUFFICES ASSUME NEW n \in 0..(call[c].length - 1), OfToken(tok, acc, n)
               PROVE  n \in found
      OBVIOUS
  <2>1. n \in Cached(heap[o].slots[ListOf(tok)]).coins /\ chain[ListOf(tok)][n + 1].token = tok
        BY <1>6 DEF OfToken, Owned
  <2>2. CASE tok = PRV
        BY <2>1, <2>2 DEF ListOf
  <2>3. CASE tok # PRV
    <3>1. ListOf(tok) = CA /\ tok \in Tokens
          BY <1>2, <2>3 DEF ListOf, TokenIDs
    <3>2. Filed(CachesOf(heap[o]), {})
          BY <1>1, <1>2 DEF SoloInv, FiledInv, Pending
    <3>3. \A k \in {CA, tok} : CachesOf(heap[o])[k] = Cached(heap[o].slots[k])
          BY <3>1 DEF CachesOf, Keys, Lists
    <3> QED
        BY <2>1, <3>1, <3>2, <3>3 DEF Filed
  <2> QED
      BY <2>2, <2>3
<1>8. \A n : OfToken(tok, acc, n) <=> OfToken(call[c].tok, call[c].acc, n)'
      BY <1>1, <1>3, <1>4 DEF OfToken, Owned
<1> HIDE DEF found, o
<1>9. TargetInv(c)'
      BY <1>4 DEF TargetInv, Working
<1> QED
    BY <1>1, <1>2, <1>3, <1>4, <1>5, <1>6, <1>7, <1>8, <1>9 DEF SoloInv, EntryInv

\* The chain grows behind what is cached.
LEMMA SoloAddCoinStep ==
    ASSUME IInv, NEW c \in Callers, SoloInv(c), NEW list \in Lists, AddCoin(list)
    PROVE  SoloInv(c)'
<1> DEFINE l == ListOf(call[c].tok)
           length == call[c].length
<1>1. UNCHANGED <<listed, heap, cachedData, disk, pc, call, outcome, discarded>>
      BY DEF AddCoin
<1>2. /\ \A k \in Lists : /\ Len(chain[k]) \in Nat /\ Len(chain'[k]) \in Nat
                          /\ Len(chain[k]) <= Len(chain'[k])
      /\ \A k \in Lists, n \in Nat : n < Len(chain[k]) =>
            n < Len(chain'[k]) /\ chain'[k][n + 1] = chain[k][n + 1]
      BY ChainGrows
<1>3. \A p : Pending(c, p)' = Pending(c, p)
      BY <1>1 DEF Pending
<1>4. /\ \A p \in DOMAIN heap : \A n \in CachesOf(heap[p])[CA].coins :
            chain'[CA][n + 1] = chain[CA][n + 1]
      /\ \A a \in Accounts : \A n \in disk[a].caches[CA].coins :
            chain'[CA][n + 1] = chain[CA][n + 1]
  <2>1. ASSUME NEW acc, NEW caches, CacheInv(acc, caches), NEW n \in caches[CA].coins
        PROVE  chain'[CA][n + 1] = chain[CA][n + 1]
    <3>1. CA \in Lists /\ CA \in Keys
          BY DEF Lists, Keys
    <3>2. CellInv(acc, CA, caches[CA])
          BY <2>1, <3>1 DEF CacheInv, NoCache
    <3> QED
        BY <1>2, <2>1, <3>1, <3>2 DEF CellInv, Owned
  <2>2. \A p \in DOMAIN heap : CacheInv(heap[p].acc, CachesOf(heap[p]))
        BY ObjectFacts, CachesFacts DEF IInv, HeapInv
  <2> QED
      BY <2>1, <2>2 DEF IInv, DiskInv
<1>5. FiledInv(c)'
      BY <1>1, <1>3, <1>4 DEF SoloInv, FiledInv, Filed
<1>6. TargetInv(c)'
      BY <1>1 DEF SoloInv, TargetInv
<1>7. l \in Lists /\ length \in Nat
  <2>1. call[c] \in CallType
        BY DEF IInv, TypeOK
  <2> QED
      BY <2>1 DEF CallType, ListOf, Lists
<1>8. length <= Len(chain[l]) =>
          /\ length <= Len(chain'[l])
          /\ \A n \in 0..(length - 1) : chain'[l][n + 1] = chain[l][n + 1]
          /\ \A n \in 0..(length - 1) : n < Len(chain[l])
      BY SMTT(40), <1>2, <1>7
<1>9. length <= Len(chain[l]) => \A n \in 0..(length - 1) :
          OfToken(call[c].tok, call[c].acc, n)' => OfToken(call[c].tok, call[c].acc, n)
      BY <1>1, <1>8 DEF OfToken, Owned
<1>10. EntryInv(c)'
  <2>1. pc[c] = "file" => Owned(CA, call[c].acc, call[c].coin)
        BY DEF IInv, CallInv, FileInv
  <2>2. pc[c] = "file" => chain'[CA][call[c].coin + 1] = chain[CA][call[c].coin + 1]
        BY <1>2, <2>1 DEF Owned, Lists
  <2> QED
      BY <1>1, <2>2 DEF SoloInv, EntryInv, Slot, TokenOf
<1> QED
    BY <1>1, <1>5, <1>6, <1>8, <1>9, <1>10 DEF SoloInv, Slot

\* A crash leaves what is stored.
LEMMA SoloCrashStep ==
    ASSUME IInv, NEW c \in Callers, SoloInv(c), Crash
    PROVE  SoloInv(c)'
<1>1. /\ heap' = <<>>
      /\ pc'[c] = "idle" /\ outcome'[c] = "none"
      /\ UNCHANGED <<chain, listed, disk, discarded>>
      BY DEF Crash, node
<1>2. DOMAIN heap' = {}
      BY <1>1
<1>3. FiledInv(c)'
      BY <1>1, <1>2 DEF SoloInv, FiledInv, Filed
<1> QED
    BY <1>1, <1>3, EarlyStep DEF Working, SoloInv, EntryInv

\* A lone caller begins without objects and files.
LEMMA SoloInit ==
    ASSUME Init, ~GrowingTokens, NEW c \in Callers
    PROVE  SoloInv(c)
<1>1. /\ heap = <<>> /\ listed = Tokens /\ pc[c] = "idle" /\ outcome[c] = "none"
      /\ discarded = {}
      BY DEF Init
<1>2. \A a \in Accounts : disk[a].caches = EmptyCaches
      BY DEF Init, NoFile
<1>3. Filed(EmptyCaches, {})
      BY DEF Filed, EmptyCaches, NoCache, Keys, Lists
<1>4. DOMAIN heap = {}
      BY <1>1
<1>5. FiledInv(c)
      BY <1>1, <1>2, <1>3, <1>4 DEF FiledInv
<1> QED
    BY <1>1, <1>5 DEF SoloInv, TargetInv, EntryInv, Working

\* SoloInv is an invariant when all calls are made by one caller and the node
\* lists all tokens.
LEMMA SpecSoloInv ==
    ASSUME NEW c, Callers = {c}, ~GrowingTokens
    PROVE  Spec => []SoloInv(c)
<1>1. Init => SoloInv(c)
      BY SoloInit
<1>2. IInv /\ SoloInv(c) /\ [Next]_vars => SoloInv(c)'
  <2> SUFFICES ASSUME IInv, SoloInv(c), [Next]_vars
               PROVE  SoloInv(c)'
      OBVIOUS
  <2>1. CASE \E list \in Lists : AddCoin(list)
        BY <2>1, SoloAddCoinStep
  <2>2. CASE \E tok \in Tokens : ListToken(tok)
        BY <2>2 DEF ListToken, SoloInv, FiledInv
  <2>3. CASE \E d \in Callers, acc \in Accounts, tok \in TokenIDs : Call(d, acc, tok)
        BY <2>3, SoloCallStep
  <2>4. CASE \E d \in Callers : Step(d) \/ FaultyStep(d)
    <3>1. Step(c) \/ FaultyStep(c)
          BY <2>4
    <3> QED
        BY <3>1, SoloReturnSteps, SoloQueryV1Step, SoloLoadSteps, SoloGetAccountStep,
           SoloUpToDateStep, SoloFetchStep, SoloReadEntryStep, SoloApplyStep,
           SoloIndexCoinStep, SoloFileCoinStep, SoloAllFiledStep, SoloStoreSteps,
           SoloReadBackStep
        DEF Step, FaultyStep
  <2>5. CASE Crash
        BY <2>5, SoloCrashStep
  <2>6. CASE UNCHANGED vars
        BY ZenonT(60), <2>6 DEF vars, SoloInv, FiledInv, TargetInv, EntryInv, Filed, Pending, OfToken, Owned,
                    Slot, TokenOf
  <2> QED
      BY <2>1, <2>2, <2>3, <2>4, <2>5, <2>6 DEF Next, Finished
<1> QED
    BY <1>1, <1>2, SpecIInv, PTL DEF Spec

\* A call of a lone caller that succeeds returns every coin of the account and
\* token that was on the chain when it asked for the length, whatever earlier
\* calls, failures and crashes left in memory and on the disk.
THEOREM LoneCallsAreComplete ==
    ASSUME NEW c, Callers = {c}, ~GrowingTokens
    PROVE  Spec => []ResultComplete
<1>1. IInv /\ SoloInv(c) => ResultComplete
  <2> SUFFICES ASSUME IInv, SoloInv(c), outcome[c] = "ok",
                      NEW n \in CoinsOfToken(call[c].tok, call[c].acc, 0, call[c].length - 1)
               PROVE  n \in call[c].result
      BY DEF ResultComplete
  <2> DEFINE l == ListOf(call[c].tok)
  <2>1. /\ n \in 0..(call[c].length - 1)
        /\ chain[l][n + 1].owner = call[c].acc /\ chain[l][n + 1].token = call[c].tok
        BY DEF CoinsOfToken, Coins
  <2>2. /\ call[c].length <= Len(chain[l])
        /\ \A k \in 0..(call[c].length - 1) :
              OfToken(call[c].tok, call[c].acc, k) => k \in call[c].result
        BY DEF SoloInv
  <2>3. call[c].length \in Nat /\ Len(chain[l]) \in Nat
    <3>1. call[c] \in CallType /\ l \in Lists
          BY DEF IInv, TypeOK, ListOf, Lists
    <3> QED
        BY <3>1, LenProperties DEF IInv, TypeOK, CallType
  <2>4. OfToken(call[c].tok, call[c].acc, n)
        BY <2>1, <2>2, <2>3 DEF OfToken, Owned
  <2> QED
      BY <2>1, <2>2, <2>4
<1> QED
    BY <1>1, SpecIInv, SpecSoloInv, PTL

\* A lone caller discards nothing, so that for it an object or a file that
\* claims to be synced up to an index has every coin of the account up to there.
THEOREM LoneCallsNeverSkip ==
    ASSUME NEW c, Callers = {c}, ~GrowingTokens
    PROVE  Spec => [](discarded = {} /\ NoCoinSkipped)
<1>1. SoloInv(c) => discarded = {}
      BY DEF SoloInv, EntryInv
<1> QED
    BY <1>1, SpecSoloInv, NeverSkips, PTL

-----------------------------------------------------------------------------
(* What was stored is found again.                                         *)

\* A step of the caller to a place where nothing is claimed of the map.
LEMMA CachedElsewhere ==
    ASSUME NEW c \in Callers, CachedInv(c), chain' = chain, faults' \in Nat,
           pc'[c] \notin {"getAccount", "fetch", "write", "readBack"},
           faults' = 0 => outcome'[c] # "notCached"
    PROVE  CachedInv(c)'
BY DEF CachedInv

\* The ways out of a call.
LEMMA CachedReturnSteps ==
    ASSUME IInv, NEW c \in Callers, CachedInv(c),
           \/ LoadRefused(c) \/ LoadFails(c) \/ RpcFails(c)
           \/ NotCached(c) \/ QueryV1(c) \/ QueryV1Fails(c)
    PROVE  CachedInv(c)'
<1>1. pc'[c] = "idle" /\ chain' = chain
      BY DEF LoadRefused, LoadFails, RpcFails, NotCached, QueryV1, QueryV1Fails,
             Return, node, IInv, TypeOK
<1>2. faults \in Nat
      BY DEF CachedInv
<1>3. faults' \in Nat /\ (faults' = 0 => outcome'[c] # "notCached")
  <2>1. CASE RpcFails(c) \/ QueryV1Fails(c)
        BY <1>2, <2>1 DEF RpcFails, QueryV1Fails, Fault
  <2>2. CASE LoadRefused(c) \/ LoadFails(c) \/ QueryV1(c)
        BY <1>2, <2>2 DEF LoadRefused, LoadFails, QueryV1, Return, counters, IInv, TypeOK
  <2>3. CASE NotCached(c)
        BY <1>2, <2>3 DEF NotCached, CachedInv, counters
  <2> QED
      BY <2>1, <2>2, <2>3
<1> QED
    BY <1>1, <1>3, CachedElsewhere

\* The steps with which a call gets to its object.
LEMMA CachedQuerySteps ==
    ASSUME IInv, NEW c \in Callers, CachedInv(c), InitialLength >= 1, TargetInv(c),
           GetLength(c) \/ GetAccount(c) \/ UpToDate(c)
    PROVE  CachedInv(c)'
<1> DEFINE acc == call[c].acc
           l == ListOf(call[c].tok)
<1>1. /\ call[c] \in CallType /\ TypeOK
      /\ l \in Lists
      BY DEF IInv, TypeOK, ListOf, Lists
<1>2. CASE GetLength(c)
  <2> DEFINE new == [call[c] EXCEPT !.length = Len(chain[l])]
  <2>1. /\ pc' = [pc EXCEPT ![c] = "getAccount"]
        /\ call' = [call EXCEPT ![c] = new]
        /\ UNCHANGED <<chain, outcome, faults>>
        BY <1>2 DEF GetLength, Goto, node, counters
  <2>2. new.length = Len(chain[l])
        BY <1>1 DEF CallType
  <2> HIDE DEF new
  <2>3. pc'[c] = "getAccount" /\ call'[c] = new
        BY <1>1, <2>1 DEF TypeOK
  <2>4. Len(chain[l]) >= InitialLength /\ Len(chain[l]) \in Nat
        BY <1>1, LenProperties DEF CachedInv, TypeOK
  <2> QED
      BY <2>1, <2>2, <2>3, <2>4 DEF CachedInv
<1>3. CASE GetAccount(c)
  <2>1. /\ pc[c] = "getAccount"
        /\ pc' = [pc EXCEPT ![c] = "fetch"]
        /\ UNCHANGED <<chain, cachedData, outcome, faults>>
        BY <1>3 DEF GetAccount, Goto, node, counters
  <2>2. \E o, from :
            /\ call' = [call EXCEPT ![c] = [call[c] EXCEPT !.obj = o, !.from = from]]
            /\ o = cachedData[acc] \/ from = 0
    <3>1. CASE cachedData[acc] # 0
      <4>1. call' = [call EXCEPT ![c] = [call[c] EXCEPT !.obj = cachedData[acc],
                        !.from = CurrentIndex(Cached(heap[cachedData[acc]].slots[l]))]]
            BY <1>3, <3>1 DEF GetAccount
      <4> QED
          BY <4>1
    <3>2. CASE cachedData[acc] = 0
      <4>1. call' = [call EXCEPT ![c] = [call[c] EXCEPT !.obj = Len(heap) + 1, !.from = 0]]
            BY <1>3, <3>2 DEF GetAccount, CurrentIndex, NoCache
      <4> QED
          BY <4>1
    <3> QED
        BY <3>1, <3>2
  <2>3. PICK o, from :
            /\ call' = [call EXCEPT ![c] = [call[c] EXCEPT !.obj = o, !.from = from]]
            /\ o = cachedData[acc] \/ from = 0
        BY <2>2
  <2> DEFINE new == [call[c] EXCEPT !.obj = o, !.from = from]
  <2>4. new.acc = acc /\ new.length = call[c].length /\ new.obj = o /\ new.from = from
        BY <1>1 DEF CallType
  <2> HIDE DEF new
  <2>5. call' = [call EXCEPT ![c] = new]
        BY <2>3 DEF new
  <2>6. pc'[c] = "fetch" /\ call'[c] = new
        BY <1>1, <2>1, <2>5 DEF TypeOK
  <2> QED
      BY <2>1, <2>3, <2>4, <2>6 DEF CachedInv
<1>4. CASE UpToDate(c)
  <2>1. /\ pc[c] = "fetch" /\ call[c].from >= call[c].length
        /\ pc' = [pc EXCEPT ![c] = "readBack"]
        /\ UNCHANGED <<chain, cachedData, call, outcome, faults>>
        BY <1>4 DEF UpToDate, Goto, node, counters
  <2>2. pc'[c] = "readBack"
        BY <1>1, <2>1 DEF TypeOK
  <2>3. call[c].from > 0
    <3>1. call[c].from \in Nat /\ call[c].length \in Nat
          BY <1>1 DEF CallType
    <3>2. call[c].length >= InitialLength /\ InitialLength \in Nat
          BY <2>1, CacheAssumption DEF CachedInv
    <3> QED
        BY <2>1, <3>1, <3>2
  <2>4. cachedData[acc] = call[c].obj /\ call[c].obj \in DOMAIN heap
        BY <2>1, <2>3 DEF CachedInv, TargetInv, Working
  <2>5. cachedData[acc] # 0
        BY <1>1, <2>4, LenProperties DEF TypeOK
  <2> QED
      BY <2>1, <2>2, <2>5 DEF CachedInv
<1> QED
    BY <1>2, <1>3, <1>4

\* Storing puts the account into the map; only a fault takes it out.
LEMMA CachedStoreSteps ==
    ASSUME IInv, NEW c \in Callers, CachedInv(c),
           StoreBegin(c) \/ StoreEnd(c) \/ StoreFails(c)
    PROVE  CachedInv(c)'
<1> DEFINE acc == call[c].acc
           obj == call[c].obj
<1>1. /\ TypeOK /\ acc \in Accounts /\ obj \in DOMAIN heap
      /\ UNCHANGED <<chain, call, outcome>>
      BY DEF StoreBegin, StoreEnd, StoreFails, node, IInv, CallInv, Working
<1>2. obj # 0
      BY <1>1, LenProperties DEF TypeOK
<1>3. CASE StoreBegin(c)
  <2>1. pc'[c] = "write" /\ cachedData'[acc] = obj /\ faults' = faults
        BY <1>1, <1>3 DEF StoreBegin, Goto, counters, TypeOK
  <2> QED
      BY <1>1, <2>1 DEF CachedInv
<1>4. CASE StoreEnd(c)
  <2>1. pc[c] = "write" /\ pc'[c] = "readBack" /\ cachedData' = cachedData
        /\ faults' = faults
        BY <1>1, <1>4 DEF StoreEnd, Goto, counters, TypeOK
  <2> QED
      BY <1>1, <1>2, <2>1 DEF CachedInv
<1>5. CASE StoreFails(c)
  <2>1. pc'[c] = "readBack" /\ faults' = faults + 1
        BY <1>1, <1>5 DEF StoreFails, Goto, Fault, TypeOK
  <2>2. faults' \in Nat /\ faults' # 0
        BY <2>1 DEF CachedInv
  <2> QED
      BY <1>1, <2>1, <2>2 DEF CachedInv
<1> QED
    BY <1>3, <1>4, <1>5

\* All other steps of a call.
LEMMA CachedOtherSteps ==
    ASSUME IInv, NEW c \in Callers, CachedInv(c),
           \/ LoadCheck(c) \/ ReadDir(c) \/ LoadFile(c) \/ Fetch(c)
           \/ ReadEntry(c) \/ Apply(c) \/ IndexCoin(c) \/ FileCoin(c) \/ AllFiled(c)
           \/ ReadBack(c)
    PROVE  CachedInv(c)'
<1>1. UNCHANGED <<chain, outcome, faults>>
      BY DEF LoadCheck, ReadDir, LoadFile, Fetch, ReadEntry, Apply, IndexCoin, FileCoin,
             AllFiled, ReadBack, node, counters
<1>2. pc'[c] \in {"length", "readDir", "load", "update", "apply", "index", "file",
                  "store", "v1"}
      BY DEF LoadCheck, ReadDir, LoadFile, Fetch, ReadEntry, Apply, IndexCoin, FileCoin,
             AllFiled, ReadBack, Goto, IInv, TypeOK
<1>3. faults' \in Nat /\ (faults' = 0 => outcome'[c] # "notCached")
      BY <1>1 DEF CachedInv
<1> QED
    BY <1>1, <1>2, <1>3, CachedElsewhere

\* CachedInv is an invariant when all calls are made by one caller and there
\* are coins on the chain.
LEMMA SpecCachedInv ==
    ASSUME NEW c, Callers = {c}, ~GrowingTokens, InitialLength >= 1
    PROVE  Spec => []CachedInv(c)
<1>1. Init => CachedInv(c)
  <2> SUFFICES ASSUME Init PROVE CachedInv(c)
      OBVIOUS
  <2>1. PICK prvCoins \in [1..InitialLength -> NewCoins(PRV)],
             caCoins \in [1..InitialLength -> NewCoins(CA)] :
            chain = [l \in Lists |-> IF l = PRV THEN prvCoins ELSE caCoins]
        BY DEF Init
  <2>2. Len(prvCoins) = InitialLength /\ Len(caCoins) = InitialLength
    <3>1. InitialLength \in Nat
          BY CacheAssumption
    <3> QED
        BY <2>1, <3>1
  <2>3. \A l \in Lists : chain[l] = prvCoins \/ chain[l] = caCoins
        BY <2>1
  <2>4. faults = 0 /\ pc[c] = "idle" /\ outcome[c] = "none"
        BY DEF Init
  <2>5. \A l \in Lists : InitialLength <= Len(chain[l])
        BY <2>2, <2>3, CacheAssumption
  <2> QED
      BY <2>4, <2>5 DEF CachedInv
<1>2. IInv /\ SoloInv(c) /\ CachedInv(c) /\ [Next]_vars => CachedInv(c)'
  <2> SUFFICES ASSUME IInv, SoloInv(c), CachedInv(c), [Next]_vars
               PROVE  CachedInv(c)'
      OBVIOUS
  <2>a. TypeOK /\ TargetInv(c)
        BY DEF IInv, SoloInv
  <2>1. CASE \E list \in Lists : AddCoin(list)
    <3>1. PICK list \in Lists : AddCoin(list)
          BY <2>1
    <3>2. \A l \in Lists : /\ Len(chain[l]) \in Nat /\ Len(chain'[l]) \in Nat
                           /\ Len(chain[l]) <= Len(chain'[l])
          BY <3>1, ChainGrows
    <3>3. UNCHANGED <<pc, call, cachedData, outcome, faults>>
          BY <3>1 DEF AddCoin, counters
    <3>4. \A l \in Lists : InitialLength <= Len(chain'[l])
          BY <3>2, CacheAssumption DEF CachedInv
    <3> QED
        BY <3>3, <3>4 DEF CachedInv
  <2>2. CASE \E tok \in Tokens : ListToken(tok)
        BY <2>2 DEF ListToken, counters, CachedInv
  <2>3. CASE \E d \in Callers, acc \in Accounts, tok \in TokenIDs : Call(d, acc, tok)
    <3>1. pc'[c] = "check" /\ outcome'[c] = "none" /\ UNCHANGED <<chain, faults>>
          BY <2>a, <2>3 DEF Call, Goto, node, TypeOK
    <3>2. faults' \in Nat
          BY <3>1 DEF CachedInv
    <3> QED
        BY <3>1, <3>2, CachedElsewhere
  <2>4. CASE \E d \in Callers : Step(d) \/ FaultyStep(d)
    <3>1. Step(c) \/ FaultyStep(c)
          BY <2>4
    <3> QED
        BY <2>a, <3>1, CachedReturnSteps, CachedQuerySteps, CachedStoreSteps, CachedOtherSteps
        DEF Step, FaultyStep
  <2>5. CASE Crash
    <3>1. pc'[c] = "idle" /\ outcome'[c] = "none" /\ chain' = chain /\ faults' = faults + 1
          BY <2>5 DEF Crash, Fault, node
    <3>2. faults' \in Nat
          BY <3>1 DEF CachedInv
    <3> QED
        BY <3>1, <3>2, CachedElsewhere
  <2>6. CASE UNCHANGED vars
        BY <2>6 DEF vars, CachedInv
  <2> QED
      BY <2>1, <2>2, <2>3, <2>4, <2>5, <2>6 DEF Next, Finished
<1> QED
    BY <1>1, <1>2, SpecIInv, SpecSoloInv, PTL DEF Spec

\* With a node that answers, a disk that works and coins on the chain, a lone
\* caller always finds the account it has just synced.
THEOREM LoneCallsFindTheirAccount ==
    ASSUME NEW c, Callers = {c}, ~GrowingTokens, InitialLength >= 1
    PROVE  Spec => []SyncedIsCached
<1>1. CachedInv(c) => SyncedIsCached
      BY DEF CachedInv, SyncedIsCached
<1> QED
    BY <1>1, SpecCachedInv, PTL
=============================================================================
