------------------------------- MODULE Cache -------------------------------
(***************************************************************************)
(* Cache and LoadingCache: entries with a time to live, an access order,   *)
(* three eviction strategies, and clients that look up, load on a miss and *)
(* put, each of these a step of its own (getOrPut, LoadingCache.get).      *)
(*                                                                         *)
(* Every atomically { ... } block is one action.  put keeps the key it     *)
(* evicted in a variable outside its transaction; an attempt that the STM  *)
(* rolls back and repeats leaves that variable set, so that PutAttempt is  *)
(* an action of its own.  (An attempt that is not followed by another      *)
(* client's commit is repeated on the same entries and overwrites what it  *)
(* noted.)                                                                 *)
(*                                                                         *)
(* A value is the version of the source it was loaded from.  The times of  *)
(* an entry are kept as ages, which stop growing once the entry is past    *)
(* its time to live; idle is kept for LRU and count for LFU, the only      *)
(* strategies they matter to.  Among entries with equal counts or ages the *)
(* code takes the first in the map's order: here, any.  The clock does not *)
(* go back.  The hit, miss and eviction counters are left out.             *)
(***************************************************************************)
EXTENDS Integers, FiniteSets, SequencesExt

CONSTANTS
    Clients,    \* callers of getOrPut and LoadingCache.get
    Keys,
    NoKey,      \* null
    MaxSize,    \* config.maxSize
    TTL,        \* config.ttl, in ticks
    MaxVersion, \* bound: changes of the source
    MaxCount    \* bound: accessCount is not counted further

(* The require() calls of CacheConfig. *)
ASSUME ConfigAssumption ==
    /\ MaxSize \in Nat \ {0}
    /\ TTL \in Nat \ {0}
    /\ MaxVersion \in Nat
    /\ MaxCount \in Nat
    /\ NoKey \notin Keys

VARIABLES
    strategy,    \* config.evictionStrategy
    entries,     \* entries: a function from the keys present to their entries
    accessOrder, \* accessOrder: least recently used first
    truth,       \* the source's current version
    place,       \* place[c]: where client c is
    key,         \* key[c]: the key it is getting
    value,       \* value[c]: what its loader returned
    evictedKey   \* evictedKey[c]: the local variable of put

cache  == <<entries, accessOrder>>
client == <<place, key, value, evictedKey>>
vars   == <<strategy, cache, truth, client>>

Strategies == {"LRU", "LFU", "FIFO"}
Places     == {"idle", "loading", "putting", "telling"}
Versions   == 0..MaxVersion
Ages       == 0..(TTL + 1)
Entry      == [version : Versions, age : Ages, idle : Ages, count : 0..MaxCount]

Present == DOMAIN entries

-----------------------------------------------------------------------------
(* Entries *)

NewEntry(v) == [version |-> v, age |-> 0, idle |-> 0, count |-> 0]

\* entry.copy(lastAccessTime = now, accessCount + 1).
Accessed(e) ==
    [e EXCEPT !.idle  = 0,
              !.count = IF strategy = "LFU" /\ @ < MaxCount THEN @ + 1 ELSE @]

Older(n) == IF n <= TTL THEN n + 1 ELSE n

(* Faulty: the time to live starts again with every access. *)
IsExpired_SinceAccess(e) == e.idle > TTL

IsExpired(e) == e.age > TTL

Keep(S)     == entries' = Restrict(entries, Present \cap S)
Set(k, e)   == [j \in Present \cup {k} |-> IF j = k THEN e ELSE entries[j]]

\* The elements of seq that are not in S, in their order: the n-th of them is the one
\* that n of them do not come after.
Without(seq, S) ==
    LET kept    == {i \in DOMAIN seq : seq[i] \notin S}
        rank(i) == Cardinality({j \in kept : j <= i})
    IN  [n \in 1..Cardinality(kept) |-> seq[CHOOSE i \in kept : rank(i) = n]]

\* The code's list - key takes out the first of equal keys; no key is there twice.
Drop(S) == Without(accessOrder, S)

(* Faulty: a hit leaves the key where it is in the access order. *)
MoveToEnd_Stays(k) == IF k \in Present THEN accessOrder ELSE Append(accessOrder, k)

MoveToEnd(k) == Append(Drop({k}), k)

\* The keys evictOne may choose.
Victims ==
    CASE strategy = "LRU"  -> IF accessOrder = <<>> THEN {} ELSE {Head(accessOrder)}
      [] strategy = "LFU"  -> {k \in Present : \A j \in Present :
                                   entries[k].count <= entries[j].count}
      [] strategy = "FIFO" -> {k \in Present : \A j \in Present :
                                   entries[k].age >= entries[j].age}

-----------------------------------------------------------------------------
Init ==
    /\ strategy \in Strategies
    /\ entries = [k \in {} |-> NewEntry(0)]
    /\ accessOrder = <<>>
    /\ truth = 0
    /\ place      = [c \in Clients |-> "idle"]
    /\ key        = [c \in Clients |-> NoKey]
    /\ value      = [c \in Clients |-> 0]
    /\ evictedKey = [c \in Clients |-> NoKey]

Goto(c, from, to) ==
    /\ place[c] = from
    /\ place' = [place EXCEPT ![c] = to]

\* get finds an entry that is not expired; the client has its answer.
GetHit(c, k) ==
    /\ place[c] = "idle"
    /\ k \in Present
    /\ ~IsExpired(entries[k])
    /\ entries' = Set(k, Accessed(entries[k]))
    /\ accessOrder' = MoveToEnd(k)
    /\ UNCHANGED <<strategy, truth, client>>

(* Faulty: the expired entry goes, its place in the access order stays. *)
GetMiss_KeepsOrder(c, k) ==
    /\ Goto(c, "idle", "loading")
    /\ k \in Present => IsExpired(entries[k])
    /\ key' = [key EXCEPT ![c] = k]
    /\ Keep(Keys \ {k})
    /\ UNCHANGED <<strategy, accessOrder, truth, value, evictedKey>>

\* get finds nothing, or an expired entry, which it removes and tells no
\* listener; the loader is called.
GetMiss(c, k) ==
    /\ Goto(c, "idle", "loading")
    /\ k \in Present => IsExpired(entries[k])
    /\ key' = [key EXCEPT ![c] = k]
    /\ Keep(Keys \ {k})
    /\ accessOrder' = IF k \in Present THEN Drop({k}) ELSE accessOrder
    /\ UNCHANGED <<strategy, truth, value, evictedKey>>

\* The loader returns what the source holds at that moment.
Load(c) ==
    /\ Goto(c, "loading", "putting")
    /\ value' = [value EXCEPT ![c] = truth]
    /\ UNCHANGED <<strategy, cache, truth, key, evictedKey>>

\* It throws: getOrPut ends with the exception.
LoadFails(c) ==
    /\ Goto(c, "loading", "idle")
    /\ key' = [key EXCEPT ![c] = NoKey]
    /\ UNCHANGED <<strategy, cache, truth, value, evictedKey>>

\* A direct put of what the source holds, on a key that may well be present.
Put(c, k) ==
    /\ Goto(c, "idle", "putting")
    /\ key' = [key EXCEPT ![c] = k]
    /\ value' = [value EXCEPT ![c] = truth]
    /\ UNCHANGED <<strategy, cache, truth, evictedKey>>

MustEvict(k) == Cardinality(Present) >= MaxSize /\ k \notin Present

\* An attempt of put's transaction that will be rolled back.
PutAttempt(c) ==
    /\ place[c] = "putting"
    /\ MustEvict(key[c])
    /\ \E v \in Victims \cap Present :
           evictedKey' = [evictedKey EXCEPT ![c] = v]
    /\ UNCHANGED <<strategy, cache, truth, place, key, value>>

\* put's transaction, with v evicted (or NoKey for none); what the client got
\* is not looked at again.
Store(c, v) ==
    LET k == key[c] IN
    /\ entries' = Restrict(Set(k, NewEntry(value[c])),
                           (Present \cup {k}) \ {v})
    /\ accessOrder' = Append(Drop({v, k}), k)
    /\ key' = [key EXCEPT ![c] = NoKey]
    /\ value' = [value EXCEPT ![c] = 0]

(* Faulty: the key noted first is kept. *)
PutEvicting_KeepsNote(c) ==
    /\ Goto(c, "putting", "telling")
    /\ MustEvict(key[c])
    /\ \E v \in Victims :
           /\ Store(c, v)
           /\ evictedKey' = [evictedKey EXCEPT
                  ![c] = IF v \in Present /\ @ = NoKey THEN v ELSE @]
    /\ UNCHANGED <<strategy, truth>>

\* put at capacity with a new key.
PutEvicting(c) ==
    /\ Goto(c, "putting", "telling")
    /\ MustEvict(key[c])
    /\ \E v \in Victims :
           /\ Store(c, v)
           /\ evictedKey' = [evictedKey EXCEPT
                  ![c] = IF v \in Present THEN v ELSE @]
    /\ UNCHANGED <<strategy, truth>>

\* put below capacity, or of a key that is present, or with nothing to evict.
PutPlain(c) ==
    /\ Goto(c, "putting", "telling")
    /\ MustEvict(key[c]) => Victims = {}
    /\ Store(c, NoKey)
    /\ UNCHANGED <<strategy, truth, evictedKey>>

\* onEviction(evictedKey), if it is set, then onPut; put and getOrPut return.
Tell(c) ==
    /\ Goto(c, "telling", "idle")
    /\ evictedKey' = [evictedKey EXCEPT ![c] = NoKey]
    /\ UNCHANGED <<strategy, cache, truth, key, value>>

\* remove, invalidate (one key), invalidateAll (any), clear (all of them): the
\* keys in S that are present go.
Invalidate(S) ==
    /\ Keep(Keys \ S)
    /\ accessOrder' = Drop(S)
    /\ UNCHANGED <<strategy, truth, client>>

CleanUp ==
    Invalidate({k \in Present : IsExpired(entries[k])})

\* The source changes; the cache is not told.
Update ==
    /\ truth < MaxVersion
    /\ truth' = truth + 1
    /\ UNCHANGED <<strategy, cache, client>>

\* The clock moves.
Tick ==
    /\ entries' = [k \in Present |->
           [entries[k] EXCEPT !.age  = Older(@),
                              !.idle = IF strategy = "LRU" THEN Older(@) ELSE @]]
    /\ UNCHANGED <<strategy, accessOrder, truth, client>>

Next ==
    \/ \E c \in Clients :
           \/ \E k \in Keys : GetHit(c, k) \/ GetMiss(c, k) \/ Put(c, k)
           \/ PutAttempt(c)
           \/ Load(c) \/ LoadFails(c)
           \/ PutEvicting(c) \/ PutPlain(c)
           \/ Tell(c)
    \/ \E S \in SUBSET Present : Invalidate(S)
    \/ CleanUp
    \/ Update
    \/ Tick

(* Time passes; a loader or a listener may never return. *)
Fairness == WF_vars(Tick)

Spec == Init /\ [][Next]_vars /\ Fairness

-----------------------------------------------------------------------------
(* The types; a key is noted as evicted only by a put that is under way. *)
TypeOK ==
    /\ strategy \in Strategies
    /\ Present \subseteq Keys
    /\ entries \in [Present -> Entry]
    /\ accessOrder \in Seq(Keys)
    /\ truth \in Versions
    /\ place \in [Clients -> Places]
    /\ key \in [Clients -> Keys \cup {NoKey}]
    /\ value \in [Clients -> Versions]
    /\ evictedKey \in [Clients -> Keys \cup {NoKey}]
    /\ \A c \in Clients :
           evictedKey[c] # NoKey => place[c] \in {"putting", "telling"}

(* The map never holds more than maxSize entries, and the access order lists
   exactly its keys, each once: through eviction, replacement, removal, the
   expiry that get notices and the one cleanUp looks for. *)
Bookkeeping ==
    /\ TypeOK
    /\ Cardinality(Present) <= MaxSize
    /\ \A k \in Keys :
           Cardinality({i \in DOMAIN accessOrder : accessOrder[i] = k})
               = IF k \in Present THEN 1 ELSE 0

\* c's put commits.
StoreStep(c) == place[c] = "putting" /\ place'[c] = "telling"

(* What a put throws out is what the strategy names, judged by the entries'
   own times and counts: under LRU nothing was left unused longer, although
   evictOne only looks at the head of the access order; under LFU nothing was
   used less; under FIFO nothing is older.  At most one entry goes. *)
EvictsByStrategy ==
    [][\A c \in Clients : StoreStep(c) =>
           \A k \in Present \ DOMAIN entries' : \A j \in Present \ {k} :
               /\ j \in DOMAIN entries'
               /\ CASE strategy = "LRU"  -> entries[k].idle >= entries[j].idle
                    [] strategy = "LFU"  -> entries[k].count <= entries[j].count
                    [] strategy = "FIFO" -> entries[k].age >= entries[j].age]_vars

(* A put that evicts tells its listeners the key that went, whatever an
   attempt the STM rolled back had noted before. *)
TellsTheVictim ==
    [][\A c \in Clients : StoreStep(c) =>
           \A k \in Present \ DOMAIN entries' : evictedKey'[c] = k]_vars

(* Once the source is quiet, the cache in the end holds nothing out of date
   that a get would still return: the time to live ends every entry put from
   an old load, however often it is read, and a load that was under way puts
   at most one more. *)
EventuallyFresh ==
    <>[](\A k \in Present : ~IsExpired(entries[k]) => entries[k].version = truth)
=============================================================================
