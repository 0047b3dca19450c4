---------------------------- MODULE CacheProofs ----------------------------
(***************************************************************************)
(* Theorems about Cache, for any number of clients and keys, any size,     *)
(* time to live and strategy.                                              *)
(***************************************************************************)
EXTENDS Cache, FiniteSetTheorems, SequenceTheorems, NaturalsInduction,
        WellFoundedInduction, TLAPS

-----------------------------------------------------------------------------
(* Sequences without repetitions *)

Distinct(seq) == \A i, j \in DOMAIN seq : seq[i] = seq[j] => i = j
Elements(seq) == {seq[i] : i \in DOMAIN seq}

\* Without(seq, S) reads seq at the places that are not in S, from first to last.
LEMMA WithoutReads ==
    ASSUME NEW seq \in Seq(Keys), NEW S
    PROVE  \E m \in Nat : \E f \in [1..m -> 1..Len(seq)] :
               /\ Without(seq, S) = [n \in 1..m |-> seq[f[n]]]
               /\ \A n \in 1..m : seq[f[n]] \notin S
               /\ \A i \in 1..Len(seq) : seq[i] \notin S => \E n \in 1..m : f[n] = i
               /\ \A n, o \in 1..m : n < o => f[n] < f[o]
  <1> DEFINE kept    == {i \in DOMAIN seq : seq[i] \notin S}
             upTo(i) == {j \in kept : j <= i}
             rank(i) == Cardinality(upTo(i))
             N       == Cardinality(kept)
             ranks   == [i \in kept |-> rank(i)]
             f       == [n \in 1..N |-> CHOOSE i \in kept : rank(i) = n]
  <1>1. Len(seq) \in Nat /\ DOMAIN seq = 1..Len(seq)
    BY LenProperties
  <1>2. IsFiniteSet(kept) /\ N \in Nat
    <2>1. IsFiniteSet(1..Len(seq))
      BY <1>1, FS_Interval
    <2>2. kept \in SUBSET (1..Len(seq))
      BY <1>1
    <2> HIDE DEF kept
    <2> QED  BY <2>1, <2>2, FS_Subset, FS_CardinalityType
  <1>3. ASSUME NEW i \in kept
        PROVE  IsFiniteSet(upTo(i)) /\ rank(i) \in 1..N
    <2>1. upTo(i) \in SUBSET kept /\ i \in upTo(i)
      BY <1>1
    <2> HIDE DEF kept, upTo
    <2>2. IsFiniteSet(upTo(i)) /\ rank(i) <= N
      BY <1>2, <2>1, FS_Subset
    <2>3. rank(i) \in Nat /\ rank(i) # 0
      BY <2>1, <2>2, FS_CardinalityType, FS_EmptySet
    <2> QED  BY <1>2, <2>2, <2>3
  <1>4. ASSUME NEW i \in kept, NEW j \in kept, i < j
        PROVE  rank(i) < rank(j)
    <2>1. upTo(i) \in SUBSET upTo(j) /\ j \in upTo(j) /\ j \notin upTo(i)
      BY <1>1, <1>4
    <2> HIDE DEF kept, upTo
    <2>2. IsFiniteSet(upTo(j)) /\ rank(i) \in Nat /\ rank(j) \in Nat
      BY <1>2, <1>3
    <2>3. rank(i) <= rank(j) /\ rank(i) # rank(j)
      BY <2>1, <2>2, FS_Subset
    <2> QED  BY <2>2, <2>3
  <1>5. kept \subseteq Nat
    BY <1>1
  <1> HIDE DEF kept, upTo
  <1>6. ASSUME NEW n \in 1..N
        PROVE  \E i \in kept : rank(i) = n
    <2>1. ranks \in Injection(kept, 1..N)
      BY <1>3, <1>4, <1>5 DEF Injection, IsInjective
    <2>2. IsFiniteSet(1..N) /\ Cardinality(1..N) = N
      BY <1>2, FS_Interval
    <2>3. ranks \in Surjection(kept, 1..N)
      BY <2>1, <2>2, FS_Injection
    <2> QED  BY <2>3 DEF Surjection
  <1>7. \A n \in 1..N : f[n] \in kept /\ rank(f[n]) = n
    BY <1>6
  <1>8. \A i \in kept : f[rank(i)] = i
    <2> SUFFICES ASSUME NEW i \in kept  PROVE f[rank(i)] = i
      OBVIOUS
    <2>1. rank(i) \in 1..N
      BY <1>3
    <2>2. f[rank(i)] \in kept /\ rank(f[rank(i)]) = rank(i)
      BY <1>7, <2>1
    <2> HIDE DEF f
    <2>3. f[rank(i)] \in Nat /\ i \in Nat
      BY <1>5, <2>2
    <2> QED  BY <1>4, <1>3, <2>2, <2>3
  <1>9. Without(seq, S) = [n \in 1..N |-> seq[f[n]]]
    BY DEF Without, kept, upTo
  <1>10. f \in [1..N -> 1..Len(seq)] /\ \A n \in 1..N : seq[f[n]] \notin S
    BY <1>1, <1>7 DEF kept
  <1>11. \A i \in 1..Len(seq) : seq[i] \notin S => \E n \in 1..N : f[n] = i
    BY <1>1, <1>3, <1>8 DEF kept
  <1>12. ASSUME NEW n \in 1..N, NEW o \in 1..N, n < o
         PROVE  f[n] < f[o]
    <2>1. f[n] \in kept /\ f[o] \in kept /\ rank(f[n]) = n /\ rank(f[o]) = o
      BY <1>7
    <2> HIDE DEF f
    <2>2. f[n] \in Nat /\ f[o] \in Nat
      BY <1>5, <2>1
    <2>3. ~ f[o] < f[n]
      BY <1>4, <1>12, <2>1
    <2>4. f[n] # f[o]
      BY <1>12, <2>1
    <2> QED  BY <2>2, <2>3, <2>4
  <1> QED  BY <1>2, <1>9, <1>10, <1>11, <1>12

\* Two elements of Without(seq, S) come in the order they have in seq.
LEMMA WithoutProperties ==
    ASSUME NEW seq \in Seq(Keys), NEW S, Distinct(seq)
    PROVE  /\ Without(seq, S) \in Seq(Keys)
           /\ Distinct(Without(seq, S))
           /\ Elements(Without(seq, S)) = Elements(seq) \ S
           /\ \A n, o \in DOMAIN Without(seq, S) : n < o =>
                  \E i, j \in DOMAIN seq :
                      /\ i < j
                      /\ Without(seq, S)[n] = seq[i]
                      /\ Without(seq, S)[o] = seq[j]
  <1>0. PICK m \in Nat : \E f \in [1..m -> 1..Len(seq)] :
             /\ Without(seq, S) = [n \in 1..m |-> seq[f[n]]]
             /\ \A n \in 1..m : seq[f[n]] \notin S
             /\ \A i \in 1..Len(seq) : seq[i] \notin S => \E n \in 1..m : f[n] = i
             /\ \A n, o \in 1..m : n < o => f[n] < f[o]
    BY WithoutReads
  <1>1. PICK f \in [1..m -> 1..Len(seq)] :
             /\ Without(seq, S) = [n \in 1..m |-> seq[f[n]]]
             /\ \A n \in 1..m : seq[f[n]] \notin S
             /\ \A i \in 1..Len(seq) : seq[i] \notin S => \E n \in 1..m : f[n] = i
             /\ \A n, o \in 1..m : n < o => f[n] < f[o]
    BY <1>0
  <1>2. DOMAIN seq = 1..Len(seq) /\ \A i \in 1..Len(seq) : seq[i] \in Keys
    BY LenProperties
  <1>3. Without(seq, S) \in Seq(Keys)
    <2>1. \A n \in 1..m : seq[f[n]] \in Keys
      BY <1>2
    <2>2. [n \in 1..m |-> seq[f[n]]] \in Seq(Keys)
      BY <2>1, IsASeq
    <2> QED  BY <1>1, <2>2
  <1>4. Distinct(Without(seq, S))
    BY <1>1, <1>2 DEF Distinct
  <1>5. Elements(Without(seq, S)) = Elements(seq) \ S
    <2> DEFINE t == Without(seq, S)
    <2>1. ASSUME NEW x \in Elements(t)
          PROVE  x \in Elements(seq) \ S
      BY <1>1, <1>2 DEF Elements
    <2>2. ASSUME NEW x \in Elements(seq) \ S
          PROVE  x \in Elements(t)
      <3>1. PICK i \in 1..Len(seq) : x = seq[i]
        BY <1>2 DEF Elements
      <3>2. PICK n \in 1..m : f[n] = i
        BY <1>1, <2>2, <3>1
      <3> QED  BY <1>1, <3>1, <3>2 DEF Elements
    <2> QED  BY <2>1, <2>2
  <1> QED  BY <1>1, <1>2, <1>3, <1>4, <1>5

\* Append, seen from the elements.
LEMMA AppendElement ==
    ASSUME NEW seq \in Seq(Keys), NEW k \in Keys \ Elements(seq), Distinct(seq)
    PROVE  /\ Append(seq, k) \in Seq(Keys)
           /\ Distinct(Append(seq, k))
           /\ Elements(Append(seq, k)) = Elements(seq) \cup {k}
           /\ \A n, o \in DOMAIN Append(seq, k) : n < o =>
                  /\ n \in DOMAIN seq
                  /\ Append(seq, k)[n] = seq[n]
                  /\ \/ Append(seq, k)[o] = k
                     \/ o \in DOMAIN seq /\ Append(seq, k)[o] = seq[o]
  <1>1. Len(seq) \in Nat /\ DOMAIN seq = 1..Len(seq)
    BY LenProperties
  <1>2. /\ Append(seq, k) \in Seq(Keys)
        /\ DOMAIN Append(seq, k) = 1..(Len(seq) + 1)
        /\ \A i \in 1..Len(seq) : Append(seq, k)[i] = seq[i]
        /\ Append(seq, k)[Len(seq) + 1] = k
    BY AppendProperties, LenProperties
  <1>3. \A i \in 1..(Len(seq) + 1) : i = Len(seq) + 1 \/ i \in 1..Len(seq)
    BY <1>1
  <1>4. Distinct(Append(seq, k))
    BY <1>1, <1>2, <1>3 DEF Distinct, Elements
  <1>5. Elements(Append(seq, k)) = Elements(seq) \cup {k}
    <2>1. 1..Len(seq) \subseteq 1..(Len(seq) + 1) /\ Len(seq) + 1 \in 1..(Len(seq) + 1)
      BY <1>1
    <2> QED  BY <1>1, <1>2, <1>3, <2>1 DEF Elements
  <1>6. \A n, o \in 1..(Len(seq) + 1) : n < o => n \in 1..Len(seq)
    BY <1>1
  <1> QED  BY <1>1, <1>2, <1>3, <1>4, <1>5, <1>6

-----------------------------------------------------------------------------
(* Keys, and the listeners of evictions *)

KeysInv ==
    /\ Present \subseteq Keys
    /\ place \in [Clients -> Places]
    /\ key \in [Clients -> Keys \cup {NoKey}]
    /\ evictedKey \in [Clients -> Keys \cup {NoKey}]
    /\ \A c \in Clients : place[c] \in {"loading", "putting"} => key[c] \in Keys

LEMMA InitKeys == Init => KeysInv
  BY DEF Init, KeysInv, Present, Places

\* The keys a put leaves behind.
LEMMA StoreDomain ==
    ASSUME NEW c \in Clients, NEW v, Store(c, v)
    PROVE  DOMAIN entries' = (Present \cup {key[c]}) \ {v}
  BY DEF Store, Restrict, Set, Present

\* The steps of client c that do not commit a put.
LEMMA ClientKeys ==
    ASSUME KeysInv, NEW c \in Clients,
           \/ \E k \in Keys : GetHit(c, k) \/ GetMiss(c, k) \/ Put(c, k)
           \/ PutAttempt(c) \/ Load(c) \/ LoadFails(c) \/ Tell(c)
    PROVE  KeysInv' /\ \A d \in Clients : ~ StoreStep(d)
  <1> USE DEF KeysInv, Goto, Places, StoreStep, client
  <1>1. ASSUME NEW k \in Keys, GetHit(c, k)
        PROVE  KeysInv' /\ \A d \in Clients : ~ StoreStep(d)
    <2>1. Present' = Present \cup {k}
      BY <1>1 DEF GetHit, Set, Present
    <2>2. QED  BY <1>1, <2>1 DEF GetHit
  <1>2. ASSUME NEW k \in Keys, GetMiss(c, k)
        PROVE  KeysInv' /\ \A d \in Clients : ~ StoreStep(d)
    <2>1. Present' \subseteq Present
      BY <1>2 DEF GetMiss, Keep, Restrict, Present
    <2>2. QED  BY <1>2, <2>1 DEF GetMiss
  <1>3. ASSUME NEW k \in Keys, Put(c, k)
        PROVE  KeysInv' /\ \A d \in Clients : ~ StoreStep(d)
    BY <1>3 DEF Put, cache, Present
  <1>4. CASE PutAttempt(c)
    BY <1>4 DEF PutAttempt, cache, Present
  <1>5. CASE Load(c)
    BY <1>5 DEF Load, cache, Present
  <1>6. CASE LoadFails(c)
    BY <1>6 DEF LoadFails, cache, Present
  <1>7. CASE Tell(c)
    BY <1>7 DEF Tell, cache, Present
  <1> QED  BY <1>1, <1>2, <1>3, <1>4, <1>5, <1>6, <1>7

\* The steps that commit a put.
LEMMA StoreKeys ==
    ASSUME KeysInv, NEW c \in Clients, PutEvicting(c) \/ PutPlain(c)
    PROVE  /\ KeysInv'
           /\ \A d \in Clients : StoreStep(d) => d = c
           /\ \A k \in Present \ DOMAIN entries' : evictedKey'[c] = k
  <1>1. place[c] = "putting" /\ place' = [place EXCEPT ![c] = "telling"]
    BY DEF PutEvicting, PutPlain, Goto
  <1>2. key[c] \in Keys
    BY <1>1 DEF KeysInv
  <1>3. PICK v : /\ Store(c, v)
                 /\ \/ evictedKey' = [evictedKey EXCEPT
                           ![c] = IF v \in Present THEN v ELSE @]
                    \/ v = NoKey /\ evictedKey' = evictedKey
    BY DEF PutEvicting, PutPlain
  <1>4. DOMAIN entries' = (Present \cup {key[c]}) \ {v}
    BY <1>3, StoreDomain
  <1>5. key' = [key EXCEPT ![c] = NoKey]
    BY <1>3 DEF Store
  <1>6. evictedKey' \in [Clients -> Keys \cup {NoKey}]
    BY <1>3 DEF KeysInv
  <1>7. KeysInv'
    <2>1. Present' \subseteq Keys
      BY <1>2, <1>4 DEF KeysInv, Present
    <2>2. /\ place' \in [Clients -> Places]
          /\ key' \in [Clients -> Keys \cup {NoKey}]
      BY <1>1, <1>5 DEF KeysInv, Places
    <2>3. \A d \in Clients : place'[d] \in {"loading", "putting"} => key'[d] \in Keys
      BY <1>1, <1>5 DEF KeysInv
    <2> QED  BY <1>6, <2>1, <2>2, <2>3 DEF KeysInv
  <1>8. \A d \in Clients : StoreStep(d) => d = c
    BY <1>1 DEF StoreStep, KeysInv
  <1>9. ASSUME NEW k \in Present \ DOMAIN entries'
        PROVE  evictedKey'[c] = k
    <2>1. k = v /\ v \in Present /\ v # NoKey
      BY <1>4, <1>9, ConfigAssumption DEF KeysInv
    <2>2. QED  BY <1>3, <2>1 DEF KeysInv
  <1> QED  BY <1>7, <1>8, <1>9

\* Every other step.
LEMMA OtherKeys ==
    ASSUME KeysInv,
           \/ \E S \in SUBSET Present : Invalidate(S)
           \/ CleanUp \/ Update \/ Tick \/ UNCHANGED vars
    PROVE  KeysInv' /\ \A d \in Clients : ~ StoreStep(d)
  <1> USE DEF KeysInv, Present, StoreStep, client
  <1>1. ASSUME NEW S, Invalidate(S)
        PROVE  KeysInv' /\ \A d \in Clients : ~ StoreStep(d)
    BY <1>1 DEF Invalidate, Keep, Restrict
  <1>2. CASE CleanUp
    BY <1>1, <1>2 DEF CleanUp
  <1>3. CASE Update
    BY <1>3 DEF Update, cache
  <1>4. CASE Tick
    BY <1>4 DEF Tick
  <1>5. CASE UNCHANGED vars
    BY <1>5 DEF vars, cache
  <1> QED  BY <1>1, <1>2, <1>3, <1>4, <1>5

LEMMA StepKeys ==
    ASSUME KeysInv, [Next]_vars
    PROVE  /\ KeysInv'
           /\ \A c \in Clients : StoreStep(c) =>
                  \A k \in Present \ DOMAIN entries' : evictedKey'[c] = k
  <1>1. CASE \E c \in Clients : PutEvicting(c) \/ PutPlain(c)
    BY <1>1, StoreKeys
  <1>2. CASE \E c \in Clients :
                 \/ \E k \in Keys : GetHit(c, k) \/ GetMiss(c, k) \/ Put(c, k)
                 \/ PutAttempt(c) \/ Load(c) \/ LoadFails(c) \/ Tell(c)
    BY <1>2, ClientKeys
  <1>3. CASE \/ \E S \in SUBSET Present : Invalidate(S)
             \/ CleanUp \/ Update \/ Tick \/ UNCHANGED vars
    BY <1>3, OtherKeys
  <1> QED  BY <1>1, <1>2, <1>3 DEF Next

\* Cache.put announces the key it evicts, for every strategy and every number
\* of clients whose transactions interleave with its own and its retries.
THEOREM TellsTheVictimHolds == Spec => TellsTheVictim
  <1>1. Init => KeysInv
    BY InitKeys
  <1>2. KeysInv /\ [Next]_vars => KeysInv'
    BY StepKeys
  <1>3. KeysInv /\ [Next]_vars =>
            [\A c \in Clients : StoreStep(c) =>
                 \A k \in Present \ DOMAIN entries' : evictedKey'[c] = k]_vars
    BY StepKeys
  <1> QED  BY <1>1, <1>2, <1>3, PTL DEF Spec, TellsTheVictim

-----------------------------------------------------------------------------
(* The inductive invariant *)

\* The access order lists the keys that are present, each once; under LRU the one
\* that was left unused longest comes first.
OrderInv ==
    /\ Distinct(accessOrder)
    /\ Elements(accessOrder) = Present
    /\ strategy = "LRU" => \A i, j \in DOMAIN accessOrder :
           i < j => entries[accessOrder[i]].idle >= entries[accessOrder[j]].idle

IInv ==
    /\ TypeOK
    /\ KeysInv
    /\ OrderInv
    /\ IsFiniteSet(Present) /\ Cardinality(Present) <= MaxSize

LEMMA InitIInv == Init => IInv
  <1> SUFFICES ASSUME Init  PROVE IInv
    OBVIOUS
  <1>1. Present = {} /\ accessOrder = <<>> /\ DOMAIN accessOrder = {}
    BY DEF Init, Present
  <1>2. TypeOK
    BY <1>1, ConfigAssumption DEF Init, TypeOK, Places, Versions
  <1>3. OrderInv
    BY <1>1 DEF OrderInv, Distinct, Elements
  <1>4. IsFiniteSet(Present) /\ Cardinality(Present) <= MaxSize
    BY <1>1, FS_EmptySet, ConfigAssumption
  <1> QED  BY <1>2, <1>3, <1>4, InitKeys DEF IInv

\* What a step that only takes keys out does to the access order.
LEMMA DropStep ==
    ASSUME IInv, NEW S, accessOrder' = Drop(S), strategy' = strategy,
           Present' = Present \ S, \A j \in Present' : entries'[j] = entries[j]
    PROVE  accessOrder' \in Seq(Keys) /\ OrderInv'
  <1>1. /\ accessOrder \in Seq(Keys) /\ Distinct(accessOrder)
        /\ Elements(accessOrder) = Present
    BY DEF IInv, TypeOK, OrderInv
  <1>2. /\ accessOrder' \in Seq(Keys) /\ Distinct(accessOrder')
        /\ Elements(accessOrder') = Present'
        /\ \A n, o \in DOMAIN accessOrder' : n < o =>
               \E i, j \in DOMAIN accessOrder :
                   /\ i < j
                   /\ accessOrder'[n] = accessOrder[i]
                   /\ accessOrder'[o] = accessOrder[j]
    BY <1>1, WithoutProperties DEF Drop
  <1>3. ASSUME strategy' = "LRU",
               NEW n \in DOMAIN accessOrder', NEW o \in DOMAIN accessOrder', n < o
        PROVE  entries'[accessOrder'[n]].idle >= entries'[accessOrder'[o]].idle
    <2>1. accessOrder'[n] \in Present' /\ accessOrder'[o] \in Present'
      BY <1>2 DEF Elements
    <2>2. PICK i \in DOMAIN accessOrder, j \in DOMAIN accessOrder :
               i < j /\ accessOrder'[n] = accessOrder[i] /\ accessOrder'[o] = accessOrder[j]
      BY <1>2, <1>3
    <2> QED  BY <1>3, <2>1, <2>2 DEF IInv, OrderInv
  <1> QED  BY <1>2, <1>3 DEF OrderInv

\* What a step does to it that puts k at its end.
LEMMA AppendStep ==
    ASSUME IInv, NEW S, NEW k \in Keys \cap S,
           accessOrder' = Append(Drop(S), k), strategy' = strategy,
           Present' = (Present \ S) \cup {k}, entries'[k].idle = 0,
           \A j \in Present \ S : entries'[j] = entries[j]
    PROVE  accessOrder' \in Seq(Keys) /\ OrderInv'
  <1> DEFINE rest == Drop(S)
  <1>1. /\ accessOrder \in Seq(Keys) /\ Distinct(accessOrder)
        /\ Elements(accessOrder) = Present
    BY DEF IInv, TypeOK, OrderInv
  <1>2. /\ rest \in Seq(Keys) /\ Distinct(rest)
        /\ Elements(rest) = Present \ S
        /\ \A n, o \in DOMAIN rest : n < o =>
               \E i, j \in DOMAIN accessOrder :
                   i < j /\ rest[n] = accessOrder[i] /\ rest[o] = accessOrder[j]
    BY <1>1, WithoutProperties DEF Drop
  <1> HIDE DEF rest
  <1>3. accessOrder' = Append(rest, k)
    BY DEF rest
  <1>4. /\ accessOrder' \in Seq(Keys) /\ Distinct(accessOrder')
        /\ Elements(accessOrder') = Present'
        /\ \A n, o \in DOMAIN accessOrder' : n < o =>
               /\ n \in DOMAIN rest
               /\ accessOrder'[n] = rest[n]
               /\ \/ accessOrder'[o] = k
                  \/ o \in DOMAIN rest /\ accessOrder'[o] = rest[o]
    BY <1>2, <1>3, AppendElement
  <1>5. ASSUME strategy' = "LRU",
               NEW n \in DOMAIN accessOrder', NEW o \in DOMAIN accessOrder', n < o
        PROVE  entries'[accessOrder'[n]].idle >= entries'[accessOrder'[o]].idle
    <2>1. n \in DOMAIN rest /\ accessOrder'[n] = rest[n] /\ rest[n] \in Present \ S
      BY <1>2, <1>4, <1>5 DEF Elements
    <2>2. entries[rest[n]].idle \in Nat /\ entries'[rest[n]] = entries[rest[n]]
      BY <2>1, ConfigAssumption DEF IInv, TypeOK, Entry, Ages
    <2>3. CASE accessOrder'[o] = k
      BY <2>1, <2>2, <2>3
    <2>4. CASE o \in DOMAIN rest /\ accessOrder'[o] = rest[o]
      <3>1. rest[o] \in Present \ S
        BY <1>2, <2>4 DEF Elements
      <3>2. PICK i \in DOMAIN accessOrder, j \in DOMAIN accessOrder :
                 i < j /\ rest[n] = accessOrder[i] /\ rest[o] = accessOrder[j]
        BY <1>2, <1>5, <2>1, <2>4
      <3> QED  BY <1>5, <2>1, <2>4, <3>1, <3>2 DEF IInv, OrderInv
    <2> QED  BY <1>4, <1>5, <2>3, <2>4
  <1> QED  BY <1>4, <1>5 DEF OrderInv

-----------------------------------------------------------------------------
(* The victims *)

LEMMA LeastElement ==
    ASSUME NEW T \in SUBSET Nat, T # {}
    PROVE  \E m \in T : \A n \in T : m <= n
  <1> DEFINE Less == {ss \in Nat \X Nat : ss[1] < ss[2]}
  <1>1. IsWellFoundedOn(Less, Nat)
    BY NatLessThanWellFounded, Zenon DEF OpToRel
  <1>2. \E m \in T : \A n \in T : ~ (<<n, m>> \in Less)
    <2> HIDE DEF Less
    <2> QED  BY <1>1, WFMin
  <1>3. PICK m \in T : \A n \in T : ~ (<<n, m>> \in Less)
    BY <1>2
  <1>4. ASSUME NEW n \in T  PROVE m <= n
    <2>1. m \in Nat /\ n \in Nat /\ ~ (<<n, m>> \in Less)
      BY <1>3
    <2>2. n < m => <<n, m>> \in Less
      BY <2>1
    <2> QED  BY <2>1, <2>2
  <1> QED  BY <1>4

\* evictOne finds a key unless the cache is empty, and one that is present.
LEMMA VictimsArePresent ==
    ASSUME IInv
    PROVE  Victims \subseteq Present /\ (Present # {} => Victims # {})
  <1>1. /\ accessOrder \in Seq(Keys) /\ Elements(accessOrder) = Present
        /\ strategy \in {"LRU", "LFU", "FIFO"}
        /\ \A k \in Present : entries[k].count \in Nat /\ entries[k].age \in 0..(TTL + 1)
    BY ConfigAssumption DEF IInv, TypeOK, OrderInv, Strategies, Entry, Ages
  <1>2. CASE strategy = "LRU"
    <2>1. Victims = IF accessOrder = <<>> THEN {} ELSE {Head(accessOrder)}
      BY <1>2 DEF Victims
    <2>2. DOMAIN accessOrder = 1..Len(accessOrder) /\ Len(accessOrder) \in Nat
      BY <1>1, LenProperties
    <2>3. accessOrder # <<>> => Head(accessOrder) \in Elements(accessOrder)
      <3>1. accessOrder # <<>> =>
                /\ 1 \in DOMAIN accessOrder
                /\ Head(accessOrder) = accessOrder[1]
        BY <1>1, <2>2, EmptySeq
      <3> QED  BY <3>1 DEF Elements
    <2>4. accessOrder = <<>> => Elements(accessOrder) = {}
      BY DEF Elements
    <2> QED  BY <1>1, <2>1, <2>3, <2>4
  <1>3. CASE strategy = "LFU"
    <2>1. Victims = {k \in Present : \A j \in Present : entries[k].count <= entries[j].count}
      BY <1>3 DEF Victims
    <2>2. ASSUME Present # {}  PROVE Victims # {}
      <3> DEFINE T == {entries[k].count : k \in Present}
      <3>0. T \subseteq Nat /\ T # {}
        BY <1>1, <2>2
      <3>1. PICK m \in T : \A n \in T : m <= n
        BY <3>0, LeastElement
      <3> QED  BY <2>1, <3>1
    <2> QED  BY <2>1, <2>2
  <1>4. CASE strategy = "FIFO"
    <2>1. Victims = {k \in Present : \A j \in Present : entries[k].age >= entries[j].age}
      BY <1>4 DEF Victims
    <2>2. ASSUME Present # {}  PROVE Victims # {}
      <3> DEFINE T == {TTL + 1 - entries[k].age : k \in Present}
      <3>0. T \subseteq Nat /\ T # {}
        BY <1>1, <2>2, ConfigAssumption
      <3>1. PICK m \in T : \A n \in T : m <= n
        BY <3>0, LeastElement
      <3>2. PICK k \in Present : m = TTL + 1 - entries[k].age
        BY <3>1
      <3>3. ASSUME NEW j \in Present  PROVE entries[k].age >= entries[j].age
        <4>1. TTL + 1 - entries[k].age <= TTL + 1 - entries[j].age
          BY <3>1, <3>2
        <4>2. entries[k].age \in Int /\ entries[j].age \in Int /\ TTL \in Int
          BY <1>1, ConfigAssumption
        <4> QED  BY <4>1, <4>2
      <3> QED  BY <2>1, <3>3
    <2> QED  BY <2>1, <2>2
  <1> QED  BY <1>1, <1>2, <1>3, <1>4

\* A put that stores with v in the place of a victim.
LEMMA PutEvictsOne ==
    ASSUME IInv, NEW c \in Clients, PutEvicting(c) \/ PutPlain(c)
    PROVE  /\ place[c] = "putting" /\ place' = [place EXCEPT ![c] = "telling"]
           /\ key[c] \in Keys /\ strategy' = strategy
           /\ evictedKey' \in [Clients -> Keys \cup {NoKey}]
           /\ \A d \in Clients \ {c} : evictedKey'[d] = evictedKey[d]
           /\ \E v \in Victims \cup {NoKey} :
                  /\ Store(c, v)
                  /\ IF v \in Victims
                     THEN key[c] \notin Present
                     ELSE key[c] \in Present \/ Cardinality(Present) < MaxSize
  <1>1. place[c] = "putting" /\ place' = [place EXCEPT ![c] = "telling"] /\ strategy' = strategy
    BY DEF PutEvicting, PutPlain, Goto
  <1>2. key[c] \in Keys
    BY <1>1 DEF IInv, KeysInv
  <1>3. Victims \subseteq Present /\ (Present # {} => Victims # {}) /\ Present \subseteq Keys
    BY VictimsArePresent DEF IInv, TypeOK
  <1>4. IsFiniteSet(Present) /\ Cardinality(Present) \in Nat
    BY FS_CardinalityType DEF IInv
  <1>5. CASE PutEvicting(c)
    <2>1. PICK v \in Victims :
               /\ Store(c, v)
               /\ evictedKey' = [evictedKey EXCEPT ![c] = IF v \in Present THEN v ELSE @]
      BY <1>5 DEF PutEvicting
    <2>2. key[c] \notin Present
      BY <1>5 DEF PutEvicting, MustEvict
    <2>3. evictedKey \in [Clients -> Keys \cup {NoKey}]
      BY DEF IInv, KeysInv
    <2> QED  BY <1>1, <1>2, <1>3, <2>1, <2>2, <2>3
  <1>6. CASE PutPlain(c)
    <2>1. Store(c, NoKey) /\ evictedKey' = evictedKey /\ (MustEvict(key[c]) => Victims = {})
      BY <1>6 DEF PutPlain
    <2>2. key[c] \in Present \/ Cardinality(Present) < MaxSize
      <3>1. CASE Present = {}
        BY <3>1, FS_EmptySet, ConfigAssumption
      <3>2. CASE Present # {}
        BY <1>3, <1>4, <2>1, <3>2, ConfigAssumption DEF MustEvict
      <3> QED  BY <3>1, <3>2
    <2>3. NoKey \notin Victims
      BY <1>3, ConfigAssumption
    <2> QED  BY <1>1, <1>2, <2>1, <2>2, <2>3 DEF IInv, KeysInv
  <1> QED  BY <1>5, <1>6

-----------------------------------------------------------------------------
(* The steps *)

\* What a put stores.
LEMMA Stored ==
    ASSUME IInv, NEW c \in Clients, key[c] \in Keys, strategy' = strategy,
           NEW v \in Victims \cup {NoKey}, Store(c, v),
           IF v \in Victims
           THEN key[c] \notin Present
           ELSE key[c] \in Present \/ Cardinality(Present) < MaxSize
    PROVE  /\ Present' = (Present \cup {key[c]}) \ {v} /\ v # key[c]
           /\ entries' \in [Present' -> Entry]
           /\ accessOrder' \in Seq(Keys) /\ OrderInv'
           /\ IsFiniteSet(Present') /\ Cardinality(Present') <= MaxSize
  <1> DEFINE k == key[c]
  <1>1. Victims \subseteq Present /\ Present \subseteq Keys /\ NoKey \notin Keys
    BY VictimsArePresent, ConfigAssumption DEF IInv, TypeOK
  <1>2. v # k
    BY <1>1
  <1>3. Present' = (Present \cup {k}) \ {v}
    BY StoreDomain DEF Present
  <1>4. /\ \A j \in Present \ {v, k} : entries'[j] = entries[j]
        /\ entries'[k] = NewEntry(value[c])
        /\ entries' = [j \in Present' |-> entries'[j]]
    BY <1>2, <1>3 DEF Store, Set, Restrict, Present
  <1>5. NewEntry(value[c]) \in Entry /\ NewEntry(value[c]).idle = 0
    <2>1. value[c] \in Versions
      BY DEF IInv, TypeOK
    <2> QED  BY <2>1, ConfigAssumption DEF NewEntry, Entry, Ages
  <1>6. entries' \in [Present' -> Entry]
    BY <1>3, <1>4, <1>5 DEF IInv, TypeOK
  <1>7. accessOrder' = Append(Drop({v, k}), k) /\ k \in Keys \cap {v, k}
    BY DEF Store
  <1>8. Present' = (Present \ {v, k}) \cup {k}
    BY <1>2, <1>3
  <1>9. accessOrder' \in Seq(Keys) /\ OrderInv'
    <2> HIDE DEF k
    <2> QED  BY <1>4, <1>5, <1>7, <1>8, AppendStep
  <1>10. IsFiniteSet(Present') /\ Cardinality(Present') <= MaxSize
    <2>1. IsFiniteSet(Present) /\ Cardinality(Present) \in Nat /\ Cardinality(Present) <= MaxSize
      BY FS_CardinalityType DEF IInv
    <2>2. /\ IsFiniteSet(Present \cup {k})
          /\ Cardinality(Present \cup {k}) =
                 IF k \in Present THEN Cardinality(Present) ELSE Cardinality(Present) + 1
      BY <2>1, FS_AddElement
    <2>3. /\ IsFiniteSet(Present')
          /\ Cardinality(Present') =
              IF v \in Present \cup {k} THEN Cardinality(Present \cup {k}) - 1
                                       ELSE Cardinality(Present \cup {k})
      BY <1>3, <2>2, FS_RemoveElement
    <2>4. CASE v \in Victims
      BY <1>1, <2>1, <2>2, <2>3, <2>4, ConfigAssumption
    <2>5. CASE v \notin Victims
      BY <1>1, <2>1, <2>2, <2>3, <2>5, ConfigAssumption
    <2> QED  BY <2>4, <2>5
  <1> QED  BY <1>2, <1>3, <1>6, <1>9, <1>10

LEMMA PutStep ==
    ASSUME IInv, NEW c \in Clients, PutEvicting(c) \/ PutPlain(c)
    PROVE  IInv'
  <1>1. /\ place[c] = "putting" /\ place' = [place EXCEPT ![c] = "telling"]
        /\ key[c] \in Keys /\ strategy' = strategy
        /\ evictedKey' \in [Clients -> Keys \cup {NoKey}]
        /\ \A d \in Clients \ {c} : evictedKey'[d] = evictedKey[d]
    BY PutEvictsOne
  <1>2. PICK v \in Victims \cup {NoKey} :
             /\ Store(c, v)
             /\ IF v \in Victims
                THEN key[c] \notin Present
                ELSE key[c] \in Present \/ Cardinality(Present) < MaxSize
    BY PutEvictsOne
  <1>3. /\ Present' = (Present \cup {key[c]}) \ {v}
        /\ entries' \in [Present' -> Entry]
        /\ accessOrder' \in Seq(Keys) /\ OrderInv'
        /\ IsFiniteSet(Present') /\ Cardinality(Present') <= MaxSize
    BY <1>1, <1>2, Stored
  <1>4. KeysInv'
    BY StoreKeys DEF IInv
  <1>5. TypeOK'
    <2>1. truth' = truth
      BY DEF PutEvicting, PutPlain
    <2>2. key' = [key EXCEPT ![c] = NoKey] /\ value' = [value EXCEPT ![c] = 0]
      BY <1>2 DEF Store
    <2>3. value' \in [Clients -> Versions]
      BY <2>2, ConfigAssumption DEF IInv, TypeOK, Versions
    <2>4. \A d \in Clients : evictedKey'[d] # NoKey => place'[d] \in {"putting", "telling"}
      BY <1>1 DEF IInv, TypeOK
    <2> QED  BY <1>1, <1>3, <1>4, <2>1, <2>3, <2>4 DEF IInv, KeysInv, TypeOK
  <1> QED  BY <1>3, <1>4, <1>5 DEF IInv

\* A step that only takes the keys in S out, and leaves the clients to KeysInv.
LEMMA RemovalStep ==
    ASSUME IInv, KeysInv', NEW S, Keep(Keys \ S), accessOrder' = Drop(S),
           UNCHANGED <<strategy, truth, value, evictedKey>>,
           \A d \in Clients : evictedKey[d] # NoKey => place'[d] \in {"putting", "telling"}
    PROVE  IInv'
  <1>1. Present' = Present \ S /\ entries' = [j \in Present' |-> entries[j]]
    BY DEF Keep, Restrict, Present, IInv, TypeOK
  <1>2. entries' \in [Present' -> Entry]
    BY <1>1 DEF IInv, TypeOK
  <1>3. accessOrder' \in Seq(Keys) /\ OrderInv'
    BY <1>1, DropStep
  <1>4. IsFiniteSet(Present') /\ Cardinality(Present') <= MaxSize
    <2>1. IsFiniteSet(Present) /\ Cardinality(Present) \in Nat
      BY FS_CardinalityType DEF IInv
    <2>2. IsFiniteSet(Present') /\ Cardinality(Present') <= Cardinality(Present)
      BY <1>1, <2>1, FS_Subset
    <2> QED  BY <2>1, <2>2, FS_CardinalityType, ConfigAssumption DEF IInv
  <1>5. TypeOK'
    BY <1>2, <1>3 DEF IInv, TypeOK, KeysInv
  <1> QED  BY <1>3, <1>4, <1>5 DEF IInv

LEMMA HitStep ==
    ASSUME IInv, NEW c \in Clients, NEW k \in Keys, GetHit(c, k)
    PROVE  IInv'
  <1>1. /\ k \in Present /\ entries' = Set(k, Accessed(entries[k]))
        /\ accessOrder' = Append(Drop({k}), k)
        /\ UNCHANGED <<strategy, truth, client>>
    BY DEF GetHit, MoveToEnd
  <1>2. /\ entries[k] \in Entry
        /\ Accessed(entries[k]) \in Entry /\ Accessed(entries[k]).idle = 0
    <2>1. entries[k] \in Entry
      BY <1>1 DEF IInv, TypeOK
    <2> DEFINE n == IF strategy = "LFU" /\ entries[k].count < MaxCount
                    THEN entries[k].count + 1 ELSE entries[k].count
    <2>2. n \in 0..MaxCount /\ 0 \in Ages
      BY <2>1, ConfigAssumption DEF Entry, Ages
    <2>3. Accessed(entries[k]) = [version |-> entries[k].version, age |-> entries[k].age,
                                  idle |-> 0, count |-> n]
      <3> DEFINE e == [entries[k] EXCEPT !.idle = 0]
      <3>1. e = [version |-> entries[k].version, age |-> entries[k].age,
                 idle |-> 0, count |-> entries[k].count]
        BY <2>1 DEF Entry
      <3>2. Accessed(entries[k]) = [e EXCEPT !.count = n]
        BY <3>1 DEF Accessed
      <3> HIDE DEF n, e
      <3> QED  BY <3>1, <3>2
    <2> HIDE DEF n
    <2> QED  BY <2>1, <2>2, <2>3 DEF Entry
  <1>3. /\ Present' = Present /\ entries' \in [Present' -> Entry]
        /\ entries'[k].idle = 0 /\ \A j \in Present \ {k} : entries'[j] = entries[j]
    BY <1>1, <1>2 DEF Set, Present, IInv, TypeOK
  <1>4. accessOrder' \in Seq(Keys) /\ OrderInv'
    <2>1. Present' = (Present \ {k}) \cup {k} /\ k \in Keys \cap {k}
      BY <1>1, <1>3
    <2> QED  BY <1>1, <1>3, <2>1, AppendStep
  <1>5. KeysInv'
    BY ClientKeys DEF IInv
  <1> QED  BY <1>1, <1>3, <1>4, <1>5 DEF IInv, TypeOK, KeysInv, client

LEMMA TickStep ==
    ASSUME IInv, Tick
    PROVE  IInv'
  <1>1. UNCHANGED <<strategy, accessOrder, truth, client>> /\ Present' = Present
    BY DEF Tick, Present
  <1>2. ASSUME NEW k \in Present
        PROVE  /\ entries'[k] \in Entry
               /\ strategy = "LRU" => entries'[k].idle = Older(entries[k].idle)
    <2>1. entries[k] \in Entry
      BY DEF IInv, TypeOK
    <2> DEFINE n == IF strategy = "LRU" THEN Older(entries[k].idle) ELSE entries[k].idle
    <2>2. Older(entries[k].age) \in Ages /\ n \in Ages
      BY <2>1, ConfigAssumption DEF Entry, Ages, Older
    <2>3. entries'[k] = [version |-> entries[k].version, age |-> Older(entries[k].age),
                         idle |-> n, count |-> entries[k].count]
      BY <2>1 DEF Tick, Entry
    <2> HIDE DEF n
    <2>4. entries'[k] \in Entry /\ entries'[k].idle = n
      BY <2>1, <2>2, <2>3 DEF Entry
    <2> QED  BY <2>4 DEF n
  <1>3. entries' \in [Present' -> Entry]
    BY <1>1, <1>2 DEF Tick, Present
  <1>4. OrderInv'
    <2>1. ASSUME strategy = "LRU",
                 NEW i \in DOMAIN accessOrder, NEW j \in DOMAIN accessOrder, i < j
          PROVE  entries'[accessOrder[i]].idle >= entries'[accessOrder[j]].idle
      <3> DEFINE a == accessOrder[i]
                 b == accessOrder[j]
      <3>1. a \in Present /\ b \in Present /\ entries[a].idle >= entries[b].idle
        BY <2>1 DEF IInv, OrderInv, Elements
      <3>2. entries[a].idle \in Nat /\ entries[b].idle \in Nat
        BY <3>1, ConfigAssumption DEF IInv, TypeOK, Entry, Ages
      <3>3. Older(entries[a].idle) >= Older(entries[b].idle)
        BY <3>1, <3>2, ConfigAssumption DEF Older
      <3> QED  BY <1>2, <2>1, <3>1, <3>3
    <2> QED  BY <1>1, <2>1 DEF IInv, OrderInv
  <1> QED
    BY <1>1, <1>3, <1>4 DEF IInv, TypeOK, KeysInv, client

LEMMA NextIInv == IInv /\ [Next]_vars => IInv'
  <1> SUFFICES ASSUME IInv, [Next]_vars  PROVE IInv'
    OBVIOUS
  <1>0. KeysInv'
    BY StepKeys DEF IInv
  <1>1. ASSUME NEW c \in Clients, NEW k \in Keys, GetHit(c, k)  PROVE IInv'
    BY <1>1, HitStep
  <1>2. ASSUME NEW c \in Clients, NEW k \in Keys, GetMiss(c, k)  PROVE IInv'
    <2>1. /\ place[c] = "idle" /\ place' = [place EXCEPT ![c] = "loading"]
          /\ Keep(Keys \ {k}) /\ UNCHANGED <<strategy, truth, value, evictedKey>>
      BY <1>2 DEF GetMiss, Goto
    <2>2. \A d \in Clients : evictedKey[d] # NoKey => place'[d] \in {"putting", "telling"}
      BY <2>1 DEF IInv, TypeOK
    <2>3. CASE k \in Present
      <3>1. accessOrder' = Drop({k})
        BY <1>2, <2>3 DEF GetMiss
      <3> QED  BY <1>0, <2>1, <2>2, <3>1, RemovalStep
    <2>4. CASE k \notin Present
      <3>1. accessOrder' = accessOrder /\ entries' = entries
        BY <1>2, <2>1, <2>4 DEF GetMiss, Keep, Restrict, Present, IInv, TypeOK
      <3> QED  BY <1>0, <2>1, <2>2, <3>1 DEF IInv, TypeOK, KeysInv, OrderInv, Present
    <2> QED  BY <2>3, <2>4
  <1>3. ASSUME UNCHANGED <<strategy, cache>>, truth' \in Versions,
               value' \in [Clients -> Versions],
               \A d \in Clients : evictedKey'[d] # NoKey => place'[d] \in {"putting", "telling"}
        PROVE  IInv'
    BY <1>0, <1>3 DEF cache, IInv, TypeOK, KeysInv, OrderInv, Present
  <1>4. ASSUME NEW c \in Clients, NEW k \in Keys, Put(c, k)  PROVE IInv'
    BY <1>3, <1>4 DEF Put, Goto, IInv, TypeOK
  <1>5. ASSUME NEW c \in Clients, PutAttempt(c)  PROVE IInv'
    BY <1>3, <1>5 DEF PutAttempt, IInv, TypeOK
  <1>6. ASSUME NEW c \in Clients, Load(c)  PROVE IInv'
    BY <1>3, <1>6 DEF Load, Goto, IInv, TypeOK
  <1>7. ASSUME NEW c \in Clients, LoadFails(c)  PROVE IInv'
    BY <1>3, <1>7 DEF LoadFails, Goto, IInv, TypeOK
  <1>8. ASSUME NEW c \in Clients, PutEvicting(c) \/ PutPlain(c)  PROVE IInv'
    BY <1>8, PutStep
  <1>9. ASSUME NEW c \in Clients, Tell(c)  PROVE IInv'
    BY <1>3, <1>9 DEF Tell, Goto, IInv, TypeOK
  <1>10. ASSUME NEW S, Invalidate(S)  PROVE IInv'
    BY <1>0, <1>10, RemovalStep DEF Invalidate, client, IInv, TypeOK
  <1>11. CASE CleanUp
    BY <1>10, <1>11 DEF CleanUp
  <1>12. CASE Update
    BY <1>3, <1>12, ConfigAssumption DEF Update, client, IInv, TypeOK, Versions
  <1>13. CASE Tick
    BY <1>13, TickStep
  <1>14. CASE UNCHANGED vars
    BY <1>3, <1>14 DEF vars, client, IInv, TypeOK
  <1> QED
    BY <1>1, <1>2, <1>4, <1>5, <1>6, <1>7, <1>8, <1>9, <1>10, <1>11, <1>12, <1>13, <1>14
    DEF Next

\* Whatever get, put, remove, invalidate, clear and cleanUp do between each other, and
\* however many clients load meanwhile, the cache holds at most maxSize entries and
\* the list accessOrder has exactly their keys, each once.
THEOREM BookkeepingHolds == Spec => []Bookkeeping
  <1>1. ASSUME IInv  PROVE Bookkeeping
    <2>1. ASSUME NEW k \in Keys
          PROVE  Cardinality({i \in DOMAIN accessOrder : accessOrder[i] = k})
                     = IF k \in Present THEN 1 ELSE 0
      <3> DEFINE at == {i \in DOMAIN accessOrder : accessOrder[i] = k}
      <3>1. CASE k \in Present
        <4>1. PICK i \in DOMAIN accessOrder : accessOrder[i] = k
          BY <1>1, <3>1 DEF IInv, OrderInv, Elements
        <4>2. at = {i}
          BY <1>1, <4>1 DEF IInv, OrderInv, Distinct
        <4> QED  BY <3>1, <4>2, FS_Singleton
      <3>2. CASE k \notin Present
        <4>1. at = {}
          BY <1>1, <3>2 DEF IInv, OrderInv, Elements
        <4> QED  BY <3>2, <4>1, FS_EmptySet
      <3> QED  BY <3>1, <3>2
    <2> QED  BY <1>1, <2>1 DEF IInv, Bookkeeping
  <1> QED  BY <1>1, InitIInv, NextIInv, PTL DEF Spec

\* What put throws out under each strategy is what that strategy names: for LRU,
\* looking at the head of accessOrder finds the entry unused longest.
THEOREM EvictsByStrategyHolds == Spec => EvictsByStrategy
  <1> DEFINE Right ==
        \A c \in Clients : StoreStep(c) =>
            \A k \in Present \ DOMAIN entries' : \A j \in Present \ {k} :
                /\ j \in DOMAIN entries'
                /\ CASE strategy = "LRU"  -> entries[k].idle >= entries[j].idle
                     [] strategy = "LFU"  -> entries[k].count <= entries[j].count
                     [] strategy = "FIFO" -> entries[k].age >= entries[j].age
  <1>1. ASSUME IInv, [Next]_vars
        PROVE  Right
    <2> SUFFICES ASSUME NEW c \in Clients, StoreStep(c),
                        NEW k \in Present \ DOMAIN entries', NEW j \in Present \ {k}
                 PROVE  /\ j \in DOMAIN entries'
                        /\ strategy \in {"LRU", "LFU", "FIFO"}
                        /\ strategy = "LRU" => entries[k].idle >= entries[j].idle
                        /\ strategy = "LFU" => entries[k].count <= entries[j].count
                        /\ strategy = "FIFO" => entries[k].age >= entries[j].age
      OBVIOUS
    <2>1. PICK d \in Clients : PutEvicting(d) \/ PutPlain(d)
      BY <1>1, ClientKeys, OtherKeys DEF Next, IInv
    <2>2. key[d] \in Keys
      BY <1>1, <2>1, PutEvictsOne
    <2>3. PICK v \in Victims \cup {NoKey} : Store(d, v)
      BY <1>1, <2>1, PutEvictsOne
    <2>4. DOMAIN entries' = (Present \cup {key[d]}) \ {v}
      BY <2>3, StoreDomain
    <2>5. k = v /\ j \in DOMAIN entries' /\ v \in Victims
      BY <1>1, <2>3, <2>4, ConfigAssumption DEF IInv, TypeOK
    <2>6. strategy \in {"LRU", "LFU", "FIFO"}
      BY <1>1 DEF IInv, TypeOK, Strategies
    <2>7. CASE strategy = "LRU"
      <3>1. /\ accessOrder \in Seq(Keys) /\ accessOrder # <<>>
            /\ k = Head(accessOrder)
        BY <1>1, <2>5, <2>7 DEF Victims, IInv, TypeOK
      <3>2. k = accessOrder[1] /\ 1 \in DOMAIN accessOrder /\ DOMAIN accessOrder \subseteq Nat
        BY <3>1, LenProperties, EmptySeq
      <3>3. PICK i \in DOMAIN accessOrder : accessOrder[i] = j
        BY <1>1 DEF IInv, OrderInv, Elements
      <3>4. 1 < i
        <4>1. i # 1
          BY <3>2, <3>3
        <4>2. i \in 1..Len(accessOrder) /\ Len(accessOrder) \in Nat
          BY <3>1, <3>3, LenProperties
        <4> QED  BY <4>1, <4>2
      <3> QED  BY <1>1, <2>5, <2>7, <3>2, <3>3, <3>4 DEF IInv, OrderInv
    <2>8. CASE strategy = "LFU"
      BY <2>5, <2>8 DEF Victims
    <2>9. CASE strategy = "FIFO"
      BY <2>5, <2>9 DEF Victims
    <2> QED  BY <2>5, <2>6, <2>7, <2>8, <2>9
  <1>2. IInv /\ [Next]_vars => [Right]_vars
    BY <1>1
  <1> QED  BY <1>2, InitIInv, NextIInv, PTL DEF Spec, EvictsByStrategy
=============================================================================
