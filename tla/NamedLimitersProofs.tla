------------------------ MODULE NamedLimitersProofs ------------------------
(***************************************************************************)
(* Proofs about NamedLimiters, for any number of clients, any rate and     *)
(* burst capacity, and all three protocols.                                *)
(*                                                                         *)
(* Agreement is not inductive: the objects handed out are bounded because  *)
(* each was bound to the name at some time, so the object that is bound    *)
(* now counts before anybody is given it.  RateKept is not either: what a  *)
(* limiter may still grant without time passing counts as granted.         *)
(***************************************************************************)
EXTENDS NamedLimiters, FiniteSetTheorems, TLAPS

\* What a client's place says about what it holds.
PlaceFits(c) ==
    /\ place[c] = "inserting" => mine[c] \in 1..created
    /\ place[c] = "rereading" => protocol = "reread" /\ (stored # 0 \/ drops > 0)
    /\ place[c] = "holding"   => got[c] \in handed
    /\ place[c] = "failed"    => protocol = "reread" /\ drops > 0

Bound == IF stored = 0 THEN {} ELSE {stored}

\* The objects handed out or bound now are no more than the bindings made.
Ledger ==
    /\ IsFiniteSet(handed)
    /\ Cardinality(handed \cup Bound) <= drops + (IF stored = 0 THEN 0 ELSE 1)

RegistryInv ==
    /\ RegistryTypeOK
    /\ \A c \in Clients : PlaceFits(c)
    /\ Ledger

\* Twice what limiter l could grant at once.
Credit(l) == AtMost(2 * tokens[l] + GainPerMs * elapsed[l], 2 * Capacity)

RateCredit(l) ==
    IF watching
    THEN 2 * (PermitCost * spent[l]) + Credit(l)
             <= 2 * Capacity + GainPerMs * watched + 2 * (Capacity * resets[l])
    ELSE spent[l] = 0 /\ watched = 0 /\ resets[l] = 0

RateInv == RateTypeOK /\ \A l \in Limiters : RateCredit(l)

Inv ==
    /\ RegistryInv
    /\ RateInv
    /\ resetting \in 0..created
    /\ \A l \in Limiters : spent[l] > 0 => l \in handed

-----------------------------------------------------------------------------
(* The registry *)

\* The ledger goes on balancing when one object x is added to the set.
LEMMA LedgerAdd ==
    ASSUME NEW S, IsFiniteSet(S), NEW x
    PROVE  /\ IsFiniteSet(S \cup {x})
           /\ Cardinality(S) \in Nat
           /\ Cardinality(S \cup {x}) <= Cardinality(S) + 1
  <1>1. IsFiniteSet(S \cup {x}) /\ Cardinality(S) \in Nat
    BY FS_AddElement, FS_CardinalityType
  <1>2. Cardinality(S \cup {x})
            = IF x \in S THEN Cardinality(S) ELSE Cardinality(S) + 1
    BY FS_AddElement
  <1> QED  BY <1>1, <1>2

LEMMA LedgerSubset ==
    ASSUME NEW S, IsFiniteSet(S), NEW x
    PROVE  /\ Cardinality(S) \in Nat
           /\ Cardinality(S \cup {x}) \in Nat
           /\ Cardinality(S) <= Cardinality(S \cup {x})
  <1>1. IsFiniteSet(S \cup {x}) /\ S \in SUBSET (S \cup {x})
    BY FS_AddElement
  <1>2. Cardinality(S) <= Cardinality(S \cup {x})
    BY <1>1, FS_Subset
  <1> QED  BY <1>1, <1>2, FS_CardinalityType

\* What handing object i to client c leaves of the types.
LEMMA HandTypes ==
    ASSUME RegistryTypeOK, NEW c \in Clients, NEW i \in 1..created, Hand(c, i)
    PROVE  /\ mine' \in [Clients -> 0..created]
           /\ got' \in [Clients -> 0..created]
           /\ handed' \subseteq 1..created
  BY DEF RegistryTypeOK, Hand

LEMMA RegistryInitInv == RegistryInit => RegistryInv
  <1> SUFFICES ASSUME RegistryInit
               PROVE  RegistryInv
    OBVIOUS
  <1>1. RegistryTypeOK
    BY RegistryAssumption DEF RegistryInit, RegistryTypeOK, Steps
  <1>2. \A c \in Clients : PlaceFits(c)
    BY DEF RegistryInit, PlaceFits
  <1>3. Ledger
    <2>1. handed \cup Bound = {}
      BY DEF RegistryInit, Bound
    <2>2. drops = 0 /\ stored = 0 /\ handed = {}
      BY DEF RegistryInit
    <2>3. QED  BY <2>1, <2>2, FS_EmptySet DEF Ledger
  <1> QED  BY <1>1, <1>2, <1>3 DEF RegistryInv

LEMMA RegistryTypes ==
    ASSUME RegistryInv, RegistryStep
    PROVE  RegistryTypeOK'
  <1> USE RegistryAssumption DEF RegistryInv, RegistryTypeOK, Goto, Hand, Steps
  <1>1. ASSUME NEW c \in Clients, Find(c)
        PROVE  RegistryTypeOK'
    BY <1>1 DEF Find
  <1>2. ASSUME NEW c \in Clients, Create(c)
        PROVE  RegistryTypeOK'
    BY <1>2 DEF Create
  <1>3. ASSUME NEW c \in Clients, InsertIfAbsent(c)
        PROVE  RegistryTypeOK'
    <2>1. mine[c] \in 1..created
      BY <1>3 DEF PlaceFits, InsertIfAbsent
    <2>2. stored' \in 1..created
      BY <1>3, <2>1 DEF InsertIfAbsent
    <2>3. Hand(c, stored')
      BY <1>3 DEF InsertIfAbsent
    <2> HIDE DEF Hand
    <2>4. /\ mine' \in [Clients -> 0..created]
          /\ got' \in [Clients -> 0..created]
          /\ handed' \subseteq 1..created
      BY <2>2, <2>3, HandTypes
    <2>5. QED  BY <1>3, <2>2, <2>4 DEF InsertIfAbsent
  <1>4. ASSUME NEW c \in Clients, InsertOverwriting(c)
        PROVE  RegistryTypeOK'
    <2>1. mine[c] \in 1..created
      BY <1>4 DEF PlaceFits, InsertOverwriting
    <2> HIDE DEF Hand
    <2>2. /\ mine' \in [Clients -> 0..created]
          /\ got' \in [Clients -> 0..created]
          /\ handed' \subseteq 1..created
      BY <1>4, <2>1, HandTypes DEF InsertOverwriting
    <2>3. stored' \in 0..created /\ drops' \in Nat
      BY <1>4, <2>1 DEF InsertOverwriting
    <2>4. place' \in [Clients -> Steps]
      BY <1>4 DEF InsertOverwriting
    <2>5. protocol' = protocol /\ created' = created
      BY <1>4 DEF InsertOverwriting
    <2>6. QED  BY <2>2, <2>3, <2>4, <2>5
  <1>5. ASSUME NEW c \in Clients, InsertForReread(c)
        PROVE  RegistryTypeOK'
    BY <1>5 DEF InsertForReread
  <1>6. ASSUME NEW c \in Clients, Reread(c)
        PROVE  RegistryTypeOK'
    BY <1>6 DEF Reread
  <1>7. ASSUME NEW c \in Clients, RereadFails(c)
        PROVE  RegistryTypeOK'
    BY <1>7 DEF RereadFails
  <1>8. ASSUME NEW c \in Clients, Forget(c)
        PROVE  RegistryTypeOK'
    BY <1>8 DEF Forget
  <1>9. CASE Remove
    BY <1>9 DEF Remove
  <1> QED
    BY <1>1, <1>2, <1>3, <1>4, <1>5, <1>6, <1>7, <1>8, <1>9
    DEF RegistryStep, GetOrCreate

\* Only client c moves; the others' places keep what they say.
LEMMA PlacesKept ==
    ASSUME RegistryInv, RegistryStep
    PROVE  \A d \in Clients : PlaceFits(d)'
  <1> SUFFICES ASSUME NEW d \in Clients
               PROVE  PlaceFits(d)'
    OBVIOUS
  <1>0. RegistryTypeOK /\ PlaceFits(d) /\ RegistryTypeOK'
    BY RegistryTypes DEF RegistryInv
  <1> USE <1>0 DEF RegistryTypeOK, PlaceFits, Goto, Hand, Steps
  <1>1. ASSUME NEW c \in Clients, Find(c)
        PROVE  PlaceFits(d)'
    <2>1. CASE c = d
      BY <1>1, <2>1 DEF Find
    <2>2. CASE c # d
      BY <1>1, <2>2 DEF Find
    <2> QED  BY <2>1, <2>2
  <1>2. ASSUME NEW c \in Clients, Create(c)
        PROVE  PlaceFits(d)'
    <2>1. CASE c = d
      BY <1>2, <2>1 DEF Create
    <2>2. CASE c # d
      BY <1>2, <2>2 DEF Create
    <2> QED  BY <2>1, <2>2
  <1>3. ASSUME NEW c \in Clients, InsertIfAbsent(c)
        PROVE  PlaceFits(d)'
    <2>1. CASE c = d
      BY <1>3, <2>1 DEF InsertIfAbsent
    <2>2. CASE c # d
      BY <1>3, <2>2 DEF InsertIfAbsent
    <2> QED  BY <2>1, <2>2
  <1>4. ASSUME NEW c \in Clients, InsertOverwriting(c)
        PROVE  PlaceFits(d)'
    <2>1. CASE c = d
      BY <1>4, <2>1 DEF InsertOverwriting
    <2>2. CASE c # d
      <3>1. stored' # 0
        <4>1. PlaceFits(c)
          BY DEF RegistryInv
        <4> QED  BY <1>4, <4>1 DEF InsertOverwriting
      <3>2. QED  BY <1>4, <2>2, <3>1 DEF InsertOverwriting
    <2> QED  BY <2>1, <2>2
  <1>5. ASSUME NEW c \in Clients, InsertForReread(c)
        PROVE  PlaceFits(d)'
    <2>0. stored' # 0
      <3>1. PlaceFits(c)
        BY DEF RegistryInv
      <3> QED  BY <1>5, <3>1 DEF InsertForReread
    <2>1. CASE c = d
      BY <1>5, <2>0, <2>1 DEF InsertForReread
    <2>2. CASE c # d
      BY <1>5, <2>0, <2>2 DEF InsertForReread
    <2> QED  BY <2>1, <2>2
  <1>6. ASSUME NEW c \in Clients, Reread(c)
        PROVE  PlaceFits(d)'
    <2>1. CASE c = d
      BY <1>6, <2>1 DEF Reread
    <2>2. CASE c # d
      BY <1>6, <2>2 DEF Reread
    <2> QED  BY <2>1, <2>2
  <1>7. ASSUME NEW c \in Clients, RereadFails(c)
        PROVE  PlaceFits(d)'
    <2>1. CASE c = d
      BY <1>7, <2>1 DEF RereadFails
    <2>2. CASE c # d
      BY <1>7, <2>2 DEF RereadFails
    <2> QED  BY <2>1, <2>2
  <1>8. ASSUME NEW c \in Clients, Forget(c)
        PROVE  PlaceFits(d)'
    <2>1. CASE c = d
      BY <1>8, <2>1 DEF Forget
    <2>2. CASE c # d
      BY <1>8, <2>2 DEF Forget
    <2> QED  BY <2>1, <2>2
  <1>9. CASE Remove
    BY <1>9 DEF Remove
  <1> QED
    BY <1>1, <1>2, <1>3, <1>4, <1>5, <1>6, <1>7, <1>8, <1>9
    DEF RegistryStep, GetOrCreate

\* A step that leaves the objects of the ledger and its bound alone.
LEMMA LedgerKept ==
    ASSUME Ledger, IsFiniteSet(handed'),
           (handed \cup Bound)' = handed \cup Bound,
           drops' = drops, stored' = 0 <=> stored = 0
    PROVE  Ledger'
  BY DEF Ledger

\* Every binding, removal and overwriting is paid for.
LEMMA LedgerBalances ==
    ASSUME RegistryInv, RegistryStep
    PROVE  Ledger'
  <1>0. RegistryTypeOK /\ Ledger /\ IsFiniteSet(handed)
    BY DEF RegistryInv, Ledger
  <1> USE <1>0
  \* Handing out what is bound.
  <1>1. ASSUME NEW c \in Clients, Find(c)
        PROVE  Ledger'
    <2>1. IsFiniteSet(handed')
      BY <1>1, LedgerAdd DEF Find, Hand
    <2>2. (handed \cup Bound)' = handed \cup Bound
      BY <1>1 DEF Find, Hand, Bound
    <2>3. QED  BY <1>1, <2>1, <2>2, LedgerKept DEF Find
  <1>2. ASSUME NEW c \in Clients, Reread(c)
        PROVE  Ledger'
    <2>1. IsFiniteSet(handed')
      BY <1>2, LedgerAdd DEF Reread, Hand
    <2>2. (handed \cup Bound)' = handed \cup Bound
      BY <1>2 DEF Reread, Hand, Bound
    <2>3. QED  BY <1>2, <2>1, <2>2, LedgerKept DEF Reread
  \* Steps that neither bind nor hand out.
  <1>3. ASSUME NEW c \in Clients, Create(c) \/ RereadFails(c) \/ Forget(c)
        PROVE  Ledger'
    <2>1. handed' = handed /\ stored' = stored /\ drops' = drops
      BY <1>3 DEF Create, RereadFails, Forget
    <2>2. QED  BY <2>1, LedgerKept DEF Bound
  \* Binding an object, handed out at once or later.
  <1>4. ASSUME NEW c \in Clients, InsertIfAbsent(c) \/ InsertForReread(c)
        PROVE  Ledger'
    <2>1. mine[c] \in 1..created /\ mine[c] \in Nat
      BY <1>4 DEF RegistryInv, RegistryTypeOK, PlaceFits, InsertIfAbsent,
                  InsertForReread, Goto
    <2>2. /\ drops' = drops
          /\ stored' = IF stored = 0 THEN mine[c] ELSE stored
          /\ handed' \in {handed, handed \cup {stored'}}
      BY <1>4 DEF InsertIfAbsent, InsertForReread, Hand
    <2>3. IsFiniteSet(handed')
      <3>1. IsFiniteSet(handed \cup {stored'})
        BY LedgerAdd
      <3>2. QED  BY <2>2, <3>1
    <2>4. CASE stored # 0
      <3>1. (handed \cup Bound)' = handed \cup Bound
        BY <2>2, <2>4 DEF Bound
      <3>2. QED  BY <2>2, <2>3, <2>4, <3>1, LedgerKept
    <2>5. CASE stored = 0
      <3>1. (handed \cup Bound)' = handed \cup {mine[c]} /\ handed \cup Bound = handed
        BY <2>1, <2>2, <2>5 DEF Bound
      <3>2. Cardinality((handed \cup Bound)') <= Cardinality(handed) + 1
        BY <3>1, LedgerAdd
      <3>3. Cardinality(handed) \in Nat /\ Cardinality((handed \cup Bound)') \in Nat
        BY <3>1, LedgerAdd, FS_CardinalityType
      <3>4. Cardinality(handed) <= drops /\ drops \in Nat
        BY <2>5, <3>1 DEF Ledger, RegistryTypeOK
      <3>5. stored' # 0
        BY <2>1, <2>2, <2>5
      <3>6. QED  BY <2>2, <2>3, <3>2, <3>3, <3>4, <3>5 DEF Ledger
    <2> QED  BY <2>4, <2>5
  <1>5. ASSUME NEW c \in Clients, InsertOverwriting(c)
        PROVE  Ledger'
    <2>1. mine[c] \in 1..created
      BY <1>5 DEF RegistryInv, PlaceFits, InsertOverwriting, Goto
    <2>2. /\ drops' = IF stored = 0 THEN drops ELSE drops + 1
          /\ stored' = mine[c] /\ stored' # 0
          /\ handed' = handed \cup {mine[c]}
      BY <1>5, <2>1 DEF InsertOverwriting, Hand
    <2>3. (handed \cup Bound)' = handed \cup {mine[c]}
      BY <2>2 DEF Bound
    <2>4. /\ Cardinality(handed) \in Nat
          /\ Cardinality(handed \cup {mine[c]}) \in Nat
          /\ Cardinality(handed \cup {mine[c]}) <= Cardinality(handed) + 1
          /\ IsFiniteSet(handed')
      BY <2>2, LedgerAdd, FS_CardinalityType
    <2>5. Cardinality(handed) <= drops + (IF stored = 0 THEN 0 ELSE 1)
      <3>1. CASE stored = 0
        BY <3>1 DEF Ledger, Bound
      <3>2. CASE stored # 0
        <4>1. Cardinality(handed \cup {stored}) <= drops + 1
          BY <3>2 DEF Ledger, Bound
        <4>2. /\ Cardinality(handed) <= Cardinality(handed \cup {stored})
              /\ Cardinality(handed \cup {stored}) \in Nat
          BY LedgerSubset
        <4>3. QED  BY <2>4, <3>2, <4>1, <4>2 DEF RegistryTypeOK
      <3> QED  BY <3>1, <3>2
    <2>6. QED  BY <2>2, <2>3, <2>4, <2>5 DEF Ledger, RegistryTypeOK
  <1>6. CASE Remove
    <2>1. stored # 0 /\ stored' = 0 /\ drops' = drops + 1 /\ handed' = handed
      BY <1>6 DEF Remove
    <2>2. Cardinality(handed \cup {stored}) <= drops + 1
      BY <2>1 DEF Ledger, Bound
    <2>3. /\ Cardinality(handed) \in Nat
          /\ Cardinality(handed \cup {stored}) \in Nat
          /\ Cardinality(handed) <= Cardinality(handed \cup {stored})
      BY LedgerSubset
    <2>4. (handed \cup Bound)' = handed
      BY <2>1 DEF Bound
    <2>5. Cardinality(handed) <= drops + 1 /\ drops \in Nat
      BY <2>2, <2>3 DEF RegistryTypeOK
    <2>6. QED  BY <2>1, <2>4, <2>5 DEF Ledger
  <1> QED
    BY <1>1, <1>2, <1>3, <1>4, <1>5, <1>6 DEF RegistryStep, GetOrCreate

LEMMA RegistryInvKept ==
    ASSUME RegistryInv, RegistryStep
    PROVE  RegistryInv'
  BY RegistryTypes, PlacesKept, LedgerBalances DEF RegistryInv

-----------------------------------------------------------------------------
(* The token bucket *)

LEMMA ProductIsNat == \A m, n \in Nat : m * n \in Nat
  OBVIOUS

LEMMA CapacityIsNat == Capacity \in Nat /\ MaxElapsed \in Nat
  <1>1. Capacity \in Nat
    BY RateAssumption, ProductIsNat DEF Capacity
  <1>2. \A a \in Nat : \A b \in Nat \ {0} : a \div b \in Nat
    OBVIOUS
  <1>3. Capacity \div GainPerMs \in Nat
    BY <1>1, <1>2, RateAssumption
  <1> QED  BY <1>1, <1>3 DEF MaxElapsed

\* A refill counts whole milliseconds, and so never more than the time.
LEMMA RefillWithin ==
    ASSUME NEW t \in Nat, NEW e \in Nat, NEW g \in Nat, NEW cap \in Nat,
           t <= cap, NEW r, r = AtMost(t + g * (e \div 2), cap)
    PROVE  /\ r \in 0..cap
           /\ 2 * r <= AtMost(2 * t + g * e, 2 * cap)
  <1>1. PICK h \in Nat : h = e \div 2 /\ (e = 2 * h \/ e = 2 * h + 1)
    <2>1. e \div 2 \in Nat /\ (e = 2 * (e \div 2) \/ e = 2 * (e \div 2) + 1)
      OBVIOUS
    <2>2. QED  BY <2>1
  <1>2. g * h \in Nat /\ g * e \in Nat
    BY ProductIsNat
  <1>3. 2 * (g * h) <= g * e
    <2>1. CASE e = 2 * h
      <3>1. g * (2 * h) = 2 * (g * h)
        OBVIOUS
      <3>2. QED  BY <1>2, <2>1, <3>1
    <2>2. CASE e = 2 * h + 1
      <3>1. g * (2 * h + 1) = 2 * (g * h) + g
        OBVIOUS
      <3>2. QED  BY <1>2, <2>2, <3>1
    <2> QED  BY <1>1, <2>1, <2>2
  <1>4. r = AtMost(t + g * h, cap)
    BY <1>1
  <1> DEFINE gh == g * h
             ge == g * e
  <1>5. gh \in Nat /\ ge \in Nat /\ 2 * gh <= ge /\ r = AtMost(t + gh, cap)
    BY <1>2, <1>3, <1>4
  <1>6. r \in 0..cap /\ 2 * r <= AtMost(2 * t + ge, 2 * cap)
    <2> HIDE DEF gh, ge
    <2> QED  BY <1>5 DEF AtMost
  <1> QED  BY <1>6

LEMMA RefilledFits ==
    ASSUME RateInv, NEW l \in Limiters
    PROVE  Refilled(l) \in 0..Capacity /\ 2 * Refilled(l) <= Credit(l)
  <1>1. tokens[l] \in Nat /\ tokens[l] <= Capacity /\ elapsed[l] \in Nat
    BY CapacityIsNat DEF RateInv, RateTypeOK
  <1>2. QED
    BY <1>1, CapacityIsNat, RefillWithin, RateAssumption DEF Refilled, Credit

\* Taking from a refilled bucket takes as much from its credit.
LEMMA TakeFromCredit ==
    ASSUME RateInv, NEW l \in Limiters, NEW taken \in Nat,
           taken <= Refilled(l), DoRefillTokens(l, taken)
    PROVE  /\ tokens' \in [Limiters -> 0..Capacity]
           /\ elapsed' \in [Limiters -> 0..MaxElapsed]
           /\ Credit(l)' \in Int /\ Credit(l) \in Int
           /\ Credit(l)' + 2 * taken <= Credit(l)
           /\ \A m \in Limiters \ {l} : Credit(m)' = Credit(m)
  <1>1. Refilled(l) \in 0..Capacity /\ 2 * Refilled(l) <= Credit(l)
    BY RefilledFits
  <1>2. /\ tokens \in [Limiters -> 0..Capacity]
        /\ elapsed \in [Limiters -> 0..MaxElapsed]
    BY DEF RateInv, RateTypeOK
  <1>3. /\ tokens' = [tokens EXCEPT ![l] = Refilled(l) - taken]
        /\ elapsed' = [elapsed EXCEPT ![l] = 0]
    BY DEF DoRefillTokens
  <1>4. Refilled(l) - taken \in 0..Capacity
    BY <1>1, CapacityIsNat
  <1>5. tokens'[l] = Refilled(l) - taken /\ elapsed'[l] = 0
    BY <1>2, <1>3
  <1>6. GainPerMs * 0 = 0
    BY RateAssumption
  <1>7. Credit(l)' = AtMost(2 * (Refilled(l) - taken) + GainPerMs * 0, 2 * Capacity)
    BY <1>5 DEF Credit, AtMost, Capacity
  <1>8. Credit(l)' = 2 * (Refilled(l) - taken)
    BY <1>1, <1>4, <1>6, <1>7, CapacityIsNat DEF AtMost
  <1>9. Credit(l) \in Int
    <2>1. tokens[l] \in Nat /\ elapsed[l] \in Nat
      BY <1>2
    <2>2. GainPerMs * elapsed[l] \in Nat
      BY <2>1, ProductIsNat, RateAssumption
    <2>3. QED  BY <2>1, <2>2, CapacityIsNat DEF Credit, AtMost
  <1>10. \A m \in Limiters \ {l} : Credit(m)' = Credit(m)
    BY <1>2, <1>3 DEF Credit, AtMost, Capacity
  <1>11. tokens' \in [Limiters -> 0..Capacity]
    BY <1>2, <1>3, <1>4
  <1>12. elapsed' \in [Limiters -> 0..MaxElapsed]
    BY <1>2, <1>3, CapacityIsNat
  <1>13. Credit(l)' \in Int /\ Credit(l)' + 2 * taken <= Credit(l)
    BY <1>1, <1>8, <1>9, CapacityIsNat
  <1> QED  BY <1>9, <1>10, <1>11, <1>12, <1>13

\* The terms of RateCredit are integers.
LEMMA CreditTerms ==
    ASSUME RateInv, NEW l \in Limiters
    PROVE  /\ PermitCost * spent[l] \in Nat
           /\ GainPerMs * watched \in Nat
           /\ GainPerMs * elapsed[l] \in Nat
           /\ Capacity * resets[l] \in Nat
           /\ Credit(l) \in Int /\ 0 <= Credit(l) /\ Credit(l) <= 2 * Capacity
  <1>1. /\ spent[l] \in Nat /\ watched \in Nat /\ elapsed[l] \in Nat
        /\ resets[l] \in Nat /\ tokens[l] \in Nat
    BY CapacityIsNat, RateAssumption DEF RateInv, RateTypeOK
  <1>2. /\ PermitCost * spent[l] \in Nat
        /\ GainPerMs * watched \in Nat
        /\ GainPerMs * elapsed[l] \in Nat
        /\ Capacity * resets[l] \in Nat
    BY <1>1, ProductIsNat, CapacityIsNat, RateAssumption
  <1>3. Credit(l) \in Int /\ 0 <= Credit(l) /\ Credit(l) <= 2 * Capacity
    BY <1>1, <1>2, CapacityIsNat DEF Credit, AtMost
  <1> QED  BY <1>2, <1>3

\* Refilling alone.
LEMMA RefillKeepsRate ==
    ASSUME RateInv, NEW l \in Limiters, AvailableTokens(l)
    PROVE  RateInv'
  <1>1. DoRefillTokens(l, 0) /\ 0 <= Refilled(l)
    BY RefilledFits, CapacityIsNat DEF AvailableTokens
  <1>2. /\ tokens' \in [Limiters -> 0..Capacity]
        /\ elapsed' \in [Limiters -> 0..MaxElapsed]
        /\ Credit(l)' \in Int /\ Credit(l) \in Int
        /\ Credit(l)' + 2 * 0 <= Credit(l)
        /\ \A m \in Limiters \ {l} : Credit(m)' = Credit(m)
    BY <1>1, TakeFromCredit
  <1>3. /\ watching' = watching /\ watched' = watched
        /\ spent' = spent /\ resets' = resets
    BY DEF AvailableTokens
  <1>4. RateTypeOK'
    BY <1>2, <1>3 DEF RateInv, RateTypeOK, MaxElapsed, Capacity
  <1>5. ASSUME NEW m \in Limiters
        PROVE  RateCredit(m)'
    <2>1. RateCredit(m)
      BY DEF RateInv
    <2>2. Credit(m)' \in Int /\ Credit(m)' <= Credit(m)
      <3>1. CASE m = l
        BY <1>2, <3>1
      <3>2. CASE m # l
        BY <1>2, <3>2, CreditTerms
      <3> QED  BY <3>1, <3>2
    <2>3. Capacity' = Capacity
      BY DEF Capacity
    <2>4. CASE watching
      BY <1>3, <2>1, <2>2, <2>3, <2>4, CreditTerms, CapacityIsNat DEF RateCredit
    <2>5. CASE ~watching
      BY <1>3, <2>1, <2>5 DEF RateCredit
    <2> QED  BY <2>4, <2>5
  <1> QED  BY <1>4, <1>5 DEF RateInv

\* A permit is paid for with the credit it takes.
LEMMA AcquireKeepsRate ==
    ASSUME RateInv, NEW l \in Limiters, NEW permits \in Nat, TryAcquire(l, permits)
    PROVE  RateInv'
  <1>1. CASE /\ Refilled(l) < permits * PermitCost
             /\ DoRefillTokens(l, 0)
             /\ UNCHANGED <<watching, watched, spent, resets>>
    <2>1. AvailableTokens(l)
      BY <1>1 DEF AvailableTokens
    <2>2. QED  BY <2>1, RefillKeepsRate
  <1>2. CASE /\ Refilled(l) >= permits * PermitCost
             /\ DoRefillTokens(l, permits * PermitCost)
             /\ spent' = IF watching THEN [spent EXCEPT ![l] = @ + permits] ELSE spent
             /\ UNCHANGED <<watching, watched, resets>>
    <2> DEFINE cost == permits * PermitCost
    <2>1. cost \in Nat /\ cost <= Refilled(l) /\ DoRefillTokens(l, cost)
      BY <1>2, ProductIsNat, RateAssumption, RefilledFits, CapacityIsNat
    <2>2. /\ tokens' \in [Limiters -> 0..Capacity]
          /\ elapsed' \in [Limiters -> 0..MaxElapsed]
          /\ Credit(l)' \in Int /\ Credit(l) \in Int
          /\ Credit(l)' + 2 * cost <= Credit(l)
          /\ \A m \in Limiters \ {l} : Credit(m)' = Credit(m)
      <3> HIDE DEF cost
      <3> QED  BY <2>1, TakeFromCredit
    <2>3. watching' = watching /\ watched' = watched /\ resets' = resets
      BY <1>2
    <2>4. spent \in [Limiters -> Nat] /\ spent' \in [Limiters -> Nat]
      BY <1>2 DEF RateInv, RateTypeOK
    <2>5. RateTypeOK'
      BY <2>2, <2>3, <2>4 DEF RateInv, RateTypeOK, MaxElapsed, Capacity
    <2>6. ASSUME NEW m \in Limiters
          PROVE  RateCredit(m)'
      <3>1. RateCredit(m)
        BY DEF RateInv
      <3>2. Capacity' = Capacity
        BY DEF Capacity
      <3>3. CASE ~watching
        BY <1>2, <2>3, <3>1, <3>3 DEF RateCredit
      <3>4. CASE watching /\ m # l
        <4>1. spent'[m] = spent[m] /\ Credit(m)' = Credit(m)
          BY <1>2, <2>2, <2>4, <3>4
        <4>2. QED  BY <2>3, <3>1, <3>2, <3>4, <4>1 DEF RateCredit
      <3>5. CASE watching /\ m = l
        <4>1. spent'[l] = spent[l] + permits
          BY <1>2, <2>4, <3>5
        <4>2. spent[l] \in Nat /\ PermitCost \in Nat
          BY <2>4, RateAssumption
        <4>3. PermitCost * spent'[l] = PermitCost * spent[l] + cost
          <5>1. PermitCost * (spent[l] + permits) = PermitCost * spent[l] + permits * PermitCost
            BY <4>2
          <5>2. QED  BY <4>1, <5>1
        <4>4. /\ PermitCost * spent[l] \in Nat
              /\ GainPerMs * watched \in Nat
              /\ Capacity * resets[l] \in Nat
          BY CreditTerms
        <4>5. 2 * (PermitCost * spent[l]) + Credit(l)
                  <= 2 * Capacity + GainPerMs * watched + 2 * (Capacity * resets[l])
          BY <3>1, <3>5 DEF RateCredit
        <4>6. 2 * (PermitCost * spent[l] + cost) + Credit(l)'
                  <= 2 * Capacity + GainPerMs * watched + 2 * (Capacity * resets[l])
          <5> HIDE DEF cost
          <5> QED  BY <2>1, <2>2, <4>4, <4>5, CapacityIsNat
        <4>7. QED  BY <2>3, <3>2, <3>5, <4>3, <4>6 DEF RateCredit
      <3> QED  BY <3>3, <3>4, <3>5
    <2> QED  BY <2>5, <2>6 DEF RateInv
  <1> QED  BY <1>1, <1>2 DEF TryAcquire

\* A reset restores the burst, and is allowed one for it.
LEMMA ResetKeepsRate ==
    ASSUME RateInv, NEW l \in Limiters, Reset(l)
    PROVE  RateInv'
  <1>1. /\ tokens' = [tokens EXCEPT ![l] = Capacity]
        /\ elapsed' = [elapsed EXCEPT ![l] = 0]
        /\ resets' = IF watching THEN [resets EXCEPT ![l] = @ + 1] ELSE resets
        /\ watching => resets[l] < MaxResets
        /\ watching' = watching /\ watched' = watched /\ spent' = spent
    BY DEF Reset
  <1>2. /\ tokens \in [Limiters -> 0..Capacity]
        /\ elapsed \in [Limiters -> 0..MaxElapsed]
        /\ resets \in [Limiters -> 0..MaxResets]
    BY DEF RateInv, RateTypeOK
  <1>3. resets' \in [Limiters -> 0..MaxResets]
    <2>1. CASE watching
      <3>1. resets[l] + 1 \in 0..MaxResets
        BY <1>1, <1>2, <2>1, RateAssumption
      <3>2. QED  BY <1>1, <1>2, <2>1, <3>1
    <2>2. CASE ~watching
      BY <1>1, <1>2, <2>2
    <2> QED  BY <2>1, <2>2
  <1>4. tokens' \in [Limiters -> 0..Capacity]
    BY <1>1, <1>2, CapacityIsNat
  <1>5. elapsed' \in [Limiters -> 0..MaxElapsed]
    BY <1>1, <1>2, CapacityIsNat
  <1>6. RateTypeOK'
    BY <1>1, <1>3, <1>4, <1>5 DEF RateInv, RateTypeOK, MaxElapsed, Capacity
  <1>7. ASSUME NEW m \in Limiters
        PROVE  RateCredit(m)'
    <2>1. RateCredit(m)
      BY DEF RateInv
    <2>2. Capacity' = Capacity
      BY DEF Capacity
    <2>3. CASE ~watching
      BY <1>1, <2>1, <2>3 DEF RateCredit
    <2>4. CASE watching /\ m # l
      <3>1. /\ tokens'[m] = tokens[m] /\ elapsed'[m] = elapsed[m]
            /\ resets'[m] = resets[m]
        BY <1>1, <1>2, <2>4
      <3>2. Credit(m)' = Credit(m)
        BY <2>2, <3>1 DEF Credit, AtMost
      <3>3. QED  BY <1>1, <2>1, <2>2, <2>4, <3>1, <3>2 DEF RateCredit
    <2>5. CASE watching /\ m = l
      <3>1. tokens'[l] = Capacity /\ elapsed'[l] = 0 /\ resets'[l] = resets[l] + 1
        BY <1>1, <1>2, <2>5
      <3>2. GainPerMs * 0 = 0
        BY RateAssumption
      <3>3. Credit(l)' = 2 * Capacity
        BY <2>2, <3>1, <3>2, CapacityIsNat DEF Credit, AtMost
      <3>4. resets[l] \in Nat
        BY <1>2, RateAssumption
      <3>5. Capacity * (resets[l] + 1) = Capacity * resets[l] + Capacity
        BY <3>4, CapacityIsNat
      <3>6. 2 * (PermitCost * spent[l]) + Credit(l)
                <= 2 * Capacity + GainPerMs * watched + 2 * (Capacity * resets[l])
        BY <2>1, <2>5 DEF RateCredit
      <3>7. 2 * (PermitCost * spent[l]) + 2 * Capacity
                <= 2 * Capacity + GainPerMs * watched
                       + 2 * (Capacity * resets[l] + Capacity)
        BY <3>6, CreditTerms, CapacityIsNat
      <3>8. QED
        BY <1>1, <2>2, <2>5, <3>1, <3>3, <3>5, <3>7 DEF RateCredit
    <2> QED  BY <2>3, <2>4, <2>5
  <1> QED  BY <1>6, <1>7 DEF RateInv

\* Half a millisecond brings every limiter at most its gain of credit.
LEMMA TickKeepsRate ==
    ASSUME RateInv, NEW S, Tick(S)
    PROVE  RateInv'
  <1>1. /\ elapsed' = [l \in Limiters |-> IF l \in S /\ elapsed[l] < MaxElapsed
                                          THEN elapsed[l] + 1 ELSE elapsed[l]]
        /\ watched' = IF watching THEN watched + 1 ELSE watched
        /\ watching => watched < MaxWatch
        /\ tokens' = tokens /\ watching' = watching /\ spent' = spent
        /\ resets' = resets
    BY DEF Tick
  <1>2. /\ elapsed \in [Limiters -> 0..MaxElapsed] /\ watched \in 0..MaxWatch
        /\ tokens \in [Limiters -> 0..Capacity]
    BY DEF RateInv, RateTypeOK
  <1>3. elapsed' \in [Limiters -> 0..MaxElapsed]
    BY <1>1, <1>2, CapacityIsNat
  <1>4. watched' \in 0..MaxWatch
    BY <1>1, <1>2, RateAssumption
  <1>5. RateTypeOK'
    BY <1>1, <1>3, <1>4 DEF RateInv, RateTypeOK, MaxElapsed, Capacity
  <1>6. ASSUME NEW m \in Limiters
        PROVE  RateCredit(m)'
    <2>1. RateCredit(m)
      BY DEF RateInv
    <2>2. Capacity' = Capacity
      BY DEF Capacity
    <2>3. CASE ~watching
      BY <1>1, <2>1, <2>3 DEF RateCredit
    <2>4. CASE watching
      <3>1. watched \in Nat /\ watched' = watched + 1 /\ elapsed[m] \in Nat
            /\ tokens[m] \in Nat /\ GainPerMs \in Nat
        BY <1>1, <1>2, <2>4, RateAssumption, CapacityIsNat
      <3>2. GainPerMs * (watched + 1) = GainPerMs * watched + GainPerMs
        BY <3>1
      <3>3. elapsed'[m] = elapsed[m] \/ elapsed'[m] = elapsed[m] + 1
        BY <1>1
      <3>4. GainPerMs * (elapsed[m] + 1) = GainPerMs * elapsed[m] + GainPerMs
        BY <3>1
      <3>5. Credit(m)' = AtMost(2 * tokens[m] + GainPerMs * elapsed'[m], 2 * Capacity)
        BY <1>1, <2>2 DEF Credit, AtMost
      <3>6. GainPerMs * elapsed[m] \in Nat /\ Credit(m) \in Int
        BY CreditTerms
      <3>7. Credit(m)' \in Int /\ Credit(m)' <= Credit(m) + GainPerMs
        <4> DEFINE ge == GainPerMs * elapsed[m]
        <4>1. ge \in Nat /\ Credit(m) = AtMost(2 * tokens[m] + ge, 2 * Capacity)
          BY <3>6 DEF Credit
        <4>2. \/ Credit(m)' = AtMost(2 * tokens[m] + ge, 2 * Capacity)
              \/ Credit(m)' = AtMost(2 * tokens[m] + (ge + GainPerMs), 2 * Capacity)
          BY <3>3, <3>4, <3>5
        <4> HIDE DEF ge
        <4>3. QED  BY <3>1, <4>1, <4>2, CapacityIsNat DEF AtMost
      <3>8. 2 * (PermitCost * spent[m]) + Credit(m)
                <= 2 * Capacity + GainPerMs * watched + 2 * (Capacity * resets[m])
        BY <2>1, <2>4 DEF RateCredit
      <3>9. 2 * (PermitCost * spent[m]) + Credit(m)'
                <= 2 * Capacity + (GainPerMs * watched + GainPerMs)
                       + 2 * (Capacity * resets[m])
        BY <3>1, <3>6, <3>7, <3>8, CreditTerms, CapacityIsNat
      <3>10. QED
        BY <1>1, <2>2, <2>4, <3>1, <3>2, <3>9 DEF RateCredit
    <2> QED  BY <2>3, <2>4
  <1> QED  BY <1>5, <1>6 DEF RateInv

\* The interval begins with the credit a full bucket has, at most.
LEMMA WatchKeepsRate ==
    ASSUME RateInv, Watch
    PROVE  RateInv'
  <1>1. /\ ~watching /\ watching' = TRUE /\ tokens' = tokens /\ elapsed' = elapsed
        /\ watched' = watched /\ spent' = spent /\ resets' = resets
    BY DEF Watch
  <1>2. RateTypeOK'
    BY <1>1 DEF RateInv, RateTypeOK
  <1>3. ASSUME NEW m \in Limiters
        PROVE  RateCredit(m)'
    <2>1. spent[m] = 0 /\ watched = 0 /\ resets[m] = 0
      BY <1>1 DEF RateInv, RateCredit
    <2>2. PermitCost * 0 = 0 /\ GainPerMs * 0 = 0 /\ Capacity * 0 = 0
      BY RateAssumption, CapacityIsNat
    <2>3. Capacity' = Capacity /\ Credit(m)' = Credit(m)
      BY <1>1 DEF Capacity, Credit, AtMost
    <2>4. QED
      BY <1>1, <2>1, <2>2, <2>3, CreditTerms, CapacityIsNat DEF RateCredit
  <1> QED  BY <1>2, <1>3 DEF RateInv

LEMMA RateInitInv == RateInit => RateInv
  <1> SUFFICES ASSUME RateInit
               PROVE  RateInv
    OBVIOUS
  <1>1. RateTypeOK
    <2>1. Capacity \in 0..Capacity /\ 0 \in 0..MaxElapsed
      BY CapacityIsNat
    <2>2. /\ tokens \in [Limiters -> 0..Capacity]
          /\ elapsed \in [Limiters -> 0..MaxElapsed]
      BY <2>1 DEF RateInit
    <2>3. 0 \in 0..MaxResets /\ 0 \in 0..MaxWatch
      BY RateAssumption
    <2>4. /\ spent \in [Limiters -> Nat]
          /\ resets \in [Limiters -> 0..MaxResets]
          /\ watched \in 0..MaxWatch /\ watching \in BOOLEAN
      BY <2>3 DEF RateInit
    <2> QED  BY <2>2, <2>4 DEF RateTypeOK
  <1>2. \A l \in Limiters : RateCredit(l)
    BY DEF RateInit, RateCredit
  <1> QED  BY <1>1, <1>2 DEF RateInv

\* What the credit is for.
LEMMA CreditKeepsRate ==
    ASSUME RateInv, NEW l \in Limiters
    PROVE  RateKept(l)
  <1>1. /\ spent[l] \in Nat /\ PermitCost \in Nat /\ Capacity \in Nat
        /\ resets[l] \in Nat /\ watched \in Nat /\ GainPerMs \in Nat
    BY CapacityIsNat, RateAssumption DEF RateInv, RateTypeOK
  <1>2. /\ 2 * PermitCost * spent[l] = 2 * (PermitCost * spent[l])
        /\ 2 * Capacity * resets[l] = 2 * (Capacity * resets[l])
    BY <1>1
  <1>3. CASE watching
    <2>1. 2 * (PermitCost * spent[l]) + Credit(l)
              <= 2 * Capacity + GainPerMs * watched + 2 * (Capacity * resets[l])
      BY <1>3 DEF RateInv, RateCredit
    <2>2. 2 * (PermitCost * spent[l])
              <= 2 * Capacity + GainPerMs * watched + 2 * (Capacity * resets[l])
      BY <2>1, CreditTerms, CapacityIsNat
    <2>3. QED  BY <1>2, <2>2 DEF RateKept
  <1>4. CASE ~watching
    <2>1. spent[l] = 0
      BY <1>4 DEF RateInv, RateCredit
    <2>2. PermitCost * 0 = 0
      BY RateAssumption
    <2>3. 0 <= 2 * Capacity + GainPerMs * watched + 2 * (Capacity * resets[l])
      BY CreditTerms, CapacityIsNat
    <2>4. QED  BY <1>2, <2>1, <2>2, <2>3 DEF RateKept
  <1> QED  BY <1>3, <1>4

-----------------------------------------------------------------------------
(* The composition *)

LEMMA InitInv == Init => Inv
  <1> SUFFICES ASSUME Init
               PROVE  Inv
    OBVIOUS
  <1>1. RegistryInv /\ RateInv
    BY RegistryInitInv, RateInitInv DEF Init
  <1>2. resetting = 0 /\ created = 0 /\ \A l \in Limiters : spent[l] = 0
    BY DEF Init, RegistryInit, RateInit
  <1> QED  BY <1>1, <1>2 DEF Inv

\* The objects created are limiters.
LEMMA ObjectsAreLimiters ==
    ASSUME RegistryInv
    PROVE  1..created \subseteq Limiters
  BY LimitersAreObjects, RegistryAssumption DEF RegistryInv, RegistryTypeOK, Objects

LEMMA StepInv == Inv /\ [Next]_vars => Inv'
  <1> SUFFICES ASSUME Inv, [Next]_vars
               PROVE  Inv'
    OBVIOUS
  <1>0. /\ RegistryInv /\ RateInv /\ resetting \in 0..created
        /\ \A l \in Limiters : spent[l] > 0 => l \in handed
        /\ spent \in [Limiters -> Nat] /\ created \in Nat
    BY RegistryAssumption DEF Inv, RateInv, RateTypeOK, RegistryInv, RegistryTypeOK
  \* The registry moves; what was handed out stays so.
  <1>1. CASE RegistryStep /\ UNCHANGED <<rateVars, resetting>>
    <2>1. RegistryInv'
      BY <1>0, <1>1, RegistryInvKept
    <2>2. RateInv'
      BY <1>0, <1>1 DEF rateVars, RateInv, RateTypeOK, RateCredit, Credit, AtMost,
                        Capacity, MaxElapsed
    <2>3. handed \subseteq handed' /\ created <= created'
      BY <1>0, <1>1 DEF RegistryStep, GetOrCreate, Find, Create, InsertIfAbsent,
         InsertOverwriting, InsertForReread, Reread, RereadFails, Remove, Forget, Hand
    <2>4. created' \in Nat
      BY <2>1, RegistryAssumption DEF RegistryInv, RegistryTypeOK
    <2>5. spent' = spent /\ resetting' = resetting
      BY <1>1 DEF rateVars
    <2>6. resetting' \in 0..created'
      BY <1>0, <2>3, <2>4, <2>5
    <2>7. QED  BY <1>0, <2>1, <2>2, <2>3, <2>5, <2>6 DEF Inv
  \* Every other step leaves the registry alone.
  <1>2. ASSUME UNCHANGED registryVars
        PROVE  RegistryInv' /\ handed' = handed /\ created' = created
    BY <1>0, <1>2 DEF registryVars, RegistryInv, RegistryTypeOK, PlaceFits, Ledger, Bound
  <1>3. ASSUME NEW c \in Clients, Use(c)
        PROVE  Inv'
    <2>1. got[c] \in handed /\ got[c] \in Limiters
      BY <1>0, <1>3, ObjectsAreLimiters DEF Use, RegistryInv, RegistryTypeOK, PlaceFits
    <2>2. /\ RegistryInv' /\ handed' = handed /\ created' = created
          /\ resetting' = resetting
      BY <1>2, <1>3 DEF Use
    <2>3. ASSUME NEW permits \in 1..BurstCapacity, TryAcquire(got[c], permits)
          PROVE  Inv'
      <3>1. RateInv'
        BY <1>0, <2>1, <2>3, AcquireKeepsRate, RateAssumption
      <3>2. \A l \in Limiters : l # got[c] => spent'[l] = spent[l]
        BY <1>0, <2>3 DEF TryAcquire
      <3>3. QED  BY <1>0, <2>1, <2>2, <3>1, <3>2 DEF Inv
    <2>4. CASE AvailableTokens(got[c])
      <3>1. RateInv' /\ spent' = spent
        BY <1>0, <2>1, <2>4, RefillKeepsRate DEF AvailableTokens
      <3>2. QED  BY <1>0, <2>2, <3>1 DEF Inv
    <2> QED  BY <1>3, <2>3, <2>4 DEF Use
  <1>4. CASE ResetAll
    <2>1. RegistryInv' /\ handed' = handed /\ created' = created
      BY <1>2, <1>4 DEF ResetAll
    <2>2. RateInv' /\ spent' = spent
      BY <1>0, <1>4 DEF ResetAll, rateVars, RateInv, RateTypeOK, RateCredit, Credit,
                        AtMost, Capacity, MaxElapsed
    <2>3. resetting' \in 0..created
      BY <1>0, <1>4 DEF ResetAll, RegistryInv, RegistryTypeOK
    <2>4. QED  BY <1>0, <2>1, <2>2, <2>3 DEF Inv
  <1>5. CASE ResetNext
    <2>1. RegistryInv' /\ handed' = handed /\ created' = created
      BY <1>2, <1>5 DEF ResetNext
    <2>2. resetting \in Limiters
      BY <1>0, <1>5, ObjectsAreLimiters DEF ResetNext
    <2>3. RateInv' /\ spent' = spent /\ resetting' = 0
      BY <1>0, <1>5, <2>2, ResetKeepsRate DEF ResetNext, Reset
    <2>4. QED  BY <1>0, <2>1, <2>3 DEF Inv
  <1>6. CASE IsLimiter /\ Tick(1..created) /\ UNCHANGED <<registryVars, resetting>>
    <2>1. RegistryInv' /\ handed' = handed /\ created' = created
      BY <1>2, <1>6
    <2>2. RateInv' /\ spent' = spent /\ resetting' = resetting
      BY <1>0, <1>6, TickKeepsRate DEF Tick
    <2>3. QED  BY <1>0, <2>1, <2>2 DEF Inv
  <1>7. CASE IsLimiter /\ Watch /\ UNCHANGED <<registryVars, resetting>>
    <2>1. RegistryInv' /\ handed' = handed /\ created' = created
      BY <1>2, <1>7
    <2>2. RateInv' /\ spent' = spent /\ resetting' = resetting
      BY <1>0, <1>7, WatchKeepsRate DEF Watch
    <2>3. QED  BY <1>0, <2>1, <2>2 DEF Inv
  <1>8. CASE UNCHANGED vars
    <2>1. RegistryInv' /\ handed' = handed /\ created' = created
      BY <1>2, <1>8 DEF vars
    <2>2. RateInv' /\ spent' = spent /\ resetting' = resetting
      BY <1>0, <1>8 DEF vars, rateVars, RateInv, RateTypeOK, RateCredit, Credit,
                        AtMost, Capacity, MaxElapsed
    <2>3. QED  BY <1>0, <2>1, <2>2 DEF Inv
  <1> QED  BY <1>1, <1>3, <1>4, <1>5, <1>6, <1>7, <1>8 DEF Next

LEMMA InvHolds == Spec => []Inv
  BY InitInv, StepInv, PTL DEF Spec

\* The invariant says what the properties say.
LEMMA InvImplies == Inv => TypeOK /\ Agreement /\ RateByName
  <1> SUFFICES ASSUME Inv
               PROVE  TypeOK /\ Agreement /\ RateByName
    OBVIOUS
  <1>1. TypeOK
    BY DEF Inv, RegistryInv, RateInv, TypeOK
  <1>2. RateByName
    BY CreditKeepsRate DEF Inv, RateByName
  <1>3. Cardinality(handed) <= 1 + drops
    <2>1. IsFiniteSet(handed) /\ drops \in Nat /\ Cardinality(handed) \in Nat
      BY FS_CardinalityType DEF Inv, RegistryInv, RegistryTypeOK, Ledger
    <2>2. CASE stored = 0
      <3>1. handed \cup Bound = handed
        BY <2>2 DEF Bound
      <3>2. Cardinality(handed \cup Bound) <= drops + 0
        BY <2>2 DEF Inv, RegistryInv, Ledger
      <3>3. QED  BY <2>1, <3>1, <3>2
    <2>3. CASE stored # 0
      <3>1. Cardinality(handed \cup {stored}) <= drops + 1
        BY <2>3 DEF Inv, RegistryInv, Ledger, Bound
      <3>2. /\ Cardinality(handed) <= Cardinality(handed \cup {stored})
            /\ Cardinality(handed \cup {stored}) \in Nat
        BY <2>1, LedgerSubset
      <3>3. QED  BY <2>1, <3>1, <3>2
    <2> QED  BY <2>2, <2>3
  <1>4. Agreement
    BY <1>3 DEF Inv, RegistryInv, PlaceFits, Agreement
  <1> QED  BY <1>1, <1>2, <1>4

\* Every variable of a registry and of its limiters has its type: no bucket
\* overflows or is overdrawn (RateLimiter.doRefillTokens, tryAcquire).
THEOREM TypeOKHolds == Spec => []TypeOK
  BY InvHolds, InvImplies, PTL

\* Whatever clients ask for one name while it is removed or written over
\* (getOrCreate and remove of the five registries), as many objects are handed
\* out as there were bindings, and only CacheRegistry fails a caller.
THEOREM AgreementHolds == Spec => []Agreement
  BY InvHolds, InvImplies, PTL

\* Every limiter of a name keeps its rate in the interval that is watched,
\* for every rate, burst capacity and pattern of refills (doRefillTokens).
THEOREM RateByNameHolds == Spec => []RateByName
  BY InvHolds, InvImplies, PTL
=============================================================================
