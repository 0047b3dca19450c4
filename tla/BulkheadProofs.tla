--------------------------- MODULE BulkheadProofs ---------------------------
(***************************************************************************)
(* Proofs about Bulkhead, for any set of calls (also an infinite one) and  *)
(* any configuration that BulkheadConfig accepts.                          *)
(***************************************************************************)
EXTENDS Bulkhead, FiniteSetTheorems, SequenceTheorems, TLAPS

\* The places where a call has a permit, and where waitingCalls counts it.
Owners  == Owning \cup PermitLeaked
Waiters == Waiting \cup WaitLeaked

\* The calls that f puts in one of the places P: At(P) is Occupants(pc, P).
Occupants(f, P) == {c \in Calls : f[c] \in P}

\* One if the place p is in P, else zero.
Weight(p, P) == IF p \in P THEN 1 ELSE 0

-----------------------------------------------------------------------------
(* The inductive invariant *)

Types ==
    /\ pc \in [Calls -> Places]
    /\ permits \in Nat
    /\ queue \in Seq(Calls)
    /\ activeCalls \in Int
    /\ waitingCalls \in Int
    /\ totalCalls \in Nat
    /\ successfulCalls \in Nat
    /\ failedCalls \in Nat
    /\ rejectedCalls \in Nat
    /\ carried \subseteq Calls
    /\ twice \subseteq Calls

\* The permits: the set of owners is finite, though Calls need not be.
PermitsInv ==
    /\ IsFiniteSet(At(Owners))
    /\ permits + Cardinality(At(Owners)) = MaxConcurrentCalls

QueueInv ==
    /\ queue # <<>> => permits = 0
    /\ IsInjective(queue)
    /\ ToSet(queue) = At({"queued"})

ActiveInv ==
    /\ IsFiniteSet(At(Active))
    /\ activeCalls = Cardinality(At(Active))

WaitingInv ==
    /\ IsFiniteSet(At(Waiters))
    /\ waitingCalls = Cardinality(At(Waiters))

IInv == Types /\ PermitsInv /\ QueueInv /\ ActiveInv /\ WaitingInv

-----------------------------------------------------------------------------
(* Lemmas *)

\* From f to g, call c moves to the place to, and no other call moves.
Moves(f, g, c, to) ==
    /\ f \in [Calls -> Places]
    /\ g \in [Calls -> Places]
    /\ g[c] = to
    /\ \A d \in Calls : d # c => g[d] = f[d]

\* When one call moves from a place to another, the number of calls in the
\* places P changes by the weights of the two.
LEMMA MoveCounts ==
    ASSUME NEW f, NEW g, NEW c \in Calls, NEW to, Moves(f, g, c, to),
           NEW P, IsFiniteSet(Occupants(f, P))
    PROVE  /\ IsFiniteSet(Occupants(g, P))
           /\ Cardinality(Occupants(f, P)) \in Nat
           /\ Cardinality(Occupants(g, P)) =
                Cardinality(Occupants(f, P)) + Weight(to, P) - Weight(f[c], P)
<1> DEFINE F == Occupants(f, P)
           G == Occupants(g, P)
<1>1. IsFiniteSet(F) /\ Cardinality(F) \in Nat
  BY FS_CardinalityType
<1>2. F \subseteq Calls /\ G \subseteq Calls
  BY DEF Occupants
<1>3. \A d \in Calls : d # c => (d \in F <=> d \in G)
  BY DEF Occupants, Moves
<1>4. (c \in F <=> f[c] \in P) /\ (c \in G <=> to \in P)
  BY DEF Occupants, Moves
<1> HIDE DEF F, G
<1>5. CASE to \in P /\ f[c] \notin P
  <2>1. G = F \cup {c} /\ c \notin F
    BY <1>2, <1>3, <1>4, <1>5
  <2>2. IsFiniteSet(G) /\ Cardinality(G) = Cardinality(F) + 1
    BY <1>1, <2>1, FS_AddElement
  <2>3. QED
    BY <1>1, <1>5, <2>2 DEF Weight, F, G
<1>6. CASE to \notin P /\ f[c] \in P
  <2>1. G = F \ {c} /\ c \in F
    BY <1>2, <1>3, <1>4, <1>6
  <2>2. IsFiniteSet(G) /\ Cardinality(G) = Cardinality(F) - 1
    BY <1>1, <2>1, FS_RemoveElement
  <2>3. QED
    BY <1>1, <1>6, <2>2 DEF Weight, F, G
<1>7. CASE to \in P <=> f[c] \in P
  <2>1. G = F
    BY <1>2, <1>3, <1>4, <1>7
  <2>2. QED
    BY <1>1, <1>7, <2>1 DEF Weight, F, G
<1>8. QED
  BY <1>5, <1>6, <1>7

\* The same for a step of the specification that moves c.
LEMMA GotoCounts ==
    ASSUME Types, NEW c \in Calls, NEW to \in Places, pc' = [pc EXCEPT ![c] = to],
           NEW P, IsFiniteSet(At(P))
    PROVE  /\ IsFiniteSet(At(P)')
           /\ Cardinality(At(P)) \in Nat
           /\ Cardinality(At(P)') =
                Cardinality(At(P)) + Weight(to, P) - Weight(pc[c], P)
<1>1. Moves(pc, pc', c, to)
  BY DEF Types, Moves
<1>2. At(P) = Occupants(pc, P) /\ At(P)' = Occupants(pc', P)
  BY DEF At, Occupants
<1>3. QED
  BY <1>1, <1>2, MoveCounts

\* The counts of the invariant stay right in a step that moves c and changes
\* permits and the gauges by what the two places weigh.
LEMMA CountsKept ==
    ASSUME IInv, NEW c \in Calls, NEW to \in Places, pc' = [pc EXCEPT ![c] = to],
           permits' = permits + Weight(pc[c], Owners) - Weight(to, Owners),
           activeCalls' = activeCalls + Weight(to, Active) - Weight(pc[c], Active),
           waitingCalls' = waitingCalls + Weight(to, Waiters) - Weight(pc[c], Waiters)
    PROVE  PermitsInv' /\ ActiveInv' /\ WaitingInv'
<1>1. \A p, P : Weight(p, P) \in Int
  BY DEF Weight
<1>2. Types
  BY DEF IInv
<1>3. PermitsInv'
  <2>1. IsFiniteSet(At(Owners)) /\ permits + Cardinality(At(Owners)) = MaxConcurrentCalls
    BY DEF IInv, PermitsInv
  <2>2. /\ IsFiniteSet(At(Owners)') /\ Cardinality(At(Owners)) \in Nat
        /\ Cardinality(At(Owners)') =
             Cardinality(At(Owners)) + Weight(to, Owners) - Weight(pc[c], Owners)
    BY <1>2, <2>1, GotoCounts
  <2>3. permits \in Nat /\ Weight(to, Owners) \in Int /\ Weight(pc[c], Owners) \in Int
    BY <1>1, <1>2 DEF Types
  <2>4. permits' + Cardinality(At(Owners)') = MaxConcurrentCalls
    BY <2>1, <2>2, <2>3
  <2>5. QED
    BY <2>2, <2>4 DEF PermitsInv
<1>4. ActiveInv'
  <2>1. IsFiniteSet(At(Active)) /\ activeCalls = Cardinality(At(Active))
    BY DEF IInv, ActiveInv
  <2>2. /\ IsFiniteSet(At(Active)')
        /\ Cardinality(At(Active)') =
             Cardinality(At(Active)) + Weight(to, Active) - Weight(pc[c], Active)
    BY <1>2, <2>1, GotoCounts
  <2>3. QED
    BY <2>1, <2>2 DEF ActiveInv
<1>5. WaitingInv'
  <2>1. IsFiniteSet(At(Waiters)) /\ waitingCalls = Cardinality(At(Waiters))
    BY DEF IInv, WaitingInv
  <2>2. /\ IsFiniteSet(At(Waiters)')
        /\ Cardinality(At(Waiters)') =
             Cardinality(At(Waiters)) + Weight(to, Waiters) - Weight(pc[c], Waiters)
    BY <1>2, <2>1, GotoCounts
  <2>3. QED
    BY <2>1, <2>2 DEF WaitingInv
<1>6. QED
  BY <1>3, <1>4, <1>5

\* A step that moves c, but neither from nor to the queue, and changes the
\* counts as above, keeps the invariant.
LEMMA PlainStep ==
    ASSUME IInv, NEW c \in Calls, NEW to \in Places, pc' = [pc EXCEPT ![c] = to],
           pc[c] # "queued", to # "queued", UNCHANGED <<queue, carried>>, twice' \subseteq Calls,
           permits' = permits + Weight(pc[c], Owners) - Weight(to, Owners),
           permits' \in Nat, queue = <<>> \/ permits' = permits,
           activeCalls' = activeCalls + Weight(to, Active) - Weight(pc[c], Active),
           waitingCalls' = waitingCalls + Weight(to, Waiters) - Weight(pc[c], Waiters),
           totalCalls' \in Nat, successfulCalls' \in Nat, failedCalls' \in Nat,
           rejectedCalls' \in Nat
    PROVE  IInv'
<1>1. PermitsInv' /\ ActiveInv' /\ WaitingInv'
  BY CountsKept
<1>2. activeCalls' \in Int /\ waitingCalls' \in Int
  BY DEF IInv, Types, Weight
<1>3. Types'
  BY <1>2 DEF IInv, Types
<1>4. QueueInv'
  BY DEF IInv, Types, QueueInv, At, IsInjective, ToSet
<1>5. QED
  BY <1>1, <1>3, <1>4 DEF IInv

\* The first of a queue without repetition, and the rest of it.
LEMMA HeadLeaves ==
    ASSUME NEW q \in Seq(Calls), q # <<>>, IsInjective(q)
    PROVE  /\ Head(q) \in ToSet(q)
           /\ Head(q) \in Calls
           /\ Tail(q) \in Seq(Calls)
           /\ IsInjective(Tail(q))
           /\ ToSet(Tail(q)) = ToSet(q) \ {Head(q)}
<1>1. Len(q) \in Nat \ {0} /\ DOMAIN q = 1 .. Len(q)
  OBVIOUS
<1>2. /\ Tail(q) \in Seq(Calls)
      /\ DOMAIN Tail(q) = 1 .. (Len(q) - 1)
      /\ \A i \in 1 .. (Len(q) - 1) : Tail(q)[i] = q[i + 1]
  BY <1>1
<1>3. Head(q) = q[1] /\ Head(q) \in Calls
  BY <1>1
<1>4. IsInjective(Tail(q))
  BY <1>1, <1>2 DEF IsInjective
<1>5. ASSUME NEW x PROVE x \in ToSet(Tail(q)) <=> x \in ToSet(q) \ {Head(q)}
  <2>1. ASSUME x \in ToSet(Tail(q)) PROVE x \in ToSet(q) \ {Head(q)}
    <3>1. PICK i \in 1 .. (Len(q) - 1) : x = q[i + 1]
      BY <1>2, <2>1 DEF ToSet
    <3>2. QED
      BY <1>1, <1>3, <3>1 DEF ToSet, IsInjective
  <2>2. ASSUME x \in ToSet(q) \ {Head(q)} PROVE x \in ToSet(Tail(q))
    <3>1. PICK i \in 1 .. Len(q) : x = q[i] /\ i # 1
      BY <1>1, <1>3, <2>2 DEF ToSet
    <3>2. i - 1 \in 1 .. (Len(q) - 1) /\ Tail(q)[i - 1] = x
      BY <1>1, <1>2, <3>1
    <3>3. QED
      BY <1>2, <3>2 DEF ToSet
  <2>3. QED
    BY <2>1, <2>2
<1>6. Head(q) \in ToSet(q)
  BY <1>1, <1>3 DEF ToSet
<1>7. ToSet(Tail(q)) = ToSet(q) \ {Head(q)}
  BY ONLY <1>5
<1>8. QED
  BY <1>2, <1>3, <1>4, <1>6, <1>7

\* Taking one element out of a queue without repetition.
LEMMA RemoveLeaves ==
    ASSUME NEW q \in Seq(Calls), IsInjective(q), NEW i \in DOMAIN q
    PROVE  /\ RemoveAt(q, i) \in Seq(Calls)
           /\ IsInjective(RemoveAt(q, i))
           /\ ToSet(RemoveAt(q, i)) = ToSet(q) \ {q[i]}
<1> DEFINE n == Len(q)
           r == RemoveAt(q, i)
<1>1. n \in Nat /\ DOMAIN q = 1 .. n /\ i \in 1 .. n
  OBVIOUS
<1>2. /\ r \in Seq(Calls)
      /\ Len(r) = n - 1
      /\ DOMAIN r = 1 .. (n - 1)
      /\ \A j \in 1 .. (n - 1) : r[j] = IF j < i THEN q[j] ELSE q[j + 1]
  <2> DEFINE u == SubSeq(q, 1, i - 1)
             v == SubSeq(q, i + 1, n)
  <2>1. /\ u \in Seq(Calls) /\ Len(u) = i - 1
        /\ \A j \in 1 .. (i - 1) : u[j] = q[j]
    BY <1>1
  <2>2. /\ v \in Seq(Calls) /\ Len(v) = n - i
        /\ \A j \in 1 .. (n - i) : v[j] = q[i + j]
    BY <1>1
  <2>3. r = u \o v
    BY DEF RemoveAt
  <2> HIDE DEF u, v, r
  <2>4. /\ r \in Seq(Calls) /\ Len(r) = (i - 1) + (n - i)
        /\ \A j \in 1 .. ((i - 1) + (n - i)) :
             r[j] = IF j <= i - 1 THEN u[j] ELSE v[j - (i - 1)]
    BY <2>1, <2>2, <2>3, ConcatProperties
  <2>5. (i - 1) + (n - i) = n - 1
    BY <1>1
  <2>6. ASSUME NEW j \in 1 .. (n - 1)
        PROVE  r[j] = IF j < i THEN q[j] ELSE q[j + 1]
    <3>1. CASE j < i
      BY <1>1, <2>1, <2>4, <2>5, <3>1
    <3>2. CASE j >= i
      <4>1. r[j] = v[j - (i - 1)]
        BY <1>1, <2>4, <2>5, <3>2
      <4>2. j - (i - 1) \in 1 .. (n - i) /\ i + (j - (i - 1)) = j + 1
        BY <1>1, <3>2
      <4>3. QED
        BY <1>1, <2>2, <3>2, <4>1, <4>2
    <3>3. QED
      BY <1>1, <3>1, <3>2
  <2>7. Len(r) = n - 1 /\ DOMAIN r = 1 .. (n - 1)
    BY <1>1, <2>4, <2>5
  <2>8. QED
    BY <2>4, <2>6, <2>7
<1> HIDE DEF r
<1>3. IsInjective(r)
  <2>1. \A j, k \in 1 .. n : q[j] = q[k] => j = k
    BY <1>1 DEF IsInjective
  <2>2. SUFFICES ASSUME NEW j \in 1 .. (n - 1), NEW k \in 1 .. (n - 1), r[j] = r[k]
                 PROVE  j = k
    BY <1>2 DEF IsInjective
  <2>3. QED
    BY <1>1, <1>2, <2>1, <2>2
<1>4. ASSUME NEW x PROVE x \in ToSet(r) <=> x \in ToSet(q) \ {q[i]}
  <2>1. ASSUME x \in ToSet(r) PROVE x \in ToSet(q) \ {q[i]}
    <3>1. PICK j \in 1 .. (n - 1) : x = r[j]
      BY <1>2, <2>1 DEF ToSet
    <3>2. QED
      BY <1>1, <1>2, <3>1 DEF ToSet, IsInjective
  <2>2. ASSUME x \in ToSet(q) \ {q[i]} PROVE x \in ToSet(r)
    <3>1. PICK j \in 1 .. n : x = q[j] /\ j # i
      BY <1>1, <2>2 DEF ToSet
    <3>2. CASE j < i
      BY <1>1, <1>2, <3>1, <3>2 DEF ToSet
    <3>3. CASE j > i
      <4>1. j - 1 \in 1 .. (n - 1) /\ r[j - 1] = x
        BY <1>1, <1>2, <3>1, <3>3
      <4>2. QED
        BY <1>2, <4>1 DEF ToSet
    <3>4. QED
      BY <1>1, <3>1, <3>2, <3>3
  <2>3. QED
    BY <2>1, <2>2
<1>5. QED
  BY <1>2, <1>3, <1>4 DEF r, ToSet

\* release(), by a call that goes on to the place to: a call that leaves a
\* permit behind, whether the permit becomes free or passes to a waiter.
LEMMA HandedStep ==
    ASSUME IInv, NEW c \in Calls, NEW to \in Places,
           pc[c] \in Owners, pc[c] # "queued", to \notin Owners, to # "queued",
           pc[c] \in Active <=> to \in Active, pc[c] \in Waiters <=> to \in Waiters,
           pc' = Handed(c, to), ReleasePermit,
           UNCHANGED <<gauges, totalCalls, successfulCalls, failedCalls,
                       rejectedCalls, carried, twice>>
    PROVE  IInv'
<1>1. CASE queue = <<>>
  <2>1. pc' = [pc EXCEPT ![c] = to] /\ permits' = permits + 1 /\ queue' = queue
    BY <1>1 DEF Handed, ReleasePermit
  <2>2. /\ Weight(to, Owners) = 0 /\ Weight(pc[c], Owners) = 1
        /\ Weight(to, Active) = Weight(pc[c], Active) /\ Weight(to, Active) \in Nat
        /\ Weight(to, Waiters) = Weight(pc[c], Waiters) /\ Weight(to, Waiters) \in Nat
    BY DEF Weight
  <2>3. /\ permits' = permits + Weight(pc[c], Owners) - Weight(to, Owners) /\ permits' \in Nat
        /\ activeCalls' = activeCalls + Weight(to, Active) - Weight(pc[c], Active)
        /\ waitingCalls' = waitingCalls + Weight(to, Waiters) - Weight(pc[c], Waiters)
    BY <2>1, <2>2 DEF IInv, Types, gauges
  <2>4. totalCalls' \in Nat /\ successfulCalls' \in Nat /\ failedCalls' \in Nat
        /\ rejectedCalls' \in Nat /\ twice' \subseteq Calls
    BY DEF IInv, Types
  <2>5. QED
    BY <1>1, <2>1, <2>3, <2>4, PlainStep
<1>2. CASE queue # <<>>
  <2> DEFINE h == Head(queue)
             f == [pc EXCEPT ![c] = to]
  <2>1. /\ h \in Calls /\ pc[h] = "queued" /\ h # c
        /\ Tail(queue) \in Seq(Calls) /\ IsInjective(Tail(queue))
        /\ ToSet(Tail(queue)) = At({"queued"}) \ {h}
    BY <1>2, HeadLeaves DEF IInv, Types, QueueInv, At
  <2>2. permits' = permits /\ queue' = Tail(queue)
    BY <1>2 DEF ReleasePermit
  <2>3. pc' = [pc EXCEPT ![c] = to, ![h] = "resumed"]
    BY <1>2 DEF Handed
  <2> HIDE DEF h
  <2>4. /\ pc \in [Calls -> Places] /\ pc' \in [Calls -> Places]
        /\ pc'[c] = to /\ pc'[h] = "resumed"
        /\ \A d \in Calls \ {c, h} : pc'[d] = pc[d]
    BY <2>1, <2>3 DEF IInv, Types, Places, Waiting
  <2>5. Moves(pc, f, c, to) /\ Moves(f, pc', h, "resumed") /\ f[h] = "queued"
    BY <2>1, <2>4 DEF Moves
  <2> HIDE DEF f
  <2>6. Types'
    BY <2>1, <2>2, <2>4 DEF IInv, Types, gauges
  <2>7. QueueInv'
    <3>1. At({"queued"})' = At({"queued"}) \ {h}
      BY <2>1, <2>4 DEF At, Owners, Owning, PermitLeaked
    <3>2. queue # <<>> => permits = 0
      BY DEF IInv, QueueInv
    <3>3. QED
      BY <1>2, <2>1, <2>2, <3>1, <3>2 DEF QueueInv
  <2>8. ASSUME NEW P, IsFiniteSet(At(P))
        PROVE  /\ IsFiniteSet(At(P)')
               /\ Cardinality(At(P)) \in Nat
               /\ Cardinality(At(P)') = Cardinality(At(P))
                    + Weight(to, P) - Weight(pc[c], P)
                    + Weight("resumed", P) - Weight("queued", P)
    <3>1. At(P) = Occupants(pc, P) /\ At(P)' = Occupants(pc', P)
      BY DEF At, Occupants
    <3>w. Weight(to, P) \in Nat /\ Weight(pc[c], P) \in Nat
      BY DEF Weight
    <3>2. /\ IsFiniteSet(Occupants(f, P))
          /\ Cardinality(Occupants(pc, P)) \in Nat
          /\ Cardinality(Occupants(f, P)) = Cardinality(Occupants(pc, P))
               + Weight(to, P) - Weight(pc[c], P)
      BY <2>5, <2>8, <3>1, MoveCounts
    <3>3. /\ IsFiniteSet(Occupants(pc', P))
          /\ Cardinality(Occupants(f, P)) \in Nat
          /\ Cardinality(Occupants(pc', P)) = Cardinality(Occupants(f, P))
               + Weight("resumed", P) - Weight("queued", P)
      BY <2>1, <2>5, <3>2, MoveCounts
    <3>4. QED
      BY <3>1, <3>2, <3>3
  <2>9. PermitsInv'
    <3>1. /\ Weight(to, Owners) = 0 /\ Weight(pc[c], Owners) = 1
          /\ Weight("resumed", Owners) = 1 /\ Weight("queued", Owners) = 0
      BY DEF Weight, Owners, Owning, PermitLeaked
    <3>2. QED
      BY <2>2, <2>8, <3>1 DEF IInv, PermitsInv
  <2>10. ActiveInv'
    <3>1. /\ Weight(to, Active) = Weight(pc[c], Active) /\ Weight(to, Active) \in Nat
          /\ Weight("resumed", Active) = 0 /\ Weight("queued", Active) = 0
      BY DEF Weight, Active
    <3>2. QED
      BY <2>8, <3>1 DEF IInv, ActiveInv, gauges
  <2>11. WaitingInv'
    <3>1. /\ Weight(to, Waiters) = Weight(pc[c], Waiters) /\ Weight(to, Waiters) \in Nat
          /\ Weight("resumed", Waiters) = 1 /\ Weight("queued", Waiters) = 1
      BY DEF Weight, Waiters, Waiting, WaitLeaked
    <3>2. QED
      BY <2>8, <3>1 DEF IInv, WaitingInv, gauges
  <2>12. QED
    BY <2>6, <2>7, <2>9, <2>10, <2>11 DEF IInv
<1>3. QED
  BY <1>1, <1>2

\* A suspended acquire that ends without a permit, at a place where the call
\* still counts as waiting.
LEMMA LeaveQueueStep ==
    ASSUME IInv, NEW c \in Calls, NEW to \in {"expired", "cancelled"}, LeaveQueue(c, to)
    PROVE  IInv'
<1> USE DEF LeaveQueue, Goto, gauges, counters
<1>1. to \in Places /\ pc' = [pc EXCEPT ![c] = to] /\ pc[c] = "queued"
  BY DEF Places, Waiting, Ended
<1>2. PICK i \in DOMAIN queue : queue[i] = c /\ queue' = RemoveAt(queue, i)
  OBVIOUS
<1>3. /\ queue' \in Seq(Calls) /\ IsInjective(queue')
      /\ ToSet(queue') = At({"queued"}) \ {c}
  BY <1>2, RemoveLeaves DEF IInv, Types, QueueInv
<1>4. Types'
  BY <1>1, <1>3 DEF IInv, Types
<1>5. QueueInv'
  <2>1. At({"queued"})' = At({"queued"}) \ {c}
    BY <1>1 DEF At, IInv, Types
  <2>2. queue # <<>>
    BY <1>2 DEF IInv, Types
  <2>3. QED
    BY <1>3, <2>1, <2>2 DEF IInv, QueueInv
<1>6. PermitsInv' /\ ActiveInv' /\ WaitingInv'
  <2>1. /\ Weight(to, Owners) = 0 /\ Weight("queued", Owners) = 0
        /\ Weight(to, Active) = 0 /\ Weight("queued", Active) = 0
        /\ Weight(to, Waiters) = 1 /\ Weight("queued", Waiters) = 1
    BY DEF Weight, Owners, Owning, PermitLeaked, Active, Waiters, Waiting, WaitLeaked
  <2>2. /\ permits' = permits + Weight(pc[c], Owners) - Weight(to, Owners)
        /\ activeCalls' = activeCalls + Weight(to, Active) - Weight(pc[c], Active)
        /\ waitingCalls' = waitingCalls + Weight(to, Waiters) - Weight(pc[c], Waiters)
    BY <1>1, <2>1 DEF IInv, Types
  <2>3. QED
    BY <1>1, <2>2, CountsKept
<1>7. QED
  BY <1>4, <1>5, <1>6 DEF IInv

\* What the places weigh, for the steps that change no queue.
LEMMA PlaceWeights ==
    /\ \A p \in {"start", "refused", "full", "timedOut", "done"} :
         Weight(p, Owners) = 0 /\ Weight(p, Active) = 0 /\ Weight(p, Waiters) = 0
    /\ \A p \in {"entered", "queued", "expired", "cancelled"} :
         Weight(p, Owners) = 0 /\ Weight(p, Active) = 0 /\ Weight(p, Waiters) = 1
    /\ \A p \in {"resumed", "held", "expiredHolding", "cancelledHolding"} :
         Weight(p, Owners) = 1 /\ Weight(p, Active) = 0 /\ Weight(p, Waiters) = 1
    /\ \A p \in {"running", "erred", "settled", "strayed"} :
         Weight(p, Owners) = 1 /\ Weight(p, Active) = 1 /\ Weight(p, Waiters) = 0
    /\ \A p \in {"leaving", "timedOutHolding"} :
         Weight(p, Owners) = 1 /\ Weight(p, Active) = 0 /\ Weight(p, Waiters) = 0
BY DEF Weight, Owners, Owning, PermitLeaked, Active, Waiters, Waiting, WaitLeaked

\* A step of call c from one place to another that touches no queue.
LEMMA GotoStep ==
    ASSUME IInv, NEW c \in Calls, NEW from \in Places \ {"queued"},
           NEW to \in Places \ {"queued"}, Goto(c, from, to),
           UNCHANGED <<queue, carried>>, twice' \subseteq Calls,
           permits' = permits + Weight(from, Owners) - Weight(to, Owners),
           permits' \in Nat, queue = <<>> \/ permits' = permits,
           activeCalls' = activeCalls + Weight(to, Active) - Weight(from, Active),
           waitingCalls' = waitingCalls + Weight(to, Waiters) - Weight(from, Waiters),
           totalCalls' \in Nat, successfulCalls' \in Nat, failedCalls' \in Nat,
           rejectedCalls' \in Nat
    PROVE  IInv'
BY PlainStep DEF Goto

\* The steps of a call that leave the queue alone.
LEMMA CallStep ==
    ASSUME IInv, NEW c \in Calls,
           \/ Admit(c) \/ Refuse(c) \/ CountRefusal(c)
           \/ Acquire(c) \/ Resume(c) \/ CountTimeout(c)
           \/ Enter(c) \/ Succeed(c) \/ CountError(c) \/ Fail(c) \/ Deactivate(c)
    PROVE  IInv'
<1> USE PlaceWeights DEF semaphore, gauges, counters
<1>t. /\ permits \in Nat /\ activeCalls \in Int /\ waitingCalls \in Int
      /\ totalCalls \in Nat /\ successfulCalls \in Nat /\ failedCalls \in Nat
      /\ rejectedCalls \in Nat /\ twice \subseteq Calls
  BY DEF IInv, Types
<1>p. {"start", "refused", "full", "timedOut", "entered", "resumed", "held", "expired",
       "expiredHolding", "timedOutHolding", "running", "erred", "settled", "strayed", "leaving"}
        \subseteq Places \ {"queued"}
  BY DEF Places, Waiting, Active, Ended
<1>1. CASE Admit(c)
  BY <1>1, <1>t, <1>p, GotoStep DEF Admit
<1>2. CASE Refuse(c)
  BY <1>2, <1>t, <1>p, GotoStep DEF Refuse
<1>3. CASE CountRefusal(c)
  BY <1>3, <1>t, <1>p, GotoStep DEF CountRefusal
<1>4. CASE Acquire(c)
  <2>1. queue = <<>>
    BY <1>4 DEF Acquire, IInv, QueueInv
  <2>2. QED
    BY <1>4, <1>t, <1>p, <2>1, GotoStep DEF Acquire
<1>5. CASE Resume(c)
  BY <1>5, <1>t, <1>p, GotoStep DEF Resume
<1>6. CASE CountTimeout(c)
  <2>1. CASE Goto(c, "expired", "timedOut")
    BY <1>6, <1>t, <1>p, <2>1, GotoStep DEF CountTimeout
  <2>2. CASE Goto(c, "expiredHolding", "timedOutHolding")
    BY <1>6, <1>t, <1>p, <2>2, GotoStep DEF CountTimeout
  <2>3. QED
    BY <1>6, <2>1, <2>2 DEF CountTimeout
<1>7. CASE Enter(c)
  <2>1. CASE Goto(c, "held", "running")
    BY <1>7, <1>t, <1>p, <2>1, GotoStep DEF Enter
  <2>2. CASE Goto(c, "held", "strayed")
    BY <1>7, <1>t, <1>p, <2>2, GotoStep DEF Enter
  <2>3. QED
    BY <1>7, <2>1, <2>2 DEF Enter
<1>8. CASE Succeed(c)
  <2>1. CASE Goto(c, "running", "settled")
    BY <1>8, <1>t, <1>p, <2>1, GotoStep DEF Succeed
  <2>2. CASE Goto(c, "running", "erred")
    BY <1>8, <1>t, <1>p, <2>2, GotoStep DEF Succeed
  <2>3. QED
    BY <1>8, <2>1, <2>2 DEF Succeed
<1>e. CASE CountError(c)
  BY <1>e, <1>t, <1>p, GotoStep DEF CountError
<1>9. CASE Fail(c)
  BY <1>9, <1>t, <1>p, GotoStep DEF Fail
<1>10. CASE Deactivate(c)
  <2>1. activeCalls > 0
    <3>1. c \in At(Active) /\ IsFiniteSet(At(Active))
      BY <1>10 DEF Deactivate, Goto, At, Active, IInv, ActiveInv
    <3>2. At(Active) # {} /\ Cardinality(At(Active)) \in Nat
      BY <3>1, FS_CardinalityType
    <3>3. Cardinality(At(Active)) # 0
      BY <3>1, <3>2, FS_EmptySet
    <3>4. QED
      BY <3>2, <3>3 DEF IInv, ActiveInv
  <2>2. Goto(c, "settled", "leaving") /\ activeCalls' = activeCalls - 1
    BY <1>10, <2>1 DEF Deactivate
  <2>3. UNCHANGED <<semaphore, waitingCalls, counters>>
    BY <1>10 DEF Deactivate
  <2>4. /\ permits' = permits + Weight("settled", Owners) - Weight("leaving", Owners)
        /\ activeCalls' = activeCalls + Weight("leaving", Active) - Weight("settled", Active)
        /\ waitingCalls' = waitingCalls + Weight("leaving", Waiters) - Weight("settled", Waiters)
    BY <1>t, <2>2, <2>3
  <2>5. QED
    BY <1>t, <1>p, <2>2, <2>3, <2>4, GotoStep
<1>11. QED
  BY <1>1, <1>2, <1>3, <1>4, <1>5, <1>6, <1>7, <1>8, <1>e, <1>9, <1>10

\* Joining the queue.
LEMMA EnqueueStep ==
    ASSUME IInv, NEW c \in Calls, Enqueue(c)
    PROVE  IInv'
<1> USE DEF Enqueue, Goto, gauges, counters
<1>1. "queued" \in Places /\ pc' = [pc EXCEPT ![c] = "queued"] /\ pc[c] = "entered"
  BY DEF Places, Waiting
<1>2. /\ permits' = permits + Weight(pc[c], Owners) - Weight("queued", Owners)
      /\ activeCalls' = activeCalls + Weight("queued", Active) - Weight(pc[c], Active)
      /\ waitingCalls' = waitingCalls + Weight("queued", Waiters) - Weight(pc[c], Waiters)
  BY <1>1, PlaceWeights DEF IInv, Types
<1>3. PermitsInv' /\ ActiveInv' /\ WaitingInv'
  BY <1>1, <1>2, CountsKept
<1>4. Types'
  BY <1>1 DEF IInv, Types
<1>5. QueueInv'
  <2>1. queue \in Seq(Calls) /\ c \notin ToSet(queue) /\ IsInjective(queue)
    BY <1>1 DEF IInv, Types, QueueInv, At
  <2>2. queue' = Append(queue, c) /\ permits' = 0
    OBVIOUS
  <2>3. IsInjective(queue')
    BY <2>1, <2>2 DEF IsInjective, ToSet
  <2>4. ToSet(queue') = ToSet(queue) \cup {c}
    BY <2>1, <2>2 DEF ToSet
  <2>5. At({"queued"})' = At({"queued"}) \cup {c}
    BY <1>1 DEF At, IInv, Types
  <2>6. QED
    BY <2>2, <2>3, <2>4, <2>5 DEF IInv, QueueInv
<1>6. QED
  BY <1>3, <1>4, <1>5 DEF IInv

-----------------------------------------------------------------------------
(* The invariant is inductive *)

LEMMA InitIInv == Init => IInv
<1> SUFFICES ASSUME Init PROVE IInv
  OBVIOUS
<1> USE DEF Init
<1>1. "start" \in Places
  BY DEF Places
<1>2. Types
  BY <1>1, ConfigAssumption, EmptySeq DEF Types
<1>3. At(Owners) = {} /\ At(Active) = {} /\ At(Waiters) = {} /\ At({"queued"}) = {}
  BY DEF At, Owners, Owning, PermitLeaked, Active, Waiters, Waiting, WaitLeaked
<1>4. IsFiniteSet({}) /\ Cardinality({}) = 0
  BY FS_EmptySet
<1>5. PermitsInv /\ ActiveInv /\ WaitingInv
  BY <1>3, <1>4, ConfigAssumption DEF PermitsInv, ActiveInv, WaitingInv
<1>6. QueueInv
  BY <1>3 DEF QueueInv, IsInjective, ToSet
<1>7. QED
  BY <1>2, <1>5, <1>6 DEF IInv

\* A call gives its permit back: at the end of execute, or cancelled after
\* release had handed it one.
LEMMA ReleaseStep ==
    ASSUME IInv, NEW c \in Calls,
           Release(c) \/ GiveBack(c, "expired") \/ GiveBack(c, "cancelled")
    PROVE  IInv'
<1> USE DEF gauges, counters
<1>p. {"done", "expired", "cancelled"} \subseteq Places
  BY DEF Places, Waiting, Ended
<1>1. CASE Release(c)
  <2>1. /\ "leaving" \in Owners /\ "done" \notin Owners
        /\ "leaving" \notin Active /\ "done" \notin Active
        /\ "leaving" \notin Waiters /\ "done" \notin Waiters
    BY DEF Owners, Owning, PermitLeaked, Active, Waiters, Waiting, WaitLeaked
  <2>2. QED
    BY <1>p, <1>1, <2>1, HandedStep DEF Release
<1>2. ASSUME NEW to \in {"expired", "cancelled"}, GiveBack(c, to) PROVE IInv'
  <2>1. /\ "resumed" \in Owners /\ to \notin Owners
        /\ "resumed" \notin Active /\ to \notin Active
        /\ "resumed" \in Waiters /\ to \in Waiters
    BY DEF Owners, Owning, PermitLeaked, Active, Waiters, Waiting, WaitLeaked
  <2>2. QED
    BY <1>p, <1>2, <2>1, HandedStep DEF GiveBack
<1>3. QED
  BY <1>1, <1>2

LEMMA NextIInv == IInv /\ [Next]_vars => IInv'
<1> SUFFICES ASSUME IInv, [Next]_vars PROVE IInv'
  OBVIOUS
<1>p. {"held", "expiredHolding", "cancelledHolding"} \subseteq Places \ {"queued"}
  BY DEF Places, Waiting, Ended
<1>1. ASSUME NEW c \in Calls, Progress(c) PROVE IInv'
  BY <1>1, CallStep, EnqueueStep, ReleaseStep DEF Progress
<1>2. ASSUME NEW c \in Calls, Timeout(c) PROVE IInv'
  <2>1. CASE Goto(c, "held", "expiredHolding") /\ UNCHANGED <<semaphore, gauges, counters>>
    BY <1>p, <2>1, GotoStep, PlaceWeights DEF IInv, Types, semaphore, gauges, counters
  <2>2. QED
    BY <1>2, <2>1, LeaveQueueStep, ReleaseStep DEF Timeout
<1>3. ASSUME NEW c \in Calls, Cancel(c) PROVE IInv'
  <2>1. CASE Goto(c, "held", "cancelledHolding") /\ UNCHANGED <<semaphore, gauges, counters>>
    BY <1>p, <2>1, GotoStep, PlaceWeights DEF IInv, Types, semaphore, gauges, counters
  <2>2. QED
    BY <1>3, <2>1, LeaveQueueStep, ReleaseStep DEF Cancel
<1>4. CASE ResetStatistics
  <2>1. InFlight \subseteq Calls
    BY DEF InFlight, At
  <2>2. QED
    BY <1>4, <2>1 DEF ResetStatistics, IInv, Types, PermitsInv, QueueInv, ActiveInv,
                      WaitingInv, At, semaphore, gauges
<1>5. CASE UNCHANGED vars
  BY <1>5 DEF vars, semaphore, gauges, counters, IInv, Types, PermitsInv, QueueInv,
              ActiveInv, WaitingInv, At
<1>6. QED
  BY <1>1, <1>2, <1>3, <1>4, <1>5 DEF Next

LEMMA SpecIInv == Spec => []IInv
BY InitIInv, NextIInv, PTL DEF Spec

-----------------------------------------------------------------------------
(* Theorems *)

\* In a state of the invariant the calls that activeCalls counts, and among
\* them those whose block runs, all own permits.
LEMMA ActiveOwn ==
    ASSUME IInv
    PROVE  /\ permits \in 0 .. MaxConcurrentCalls
           /\ activeCalls \in 0 .. (MaxConcurrentCalls - permits)
           /\ waitingCalls \in Nat
           /\ IsFiniteSet(At({"running"}))
           /\ Cardinality(At({"running"})) <= activeCalls
<1>1. At(Active) \subseteq At(Owners) /\ At({"running"}) \subseteq At(Active)
  BY DEF At, Active, Owners, Owning, PermitLeaked
<1>2. IsFiniteSet(At(Owners)) /\ IsFiniteSet(At(Active)) /\ IsFiniteSet(At(Waiters))
  BY DEF IInv, PermitsInv, ActiveInv, WaitingInv
<1>3. /\ Cardinality(At(Owners)) \in Nat /\ Cardinality(At(Active)) \in Nat
      /\ Cardinality(At(Waiters)) \in Nat
  BY <1>2, FS_CardinalityType
<1>4. /\ Cardinality(At(Active)) <= Cardinality(At(Owners))
      /\ IsFiniteSet(At({"running"}))
      /\ Cardinality(At({"running"})) <= Cardinality(At(Active))
  BY <1>1, <1>2, FS_Subset
<1>5. QED
  BY <1>3, <1>4, ConfigAssumption
  DEF IInv, Types, PermitsInv, ActiveInv, WaitingInv

\* Every variable keeps its type: in particular the two gauges stay within
\* what they count, and permits never exceeds the configuration's.
THEOREM TypeCorrect == Spec => []TypeOK
<1>1. IInv => TypeOK
  BY ActiveOwn, ConfigAssumption DEF IInv, Types, TypeOK
<1>2. QED
  BY <1>1, SpecIInv, PTL

\* At most maxConcurrentCalls blocks run at once, for any number of calls,
\* whatever times out, is cancelled or is lost to a listener's Error.
THEOREM NeverTooManyRunning == Spec => []ConcurrencyLimit
<1>1. IInv => ConcurrencyLimit
  <2>1. SUFFICES ASSUME IInv PROVE ConcurrencyLimit
    OBVIOUS
  <2>2. Cardinality(At({"running"})) \in Nat
    BY <2>1, ActiveOwn, FS_CardinalityType
  <2>3. QED
    BY <2>1, <2>2, ActiveOwn, ConfigAssumption DEF ConcurrencyLimit
<1>2. QED
  BY <1>1, SpecIInv, PTL

\* Every permit is free, owned, or lost by one of the three leaks, and the
\* semaphore's queue holds exactly the suspended calls, each once.
THEOREM PermitsAccountedFor == Spec => []PermitAccounting
<1>1. IInv => PermitAccounting
  BY DEF IInv, PermitsInv, QueueInv, PermitAccounting, Owners
<1>2. QED
  BY <1>1, SpecIInv, PTL

\* The gauges count what they are read for, so that the availableCapacity
\* of the statistics is never negative.
THEOREM GaugesAccountedFor == Spec => []GaugeAccounting
<1>1. IInv => GaugeAccounting
  BY ActiveOwn, ConfigAssumption
  DEF IInv, Types, ActiveInv, WaitingInv, GaugeAccounting, AvailableCapacity, Waiters
<1>2. QED
  BY <1>1, SpecIInv, PTL

\* A step refuses a call only by Refuse.
LEMMA OnlyRefuseRefuses ==
    ASSUME IInv, [Next]_vars, NEW c \in Calls, pc[c] = "start", pc'[c] = "refused"
    PROVE  Refuse(c)
<1> USE DEF Goto, Handed
<1>t. pc \in [Calls -> Places] /\ queue \in Seq(Calls)
  BY DEF IInv, Types
<1>1. ASSUME NEW d \in Calls, Progress(d) PROVE Refuse(c)
  BY <1>t, <1>1 DEF Progress, Admit, Refuse, CountRefusal, Acquire, Enqueue, Resume,
                    CountTimeout, Enter, Succeed, CountError, Fail, Deactivate, Release
<1>2. ASSUME NEW d \in Calls, Timeout(d) \/ Cancel(d) PROVE FALSE
  BY <1>t, <1>2 DEF Timeout, Cancel, LeaveQueue, GiveBack
<1>3. CASE ResetStatistics \/ UNCHANGED vars
  BY <1>3 DEF ResetStatistics, vars
<1>4. QED
  BY <1>1, <1>2, <1>3 DEF Next

\* A call is refused at admission only while every permit is taken.
THEOREM RefusalMeansSaturation == Spec => RefusedOnlyWhenSaturated
<1> DEFINE A == \A c \in Calls : pc[c] = "start" /\ pc'[c] = "refused" => permits = 0
<1>1. IInv /\ [Next]_vars => [A]_vars
  <2>1. SUFFICES ASSUME IInv, [Next]_vars, NEW c \in Calls,
                        pc[c] = "start", pc'[c] = "refused"
                 PROVE  permits = 0
    OBVIOUS
  <2>2. ~(activeCalls < MaxConcurrentCalls)
    BY <2>1, OnlyRefuseRefuses DEF Refuse, CanAccept
  <2>3. QED
    BY <2>1, <2>2, ActiveOwn, ConfigAssumption
<1>2. QED
  BY <1>1, SpecIInv, PTL DEF Spec, RefusedOnlyWhenSaturated

-----------------------------------------------------------------------------
(* Refinement *)

\* What a call shows of itself at a place of execute.
PhaseAt(p) ==
    CASE p = "running"                                 -> "running"
      [] p \in {"erred", "settled", "leaving", "done"} -> "finished"
      [] p \in Ended \ {"done"}                        -> "denied"
      [] OTHER                                         -> "outside"

LEMMA PhaseOfPlaces ==
    /\ phase = [c \in Calls |-> PhaseAt(pc[c])]
    /\ PhaseAt("running") = "running"
    /\ \A p \in {"erred", "settled", "leaving", "done"} : PhaseAt(p) = "finished"
    /\ \A p \in Ended \ {"done"} : PhaseAt(p) = "denied"
    /\ \A p \in Places \ (Ended \cup {"running", "erred", "settled", "leaving"}) :
         PhaseAt(p) = "outside"
BY DEF phase, PhaseAt, Ended, Places, Waiting, Active

\* A step that moves one call shows as that call's move.
LEMMA PhaseMoves ==
    ASSUME Types, NEW c \in Calls, NEW to \in Places, pc' = [pc EXCEPT ![c] = to]
    PROVE  phase' = [phase EXCEPT ![c] = PhaseAt(to)]
<1>1. pc' \in [Calls -> Places] /\ pc'[c] = to /\ \A d \in Calls : d # c => pc'[d] = pc[d]
  BY DEF Types
<1>2. phase = [d \in Calls |-> PhaseAt(pc[d])] /\ phase' = [d \in Calls |-> PhaseAt(pc'[d])]
  BY DEF phase, PhaseAt
<1>3. QED
  BY <1>1, <1>2

\* A release shows as the move of the releasing call: the waiter that gets
\* the permit is outside before and after.
LEMMA PhaseHanded ==
    ASSUME IInv, NEW c \in Calls, NEW to \in Places, pc' = Handed(c, to), pc[c] # "queued"
    PROVE  phase' = [phase EXCEPT ![c] = PhaseAt(to)]
<1>1. CASE queue = <<>>
  BY <1>1, PhaseMoves DEF Handed, IInv
<1>2. CASE queue # <<>>
  <2>1. PICK h \in Calls : h = Head(queue) /\ pc[h] = "queued" /\ h # c
    BY <1>2, HeadLeaves DEF IInv, Types, QueueInv, At
  <2>2. pc' = [pc EXCEPT ![c] = to, ![h] = "resumed"]
    BY <1>2, <2>1 DEF Handed
  <2>3. /\ pc \in [Calls -> Places] /\ pc'[c] = to /\ pc'[h] = "resumed"
        /\ \A d \in Calls \ {c, h} : pc'[d] = pc[d]
    BY <2>1, <2>2 DEF IInv, Types
  <2>4. PhaseAt("queued") = "outside" /\ PhaseAt("resumed") = "outside"
    BY DEF PhaseAt, Ended
  <2>5. phase = [d \in Calls |-> PhaseAt(pc[d])] /\ phase' = [d \in Calls |-> PhaseAt(pc'[d])]
    BY DEF phase, PhaseAt
  <2>6. QED
    BY <2>1, <2>3, <2>4, <2>5
<1>3. QED
  BY <1>1, <1>2

\* The moves of the gate.
LEMMA GateStep ==
    ASSUME IInv, NEW c \in Calls, NEW to \in Places,
           phase' = [phase EXCEPT ![c] = PhaseAt(to)],
           \/ PhaseAt(to) = PhaseAt(pc[c])
           \/ PhaseAt(pc[c]) = "outside" /\ PhaseAt(to) = "denied"
           \/ PhaseAt(pc[c]) = "running" /\ PhaseAt(to) = "finished"
           \/ pc[c] = "held" /\ to = "running"
    PROVE  Gate!Next \/ UNCHANGED phase
<1>1. phase \in [Calls -> {"outside", "running", "finished", "denied"}]
      /\ phase[c] = PhaseAt(pc[c])
  BY DEF phase, PhaseAt
<1>2. CASE PhaseAt(to) = PhaseAt(pc[c])
  BY <1>1, <1>2
<1>3. CASE PhaseAt(pc[c]) = "outside" /\ PhaseAt(to) = "denied"
  BY <1>1, <1>3 DEF Gate!Next, Gate!Deny
<1>4. CASE PhaseAt(pc[c]) = "running" /\ PhaseAt(to) = "finished"
  BY <1>1, <1>4 DEF Gate!Next, Gate!Finish
<1>5. CASE pc[c] = "held" /\ to = "running"
  <2>1. PhaseAt("held") = "outside" /\ PhaseAt("running") = "running"
    BY DEF PhaseAt, Ended
  <2>2. Gate!In("running") = At({"running"})
    BY DEF Gate!In, At, phase, Ended
  <2>3. Cardinality(At({"running"})) < MaxConcurrentCalls
    <3>1. IsFiniteSet(At({"running"})) /\ c \notin At({"running"})
      BY <1>5, ActiveOwn DEF At
    <3>2. /\ IsFiniteSet(At({"running"}) \cup {c})
          /\ Cardinality(At({"running"}) \cup {c}) = Cardinality(At({"running"})) + 1
      BY <3>1, FS_AddElement
    <3>3. At({"running"}) \cup {c} \subseteq At(Owners) /\ IsFiniteSet(At(Owners))
      BY <1>5 DEF At, Owners, Owning, IInv, PermitsInv
    <3>4. Cardinality(At({"running"}) \cup {c}) <= Cardinality(At(Owners))
      BY <3>3, FS_Subset
    <3>5. Cardinality(At(Owners)) \in Nat /\ Cardinality(At({"running"})) \in Nat
      BY <3>1, <3>3, FS_CardinalityType
    <3>6. Cardinality(At(Owners)) <= MaxConcurrentCalls
      BY <3>5, ConfigAssumption DEF IInv, Types, PermitsInv
    <3>7. QED
      BY <3>2, <3>4, <3>5, <3>6, ConfigAssumption
  <2>4. Gate!Cardinality(At({"running"})) = Cardinality(At({"running"}))
    BY DEF Gate!Cardinality, Cardinality
  <2>5. QED
    BY <1>1, <1>5, <2>1, <2>2, <2>3, <2>4 DEF Gate!Next, Gate!Start
<1>6. QED
  BY <1>2, <1>3, <1>4, <1>5

\* Every step of a call is a step of the gate, or shows nothing.
LEMMA CallRefines ==
    ASSUME IInv, NEW c \in Calls, Progress(c) \/ Timeout(c) \/ Cancel(c)
    PROVE  Gate!Next \/ UNCHANGED phase
<1> USE PhaseOfPlaces
<1>t. Types
  BY DEF IInv
<1>1. ASSUME NEW from \in Places, NEW to \in Places, Goto(c, from, to),
             \/ PhaseAt(to) = PhaseAt(from)
             \/ PhaseAt(from) = "outside" /\ PhaseAt(to) = "denied"
             \/ PhaseAt(from) = "running" /\ PhaseAt(to) = "finished"
             \/ from = "held" /\ to = "running"
      PROVE  Gate!Next \/ UNCHANGED phase
  BY <1>t, <1>1, PhaseMoves, GateStep DEF Goto
<1>2. ASSUME NEW from \in Places \ {"queued"}, NEW to \in Places, pc[c] = from,
             pc' = Handed(c, to),
             PhaseAt(to) = PhaseAt(from) \/ (PhaseAt(from) = "outside" /\ PhaseAt(to) = "denied")
      PROVE  Gate!Next \/ UNCHANGED phase
  BY <1>2, PhaseHanded, GateStep
<1>3. /\ \A p \in {"start", "refused", "entered", "queued", "resumed", "held", "expired",
                   "expiredHolding"} : p \in Places /\ PhaseAt(p) = "outside"
      /\ \A p \in {"full", "timedOut", "timedOutHolding", "cancelled", "cancelledHolding",
                   "strayed"} : p \in Places /\ PhaseAt(p) = "denied"
      /\ \A p \in {"erred", "settled", "leaving", "done"} : p \in Places /\ PhaseAt(p) = "finished"
      /\ "running" \in Places /\ PhaseAt("running") = "running"
  BY DEF Places, Waiting, Active, Ended
<1> HIDE PhaseOfPlaces
<1>4. CASE Admit(c) \/ Refuse(c) \/ Acquire(c) \/ Enqueue(c) \/ Resume(c)
  BY <1>1, <1>3, <1>4 DEF Admit, Refuse, Acquire, Enqueue, Resume
<1>5. CASE CountRefusal(c) \/ CountTimeout(c)
  BY <1>1, <1>3, <1>5 DEF CountRefusal, CountTimeout
<1>6. CASE Enter(c)
  BY <1>1, <1>3, <1>6 DEF Enter
<1>7. CASE Succeed(c) \/ CountError(c) \/ Fail(c) \/ Deactivate(c)
  BY <1>1, <1>3, <1>7 DEF Succeed, CountError, Fail, Deactivate
<1>8. CASE Release(c)
  BY <1>2, <1>3, <1>8 DEF Release
<1>9. ASSUME NEW to \in {"expired", "cancelled"}, LeaveQueue(c, to) \/ GiveBack(c, to)
      PROVE  Gate!Next \/ UNCHANGED phase
  BY <1>1, <1>2, <1>3, <1>9 DEF LeaveQueue, GiveBack
<1>10. CASE Timeout(c)
  BY <1>1, <1>3, <1>9, <1>10 DEF Timeout
<1>11. CASE Cancel(c)
  BY <1>1, <1>3, <1>9, <1>11 DEF Cancel
<1>12. QED
  BY <1>4, <1>5, <1>6, <1>7, <1>8, <1>10, <1>11 DEF Progress

\* The bulkhead is a gate: at most maxConcurrentCalls blocks at a time, each
\* call's block at most once, and never the block of a call turned away.
THEOREM BulkheadIsGate == Spec => ImplementsGate
<1>1. Init => Gate!Init
  BY DEF Init, Gate!Init, phase, Ended
<1>2. IInv /\ [Next]_vars => [Gate!Next]_phase
  <2>1. SUFFICES ASSUME IInv, [Next]_vars PROVE Gate!Next \/ UNCHANGED phase
    OBVIOUS
  <2>2. CASE ResetStatistics \/ UNCHANGED vars
    BY <2>2 DEF ResetStatistics, vars, phase
  <2>3. QED
    BY <2>1, <2>2, CallRefines DEF Next
<1>3. QED
  BY <1>1, <1>2, SpecIInv, PTL DEF Spec, Gate!Spec, ImplementsGate

-----------------------------------------------------------------------------
(* Statistics *)

\* Where a call that a reset caught with its block running can be, and
\* where one whose end has been counted.
Begun == {"running", "strayed", "erred", "settled", "leaving", "done"}
Over  == {"settled", "leaving", "done"}

\* A call in carried was in flight, one in twice has left flight: neither
\* comes back, so that Enter finds its call in neither set.
StatInv ==
    /\ IsFiniteSet(InFlight) /\ IsFiniteSet(carried) /\ IsFiniteSet(twice)
    /\ carried \subseteq At(Begun)
    /\ twice \subseteq At(Over)
    /\ StatisticsBalance

\* One more member of F, which was not in K either.
LEMMA FlightGains ==
    ASSUME NEW F, NEW K, NEW c, IsFiniteSet(F), IsFiniteSet(K), c \notin F, c \notin K
    PROVE  /\ IsFiniteSet(F \cup {c})
           /\ Cardinality(F \ K) \in Nat
           /\ Cardinality((F \cup {c}) \ K) = Cardinality(F \ K) + 1
           /\ Cardinality(K \ (F \cup {c})) = Cardinality(K \ F)
<1>1. IsFiniteSet(F \ K) /\ Cardinality(F \ K) \in Nat
  BY FS_Difference, FS_CardinalityType
<1>2. (F \cup {c}) \ K = (F \ K) \cup {c} /\ c \notin F \ K
  OBVIOUS
<1>3. Cardinality((F \ K) \cup {c}) = Cardinality(F \ K) + 1
  BY <1>1, <1>2, FS_AddElement
<1>4. IsFiniteSet(F \cup {c})
  BY FS_AddElement
<1>5. K \ (F \cup {c}) = K \ F
  OBVIOUS
<1>6. Cardinality(K \ (F \cup {c})) = Cardinality(K \ F)
  BY ONLY <1>5
<1>7. QED
  BY <1>1, <1>2, <1>3, <1>4, <1>6

\* One member of F less: it is missing either from F \ K or has joined K \ F.
LEMMA FlightLoses ==
    ASSUME NEW F, NEW K, IsFiniteSet(F), IsFiniteSet(K), NEW c \in F
    PROVE  /\ IsFiniteSet(F \ {c})
           /\ Cardinality(F \ K) \in Nat /\ Cardinality(K \ F) \in Nat
           /\ Cardinality((F \ {c}) \ K) \in Nat /\ Cardinality(K \ (F \ {c})) \in Nat
           /\ Cardinality((F \ {c}) \ K) - Cardinality(K \ (F \ {c}))
                = Cardinality(F \ K) - Cardinality(K \ F) - 1
<1> DEFINE A == F \ K
           B == K \ F
           G == F \ {c}
<1>1. IsFiniteSet(A) /\ Cardinality(A) \in Nat /\ IsFiniteSet(B) /\ Cardinality(B) \in Nat
  BY FS_Difference, FS_CardinalityType
<1>2. IsFiniteSet(G)
  BY FS_RemoveElement
<1>3. CASE c \in K
  <2>1. G \ K = A /\ K \ G = B \cup {c} /\ c \notin B
    BY <1>3
  <2> HIDE DEF A, B, G
  <2>2. Cardinality(B \cup {c}) = Cardinality(B) + 1
    BY <1>1, <2>1, FS_AddElement
  <2>3. /\ Cardinality(G \ K) = Cardinality(A) /\ Cardinality(K \ G) = Cardinality(B) + 1
        /\ Cardinality(A) \in Nat /\ Cardinality(B) \in Nat
    BY <1>1, <2>1, <2>2
  <2>4. /\ Cardinality(G \ K) \in Nat /\ Cardinality(K \ G) \in Nat
        /\ Cardinality(G \ K) - Cardinality(K \ G) = Cardinality(A) - Cardinality(B) - 1
    BY <2>3
  <2>5. QED
    BY <1>1, <1>2, <2>4 DEF A, B, G
<1>4. CASE c \notin K
  <2>1. G \ K = A \ {c} /\ K \ G = B /\ c \in A
    BY <1>4
  <2> HIDE DEF A, B, G
  <2>2. IsFiniteSet(A \ {c}) /\ Cardinality(A \ {c}) = Cardinality(A) - 1
    BY <1>1, <2>1, FS_RemoveElement
  <2>3. Cardinality(A \ {c}) \in Nat
    BY <2>2, FS_CardinalityType
  <2>4. QED
    BY <1>1, <1>2, <2>1, <2>2, <2>3 DEF A, B, G
<1>5. QED
  BY <1>3, <1>4

\* Where the calls are, as far as the statistics are concerned.
SameFlight ==
    /\ InFlight' = InFlight
    /\ At(Begun) \subseteq At(Begun)'
    /\ At(Over) \subseteq At(Over)'

\* A step of call c between places that the statistics do not tell apart.
LEMMA MoveKeepsFlight ==
    ASSUME Types, NEW c \in Calls, NEW from, NEW to, Goto(c, from, to),
           from \in {"running", "strayed"} <=> to \in {"running", "strayed"},
           from \in Begun => to \in Begun, from \in Over => to \in Over
    PROVE  SameFlight
<1>1. /\ pc[c] = from /\ pc'[c] = to
      /\ \A d \in Calls : d # c => pc'[d] = pc[d]
  BY DEF Types, Goto
<1>2. QED
  BY <1>1 DEF SameFlight, InFlight, At

\* A release: the waiter that gets the permit has not begun.
LEMMA ReleaseKeepsFlight ==
    ASSUME IInv, NEW c \in Calls, NEW to, pc' = Handed(c, to), pc[c] # "queued",
           pc[c] \notin {"running", "strayed"}, to \notin {"running", "strayed"},
           pc[c] \in Begun => to \in Begun, pc[c] \in Over => to \in Over
    PROVE  SameFlight
<1>1. CASE queue = <<>>
  <2>1. Goto(c, pc[c], to) /\ Types
    BY <1>1 DEF Handed, Goto, IInv
  <2>2. QED
    BY <2>1, MoveKeepsFlight
<1>2. CASE queue # <<>>
  <2>1. PICK h \in Calls : h = Head(queue) /\ pc[h] = "queued" /\ h # c
    BY <1>2, HeadLeaves DEF IInv, Types, QueueInv, At
  <2>2. pc' = [pc EXCEPT ![c] = to, ![h] = "resumed"]
    BY <1>2, <2>1 DEF Handed
  <2>3. /\ pc'[c] = to /\ pc'[h] = "resumed"
        /\ \A d \in Calls \ {c, h} : pc'[d] = pc[d]
    BY <2>1, <2>2 DEF IInv, Types
  <2>4. QED
    BY <2>1, <2>3 DEF SameFlight, InFlight, At, Begun, Over
<1>3. QED
  BY <1>1, <1>2

\* A step that counts nothing (x = 0), or a call as started and rejected.
LEMMA QuietStep ==
    ASSUME Types, Types', StatInv, SameFlight, UNCHANGED <<carried, twice>>,
           NEW x \in Nat, totalCalls' = totalCalls + x, rejectedCalls' = rejectedCalls + x,
           successfulCalls' = successfulCalls, failedCalls' = failedCalls
    PROVE  StatInv'
<1> DEFINE out  == Cardinality(InFlight \ carried)
           back == Cardinality(carried \ InFlight)
           both == Cardinality(twice)
<1>1. out \in Nat /\ back \in Nat /\ both \in Nat
  BY FS_Difference, FS_CardinalityType DEF StatInv
<1>2. out' = out /\ back' = back /\ both' = both
  BY DEF SameFlight
<1>3. successfulCalls + failedCalls + rejectedCalls + out = totalCalls + back + both
  BY DEF StatisticsBalance, StatInv
<1> HIDE DEF out, back, both
<1>4. successfulCalls + failedCalls + (rejectedCalls + x) + out = (totalCalls + x) + back + both
  BY <1>1, <1>3 DEF Types
<1>5. StatisticsBalance'
  BY <1>2, <1>4 DEF StatisticsBalance, out, back, both
<1>6. QED
  BY <1>5 DEF StatInv, SameFlight

LEMMA CountersKept ==
    ASSUME Types, Types', StatInv, SameFlight, UNCHANGED counters
    PROVE  StatInv'
<1>1. totalCalls' = totalCalls + 0 /\ rejectedCalls' = rejectedCalls + 0
  BY DEF Types, counters
<1>2. QED
  BY <1>1, QuietStep DEF counters

\* The steps that count nothing, or count a call as started and rejected.
LEMMA QuietCall ==
    ASSUME IInv, IInv', StatInv, NEW c \in Calls,
           \/ Admit(c) \/ Refuse(c) \/ CountRefusal(c)
           \/ Acquire(c) \/ Enqueue(c) \/ Resume(c) \/ CountTimeout(c)
           \/ Deactivate(c) \/ Release(c) \/ Timeout(c) \/ Cancel(c)
    PROVE  StatInv'
<1> USE DEF counters
<1>t. Types /\ Types'
  BY DEF IInv
<1>1. CASE Admit(c) \/ Refuse(c) \/ Acquire(c) \/ Enqueue(c) \/ Resume(c) \/ Deactivate(c)
  <2>1. SameFlight
    BY <1>1, <1>t, MoveKeepsFlight
    DEF Admit, Refuse, Acquire, Enqueue, Resume, Deactivate, Begun, Over
  <2>2. UNCHANGED counters
    BY <1>1 DEF Admit, Refuse, Acquire, Enqueue, Resume, Deactivate
  <2>3. QED
    BY <1>t, <2>1, <2>2, CountersKept
<1>2. CASE CountRefusal(c) \/ CountTimeout(c)
  <2>1. SameFlight
    BY <1>2, <1>t, MoveKeepsFlight DEF CountRefusal, CountTimeout, Begun, Over
  <2>2. /\ totalCalls' = totalCalls + 1 /\ rejectedCalls' = rejectedCalls + 1
        /\ UNCHANGED <<successfulCalls, failedCalls, carried, twice>>
    BY <1>2 DEF CountRefusal, CountTimeout
  <2>3. QED
    BY <1>t, <2>1, <2>2, QuietStep
<1>3. CASE Release(c)
  <2>1. SameFlight
    BY <1>3, ReleaseKeepsFlight DEF Release, Begun, Over
  <2>2. QED
    BY <1>3, <1>t, <2>1, CountersKept DEF Release
<1>4. ASSUME NEW to \in {"expired", "cancelled"}, LeaveQueue(c, to) \/ GiveBack(c, to)
      PROVE  StatInv'
  <2>1. CASE LeaveQueue(c, to)
    <3>1. SameFlight
      BY <1>t, <2>1, MoveKeepsFlight DEF LeaveQueue, Begun, Over
    <3>2. QED
      BY <1>t, <2>1, <3>1, CountersKept DEF LeaveQueue
  <2>2. CASE GiveBack(c, to)
    <3>1. SameFlight
      BY <2>2, ReleaseKeepsFlight DEF GiveBack, Begun, Over
    <3>2. QED
      BY <1>t, <2>2, <3>1, CountersKept DEF GiveBack
  <2>3. QED
    BY <1>4, <2>1, <2>2
<1>5. ASSUME NEW to \in {"expiredHolding", "cancelledHolding"}, Goto(c, "held", to),
             UNCHANGED counters
      PROVE  StatInv'
  <2>1. SameFlight
    BY <1>5, <1>t, MoveKeepsFlight DEF Begun, Over
  <2>2. QED
    BY <1>5, <1>t, <2>1, CountersKept
<1>6. CASE Timeout(c) \/ Cancel(c)
  BY <1>4, <1>5, <1>6 DEF Timeout, Cancel
<1>7. QED
  BY <1>1, <1>2, <1>3, <1>6

\* A block starts: its call is in neither of the two sets.
LEMMA EnterCounts ==
    ASSUME IInv, IInv', StatInv, NEW c \in Calls, Enter(c)
    PROVE  StatInv'
<1> DEFINE out  == Cardinality(InFlight \ carried)
           back == Cardinality(carried \ InFlight)
           both == Cardinality(twice)
<1>t. Types /\ pc[c] = "held"
  BY DEF IInv, Enter, Goto
<1>1. /\ InFlight' = InFlight \cup {c}
      /\ At(Begun) \subseteq At(Begun)' /\ At(Over) \subseteq At(Over)'
  <2>1. /\ pc'[c] \in {"running", "strayed"}
        /\ \A d \in Calls : d # c => pc'[d] = pc[d]
    BY <1>t DEF Enter, Goto, Types
  <2>2. QED
    BY <1>t, <2>1 DEF InFlight, At, Begun, Over
<1>2. c \notin InFlight /\ c \notin carried
  BY <1>t DEF InFlight, StatInv, At, Begun
<1>3. UNCHANGED <<successfulCalls, failedCalls, rejectedCalls, carried, twice>>
      /\ totalCalls' = totalCalls + 1
  BY DEF Enter
<1>4. out \in Nat /\ back \in Nat /\ both \in Nat
  BY FS_Difference, FS_CardinalityType DEF StatInv
<1>5. /\ IsFiniteSet(InFlight \cup {c})
      /\ Cardinality((InFlight \cup {c}) \ carried) = out + 1
      /\ Cardinality(carried \ (InFlight \cup {c})) = back
  <2>1. IsFiniteSet(InFlight) /\ IsFiniteSet(carried)
    BY DEF StatInv
  <2>2. /\ IsFiniteSet(InFlight \cup {c})
        /\ Cardinality((InFlight \cup {c}) \ carried) = Cardinality(InFlight \ carried) + 1
        /\ Cardinality(carried \ (InFlight \cup {c})) = Cardinality(carried \ InFlight)
    BY <1>2, <2>1, FlightGains
  <2>3. QED
    BY <2>2
<1>6. successfulCalls + failedCalls + rejectedCalls + out = totalCalls + back + both
  BY DEF StatisticsBalance, StatInv
<1> HIDE DEF out, back, both
<1>7. successfulCalls + failedCalls + rejectedCalls + (out + 1) = (totalCalls + 1) + back + both
  BY <1>t, <1>4, <1>6 DEF Types
<1>8. StatisticsBalance'
  BY <1>1, <1>3, <1>5, <1>7 DEF StatisticsBalance, both
<1>9. QED
  BY <1>1, <1>3, <1>5, <1>8 DEF StatInv

\* A block ends: either it was in flight and not carried over a reset, or
\* there is one more call that was carried and is no longer in flight.
LEMMA EndCounts ==
    ASSUME IInv, IInv', StatInv, NEW c \in Calls, Succeed(c) \/ Fail(c)
    PROVE  StatInv'
<1> DEFINE out   == Cardinality(InFlight \ carried)
           back  == Cardinality(carried \ InFlight)
           both  == Cardinality(twice)
           out2  == Cardinality((InFlight \ {c}) \ carried)
           back2 == Cardinality(carried \ (InFlight \ {c}))
<1>t. Types /\ pc[c] = "running"
  BY DEF IInv, Succeed, Fail, Goto
<1>1. /\ InFlight' = InFlight \ {c}
      /\ At(Begun) \subseteq At(Begun)' /\ At(Over) \subseteq At(Over)'
  <2>1. pc'[c] \in {"erred", "settled"} /\ \A d \in Calls : d # c => pc'[d] = pc[d]
    BY <1>t DEF Succeed, Fail, Goto, Types
  <2>2. QED
    BY <1>t, <2>1 DEF InFlight, At, Begun, Over
<1>2. c \in InFlight
  BY <1>t DEF InFlight, At
<1>3. /\ IsFiniteSet(InFlight \ {c}) /\ both \in Nat
      /\ out \in Nat /\ back \in Nat /\ out2 \in Nat /\ back2 \in Nat
      /\ out2 - back2 = out - back - 1
  BY <1>2, FlightLoses, FS_CardinalityType DEF StatInv
<1>4. /\ successfulCalls \in Nat /\ failedCalls \in Nat /\ rejectedCalls \in Nat
      /\ totalCalls \in Nat
      /\ successfulCalls + failedCalls + rejectedCalls + out = totalCalls + back + both
  BY <1>t DEF StatisticsBalance, StatInv, Types
<1>5. UNCHANGED <<totalCalls, rejectedCalls, carried, twice>>
  BY DEF Succeed, Fail
<1>6. \/ successfulCalls' = successfulCalls + 1 /\ UNCHANGED failedCalls
      \/ failedCalls' = failedCalls + 1 /\ UNCHANGED successfulCalls
  BY DEF Succeed, Fail
<1> HIDE DEF out, back, both, out2, back2
<1>7. /\ (successfulCalls + 1) + failedCalls + rejectedCalls + out2 = totalCalls + back2 + both
      /\ successfulCalls + (failedCalls + 1) + rejectedCalls + out2 = totalCalls + back2 + both
  BY <1>3, <1>4
<1>8. StatisticsBalance'
  BY <1>1, <1>5, <1>6, <1>7 DEF StatisticsBalance, out2, back2, both
<1>9. QED
  BY <1>1, <1>3, <1>5, <1>8 DEF StatInv

\* A success becomes a failure as well: a new member of twice stands for it, whether
\* the success is still among the counts or not.
LEMMA ErrorCounts ==
    ASSUME IInv, StatInv, NEW c \in Calls, CountError(c)
    PROVE  StatInv'
<1> DEFINE out  == Cardinality(InFlight \ carried)
           back == Cardinality(carried \ InFlight)
           both == Cardinality(twice)
<1>t. Types /\ pc[c] = "erred"
  BY DEF IInv, CountError, Goto
<1>1. SameFlight /\ c \in At(Over)'
  <2>1. SameFlight
    BY <1>t, MoveKeepsFlight DEF CountError, Begun, Over
  <2>2. QED
    BY <1>t, <2>1 DEF CountError, Goto, Types, At, Over
<1>2. c \notin twice
  BY <1>t DEF StatInv, At, Over
<1>3. IsFiniteSet(twice \cup {c}) /\ Cardinality(twice \cup {c}) = both + 1
  BY <1>2, FS_AddElement DEF StatInv
<1>4. /\ successfulCalls \in Nat /\ failedCalls \in Nat /\ rejectedCalls \in Nat
      /\ totalCalls \in Nat /\ out \in Nat /\ back \in Nat /\ both \in Nat
      /\ successfulCalls + failedCalls + rejectedCalls + out = totalCalls + back + both
  BY <1>t, FS_Difference, FS_CardinalityType DEF StatisticsBalance, StatInv, Types
<1>5. /\ UNCHANGED <<totalCalls, successfulCalls, rejectedCalls, carried>>
      /\ failedCalls' = failedCalls + 1 /\ twice' = twice \cup {c}
  BY DEF CountError
<1>6. successfulCalls + (failedCalls + 1) + rejectedCalls + out = totalCalls + back + (both + 1)
  BY <1>4
<1>7. StatisticsBalance'
  BY <1>1, <1>3, <1>5, <1>6 DEF StatisticsBalance, SameFlight
<1>8. QED
  BY <1>1, <1>3, <1>5, <1>7 DEF StatInv, SameFlight

\* A reset: what is in flight is what has been carried over it.
LEMMA ResetCounts ==
    ASSUME IInv, StatInv, ResetStatistics
    PROVE  StatInv'
<1>1. /\ InFlight' = InFlight /\ carried' = InFlight /\ twice' = {}
      /\ At(Begun)' = At(Begun) /\ At(Over)' = At(Over)
      /\ totalCalls' = 0 /\ successfulCalls' = 0 /\ failedCalls' = 0 /\ rejectedCalls' = 0
  BY DEF ResetStatistics, InFlight, At
<1>2. InFlight \subseteq At(Begun)
  BY DEF InFlight, At, Begun
<1>3. IsFiniteSet({}) /\ Cardinality({}) = 0 /\ InFlight \ InFlight = {}
  BY FS_EmptySet
<1>4. (InFlight \ carried)' = {} /\ (carried \ InFlight)' = {}
  BY <1>1
<1>5. StatisticsBalance'
  BY <1>1, <1>3, <1>4 DEF StatisticsBalance
<1>6. QED
  BY <1>1, <1>2, <1>3, <1>5 DEF StatInv

\* The counters always agree: started is succeeded plus failed plus rejected plus in
\* flight, corrected for the calls in flight at a reset, and for the calls that a
\* listener's Error made failures after they had been counted as successes: a reset
\* between these two counts leaves a failure of a call that totalCalls does not have.
THEOREM CountersAgree == Spec => []StatisticsBalance
<1>1. Init => StatInv
  <2>1. SUFFICES ASSUME Init PROVE StatInv
    OBVIOUS
  <2>2. InFlight = {} /\ carried = {} /\ twice = {}
    BY <2>1 DEF Init, InFlight, At
  <2>3. IsFiniteSet({}) /\ Cardinality({}) = 0 /\ {} \ {} = {}
    BY FS_EmptySet
  <2>4. StatisticsBalance
    BY <2>1, <2>2, <2>3 DEF Init, StatisticsBalance
  <2>5. QED
    BY <2>2, <2>3, <2>4 DEF StatInv
<1>2. IInv /\ IInv' /\ StatInv /\ [Next]_vars => StatInv'
  <2>1. SUFFICES ASSUME IInv, IInv', StatInv, [Next]_vars PROVE StatInv'
    OBVIOUS
  <2>2. CASE UNCHANGED vars
    <3>1. SameFlight /\ UNCHANGED counters
      BY <2>2 DEF vars, SameFlight, InFlight, At
    <3>2. QED
      BY <2>1, <3>1, CountersKept DEF IInv
  <2>3. ASSUME NEW c \in Calls, Progress(c) \/ Timeout(c) \/ Cancel(c) PROVE StatInv'
    BY <2>1, <2>3, QuietCall, EnterCounts, EndCounts, ErrorCounts DEF Progress
  <2>4. QED
    BY <2>1, <2>2, <2>3, ResetCounts DEF Next
<1>3. StatInv => StatisticsBalance
  BY DEF StatInv
<1>4. QED
  BY <1>1, <1>2, <1>3, SpecIInv, PTL DEF Spec

-----------------------------------------------------------------------------
(* What availableCapacity tells *)

\* Calls that withTimeoutOrNull took the permit from that acquire had returned.
Deprived == {"timedOutHolding", "cancelledHolding"}

AtRest == At(Ended \cup {"start"}) = Calls

\* When no call is under way, availableCapacity exceeds the permits of the semaphore by
\* the number of calls that have ended with a result of acquire that nobody saw.  The
\* leak of a listener's Error is in both, so that they agree about it.
CapacityExceedsByDeprived ==
    AtRest => AvailableCapacity = permits + Cardinality(At(Deprived))

LEMMA LeakedParts ==
    ASSUME IInv, AtRest
    PROVE  /\ At(Owners) = At(Active) \cup At(Deprived)
           /\ At(Active) \cap At(Deprived) = {}
           /\ IsFiniteSet(At(Active)) /\ IsFiniteSet(At(Deprived))
<1>1. \A c \in Calls : pc[c] \in Ended \cup {"start"}
  BY DEF AtRest, At
<1>2. At(Owners) = At(Active) \cup At(Deprived)
  BY <1>1 DEF At, Owners, Owning, PermitLeaked, Active, Deprived, Ended
<1>3. At(Active) \cap At(Deprived) = {}
  BY DEF At, Active, Deprived
<1>4. QED
  BY <1>2, <1>3, FS_Subset DEF IInv, PermitsInv

\* The statistics report a permit too much for ever for each call whose timer, or
\* cancellation, came between the return of acquire and that of withTimeoutOrNull, and
\* for no other reason.
THEOREM CapacityIsOff == Spec => []CapacityExceedsByDeprived
<1>1. ASSUME IInv, AtRest
      PROVE  AvailableCapacity = permits + Cardinality(At(Deprived))
  <2>1. Cardinality(At(Owners)) = Cardinality(At(Active)) + Cardinality(At(Deprived))
    <3>1. Cardinality(At(Active) \cup At(Deprived)) =
              Cardinality(At(Active)) + Cardinality(At(Deprived))
                  - Cardinality(At(Active) \cap At(Deprived))
      BY <1>1, LeakedParts, FS_Union
    <3>2. At(Active) \cap At(Deprived) = {} /\ Cardinality({}) = 0
      BY <1>1, LeakedParts, FS_EmptySet
    <3>3. At(Owners) = At(Active) \cup At(Deprived)
      BY <1>1, LeakedParts
    <3>4. Cardinality(At(Active)) \in Nat /\ Cardinality(At(Deprived)) \in Nat
      BY <1>1, LeakedParts, FS_CardinalityType
    <3>5. Cardinality(At(Owners)) = Cardinality(At(Active)) + Cardinality(At(Deprived)) - 0
      BY <3>1, <3>2, <3>3
    <3>6. QED
      BY <3>4, <3>5
  <2>2. Cardinality(At(Active)) \in Nat /\ Cardinality(At(Deprived)) \in Nat
    BY <1>1, LeakedParts, FS_CardinalityType
  <2>3. QED
    BY <1>1, <2>1, <2>2, ConfigAssumption
    DEF IInv, Types, PermitsInv, ActiveInv, AvailableCapacity
<1>2. IInv => CapacityExceedsByDeprived
  BY <1>1 DEF CapacityExceedsByDeprived
<1>3. QED
  BY <1>2, SpecIInv, PTL

\* Without maxWaitDuration nobody is deprived, and availableCapacity is what it is
\* documented to be whenever no call is under way.
THEOREM CapacityIsRightWithoutTimeout ==
    ASSUME ~ TimedWait
    PROVE  Spec => []CapacityIsPermits
<1> DEFINE NoneDeprived == At(Deprived \cup {"expiredHolding"}) = {}
<1>1. Init => NoneDeprived
  BY DEF Init, At, Deprived
<1>2. ASSUME IInv, NoneDeprived, [Next]_vars PROVE NoneDeprived'
  <2> USE DEF Goto, Handed
  <2>t. pc \in [Calls -> Places] /\ queue \in Seq(Calls)
    BY <1>2 DEF IInv, Types
  <2>1. ASSUME NEW c \in Calls, Progress(c) PROVE NoneDeprived'
    BY <1>2, <2>t, <2>1
    DEF Progress, Admit, Refuse, CountRefusal, Acquire, Enqueue, Resume, CountTimeout,
        Enter, Succeed, CountError, Fail, Deactivate, Release, At, Deprived
  <2>2. ASSUME NEW c \in Calls, Timeout(c) \/ Cancel(c) PROVE NoneDeprived'
    BY <1>2, <2>t, <2>2 DEF Timeout, Cancel, LeaveQueue, GiveBack, At, Deprived
  <2>3. CASE ResetStatistics \/ UNCHANGED vars
    BY <1>2, <2>3 DEF ResetStatistics, vars, At
  <2>4. QED
    BY <1>2, <2>1, <2>2, <2>3 DEF Next
<1>3. NoneDeprived /\ IInv /\ CapacityExceedsByDeprived => CapacityIsPermits
  <2> SUFFICES ASSUME NoneDeprived, IInv, CapacityExceedsByDeprived, AtRest
               PROVE  AvailableCapacity = permits
    BY DEF CapacityIsPermits, AtRest
  <2>1. At(Deprived) = {} /\ permits \in Nat
    BY DEF At, IInv, Types
  <2>2. QED
    BY <2>1, FS_EmptySet DEF CapacityExceedsByDeprived
<1>4. QED
  BY <1>1, <1>2, <1>3, SpecIInv, CapacityIsOff, PTL DEF Spec
=============================================================================
