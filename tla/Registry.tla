------------------------------ MODULE Registry ------------------------------
(***************************************************************************)
(* getOrCreate, get and remove of the registries, for one name: no         *)
(* operation of a registry touches another name's binding than the one it  *)
(* was called with.  Every transaction is an action; the object is created *)
(* between two transactions, where only its creator knows it, together     *)
(* with the lookup that found nothing.  The five registries end            *)
(* getOrCreate in three ways, of which Init chooses one:                   *)
(*                                                                         *)
(*   ifAbsent   CircuitBreaker, RateLimiter, TimeLimiter: look again, and  *)
(*              store the new object only if there is still none           *)
(*   reread     Cache: the same, but what is stored is read in a third     *)
(*              transaction                                                *)
(*   overwrite  Bulkhead: store the new object whatever is there           *)
(***************************************************************************)
EXTENDS Integers, FiniteSets

CONSTANTS
    Clients,
    Protocols,   \* the protocols considered
    MaxCreated,  \* bound: objects created
    MaxDrops     \* bound: removals

ASSUME RegistryAssumption ==
    /\ Protocols \subseteq {"ifAbsent", "reread", "overwrite"}
    /\ MaxCreated \in Nat
    /\ MaxDrops \in Nat

VARIABLES
    protocol, \* how this registry ends getOrCreate
    stored,   \* the object bound to the name, 0 for none
    created,  \* the objects created so far are 1..created
    place,    \* place[c]: where client c is
    mine,     \* mine[c]: the object c created, 0 for none
    got,      \* got[c]: the object c was given, 0 for none
    handed,   \* history: the objects given to any client
    drops     \* history: bindings removed or written over

registryVars == <<protocol, stored, created, place, mine, got, handed, drops>>

Objects == 1..MaxCreated
Steps   == {"idle", "inserting", "rereading", "holding", "failed"}

RegistryInit ==
    /\ protocol \in Protocols
    /\ stored = 0
    /\ created = 0
    /\ place = [c \in Clients |-> "idle"]
    /\ mine  = [c \in Clients |-> 0]
    /\ got   = [c \in Clients |-> 0]
    /\ handed = {}
    /\ drops = 0

Goto(c, from, to) ==
    /\ place[c] = from
    /\ place' = [place EXCEPT ![c] = to]

\* getOrCreate or get returns object i.
Hand(c, i) ==
    /\ got' = [got EXCEPT ![c] = i]
    /\ mine' = [mine EXCEPT ![c] = 0]
    /\ handed' = handed \cup {i}

-----------------------------------------------------------------------------
\* The first transaction finds the name bound; get(name) does no more.
Find(c) ==
    /\ stored # 0
    /\ Goto(c, "idle", "holding")
    /\ Hand(c, stored)
    /\ UNCHANGED <<protocol, stored, created, drops>>

\* It finds nothing: a new object is configured and created.
Create(c) ==
    /\ stored = 0
    /\ created < MaxCreated
    /\ Goto(c, "idle", "inserting")
    /\ created' = created + 1
    /\ mine' = [mine EXCEPT ![c] = created + 1]
    /\ UNCHANGED <<protocol, stored, got, handed, drops>>

(* Faulty: the caller is given the object it made even if another is stored. *)
InsertIfAbsent_ReturnsOwn(c) ==
    /\ protocol = "ifAbsent"
    /\ Goto(c, "inserting", "holding")
    /\ stored' = IF stored = 0 THEN mine[c] ELSE stored
    /\ Hand(c, mine[c])
    /\ UNCHANGED <<protocol, created, drops>>

InsertIfAbsent(c) ==
    /\ protocol = "ifAbsent"
    /\ Goto(c, "inserting", "holding")
    /\ stored' = IF stored = 0 THEN mine[c] ELSE stored
    /\ Hand(c, stored')
    /\ UNCHANGED <<protocol, created, drops>>

InsertOverwriting(c) ==
    /\ protocol = "overwrite"
    /\ Goto(c, "inserting", "holding")
    /\ stored' = mine[c]
    /\ drops' = IF stored = 0 THEN drops ELSE drops + 1
    /\ Hand(c, mine[c])
    /\ UNCHANGED <<protocol, created>>

InsertForReread(c) ==
    /\ protocol = "reread"
    /\ Goto(c, "inserting", "rereading")
    /\ stored' = IF stored = 0 THEN mine[c] ELSE stored
    /\ mine' = [mine EXCEPT ![c] = 0]
    /\ UNCHANGED <<protocol, created, got, handed, drops>>

Reread(c) ==
    /\ stored # 0
    /\ Goto(c, "rereading", "holding")
    /\ Hand(c, stored)
    /\ UNCHANGED <<protocol, stored, created, drops>>

\* The name was removed since: the cast of null throws.
RereadFails(c) ==
    /\ stored = 0
    /\ Goto(c, "rereading", "failed")
    /\ UNCHANGED <<protocol, stored, created, mine, got, handed, drops>>

Remove ==
    /\ stored # 0
    /\ drops < MaxDrops
    /\ stored' = 0
    /\ drops' = drops + 1
    /\ UNCHANGED <<protocol, created, place, mine, got, handed>>

\* The client lets go of what it has and may ask again.
Forget(c) ==
    /\ \/ Goto(c, "holding", "idle")
       \/ Goto(c, "failed", "idle")
    /\ got' = [got EXCEPT ![c] = 0]
    /\ UNCHANGED <<protocol, stored, created, mine, handed, drops>>

GetOrCreate(c) ==
    \/ Find(c) \/ Create(c)
    \/ InsertIfAbsent(c) \/ InsertOverwriting(c) \/ InsertForReread(c)
    \/ Reread(c) \/ RereadFails(c)

RegistryStep ==
    \/ \E c \in Clients : GetOrCreate(c) \/ Forget(c)
    \/ Remove

-----------------------------------------------------------------------------
RegistryTypeOK ==
    /\ protocol \in Protocols
    /\ stored \in 0..created
    /\ created \in 0..MaxCreated
    /\ place \in [Clients -> Steps]
    /\ mine \in [Clients -> 0..created]
    /\ got \in [Clients -> 0..created]
    /\ handed \subseteq 1..created
    /\ drops \in Nat

(* Callers that ask for one name share one object: as many objects are handed
   out as there were bindings, the first and one after each removal or
   overwriting.  A caller that is given nothing was overtaken by a removal,
   and only CacheRegistry lets that happen. *)
Agreement ==
    /\ Cardinality(handed) <= 1 + drops
    /\ \A c \in Clients :
           place[c] = "failed" => protocol = "reread" /\ drops > 0
=============================================================================
