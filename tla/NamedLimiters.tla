--------------------------- MODULE NamedLimiters ---------------------------
(***************************************************************************)
(* Registry and RateLimiter composed: clients get a limiter by its name    *)
(* and acquire permits from what they got, while the name is removed and   *)
(* bound again and RateLimiterRegistry.resetAll resets what it found.      *)
(* With the other two protocols the objects are caches or bulkheads, and   *)
(* only the registry moves.                                                *)
(***************************************************************************)
EXTENDS Registry, RateLimiter

ASSUME LimitersAreObjects == Limiters = Objects

VARIABLE resetting \* resetAll's snapshot: the limiter it is to reset, or 0

vars == <<registryVars, rateVars, resetting>>

Init == RegistryInit /\ RateInit /\ resetting = 0

IsLimiter == protocol = "ifAbsent"

\* A client uses the limiter it holds; execute and tryExecute do no more.
Use(c) ==
    /\ IsLimiter
    /\ place[c] = "holding"
    /\ \/ \E permits \in 1..BurstCapacity : TryAcquire(got[c], permits)
       \/ AvailableTokens(got[c])
    /\ UNCHANGED <<registryVars, resetting>>

\* resetAll reads the limiters in one transaction ...
ResetAll ==
    /\ IsLimiter
    /\ resetting = 0
    /\ stored # 0
    /\ resetting' = stored
    /\ UNCHANGED <<registryVars, rateVars>>

\* ... and resets them one by one afterwards, removed or not.
ResetNext ==
    /\ resetting # 0
    /\ Reset(resetting)
    /\ resetting' = 0
    /\ UNCHANGED registryVars

Next ==
    \/ RegistryStep /\ UNCHANGED <<rateVars, resetting>>
    \/ \E c \in Clients : Use(c)
    \/ ResetAll
    \/ ResetNext
    \/ IsLimiter /\ Tick(1..created) /\ UNCHANGED <<registryVars, resetting>>
    \/ IsLimiter /\ Watch /\ UNCHANGED <<registryVars, resetting>>

Spec == Init /\ [][Next]_vars

-----------------------------------------------------------------------------
TypeOK ==
    /\ RegistryTypeOK
    /\ RateTypeOK
    /\ resetting \in 0..created

(* In any interval, the callers of one name together get no more permits than
   the burst capacity and the rate times the interval, and a burst more for
   each reset, for every limiter the name was bound to (Agreement bounds how
   many those are): every permit is from a limiter some caller was given,
   none of those credits a time twice, and a removed one that is still held
   keeps its rate beside the new one. *)
RateByName ==
    \A l \in Limiters : RateKept(l) /\ (spent[l] > 0 => l \in handed)
=============================================================================
