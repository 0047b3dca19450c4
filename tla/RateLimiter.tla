---------------------------- MODULE RateLimiter ----------------------------
(***************************************************************************)
(* RateLimiter's token bucket: tryAcquire, which execute repeats until it  *)
(* succeeds, availableTokens, reset, and the refill they begin with.       *)
(*                                                                         *)
(* One limiter per element of Limiters.  Each operation is one             *)
(* transaction.  Tokens are counted in units of which a millisecond brings *)
(* GainPerMs and a permit takes PermitCost: permitsPerSecond is            *)
(* 1000 * GainPerMs / PermitCost, exactly, where the code has a Double.    *)
(* Time is in half milliseconds, so that a refill can fall between two     *)
(* milliseconds: it counts whole ones, but moves lastRefillTime to the     *)
(* present.  What is kept of lastRefillTime is its age, which stops        *)
(* growing where any refill fills the bucket.  The clock does not go back. *)
(***************************************************************************)
EXTENDS Integers

CONSTANTS
    Limiters,
    BurstCapacity,  \* config.burstCapacity
    GainPerMs,      \* units a millisecond brings
    PermitCost,     \* units in a permit
    MaxWatch,       \* bound: half milliseconds watched
    MaxResets       \* bound: resets watched

(* The require() calls of RateLimiterConfig. *)
ASSUME RateAssumption ==
    /\ BurstCapacity \in Nat \ {0}
    /\ GainPerMs \in Nat \ {0}
    /\ PermitCost \in Nat \ {0}
    /\ MaxWatch \in Nat
    /\ MaxResets \in Nat

VARIABLES
    tokens,   \* tokens[l], in units
    elapsed,  \* elapsed[l]: now - lastRefillTime, in half milliseconds
    watching, \* history: has the interval that is watched begun?
    watched,  \* history: its length so far, in half milliseconds
    spent,    \* history: spent[l], permits acquired in it
    resets    \* history: resets[l], resets in it

rateVars == <<tokens, elapsed, watching, watched, spent, resets>>

Capacity   == BurstCapacity * PermitCost
MaxElapsed == 2 * (Capacity \div GainPerMs + 1)

RateInit ==
    /\ tokens  = [l \in Limiters |-> Capacity]
    /\ elapsed = [l \in Limiters |-> 0]
    /\ watching = FALSE
    /\ watched = 0
    /\ spent  = [l \in Limiters |-> 0]
    /\ resets = [l \in Limiters |-> 0]

AtMost(a, b) == IF a <= b THEN a ELSE b

(* Faulty: the bucket overflows. *)
Refilled_NoCap(l) == tokens[l] + GainPerMs * (elapsed[l] \div 2)

Refilled(l) == AtMost(tokens[l] + GainPerMs * (elapsed[l] \div 2), Capacity)

(* Faulty: lastRefillTime stays, the time since is credited again. *)
DoRefillTokens_KeepsTime(l, taken) ==
    /\ tokens' = [tokens EXCEPT ![l] = Refilled(l) - taken]
    /\ UNCHANGED elapsed

\* doRefillTokens, and then taken units are used.
DoRefillTokens(l, taken) ==
    /\ tokens' = [tokens EXCEPT ![l] = Refilled(l) - taken]
    /\ elapsed' = [elapsed EXCEPT ![l] = 0]

TryAcquire(l, permits) ==
    \/ /\ Refilled(l) >= permits * PermitCost
       /\ DoRefillTokens(l, permits * PermitCost)
       /\ spent' = IF watching THEN [spent EXCEPT ![l] = @ + permits] ELSE spent
       /\ UNCHANGED <<watching, watched, resets>>
    \/ /\ Refilled(l) < permits * PermitCost
       /\ DoRefillTokens(l, 0)
       /\ UNCHANGED <<watching, watched, spent, resets>>

AvailableTokens(l) ==
    /\ DoRefillTokens(l, 0)
    /\ UNCHANGED <<watching, watched, spent, resets>>

Reset(l) ==
    /\ watching => resets[l] < MaxResets
    /\ tokens' = [tokens EXCEPT ![l] = Capacity]
    /\ elapsed' = [elapsed EXCEPT ![l] = 0]
    /\ resets' = IF watching THEN [resets EXCEPT ![l] = @ + 1] ELSE resets
    /\ UNCHANGED <<watching, watched, spent>>

\* Half a millisecond passes; limiters in S exist.
Tick(S) ==
    /\ watching => watched < MaxWatch
    /\ elapsed' = [l \in Limiters |-> IF l \in S /\ elapsed[l] < MaxElapsed
                                      THEN elapsed[l] + 1 ELSE elapsed[l]]
    /\ watched' = IF watching THEN watched + 1 ELSE watched
    /\ UNCHANGED <<tokens, watching, spent, resets>>

\* The interval begins.
Watch ==
    /\ ~watching
    /\ watching' = TRUE
    /\ UNCHANGED <<tokens, elapsed, watched, spent, resets>>

RateTypeOK ==
    /\ tokens \in [Limiters -> 0..Capacity]
    /\ elapsed \in [Limiters -> 0..MaxElapsed]
    /\ watching \in BOOLEAN
    /\ watched \in 0..MaxWatch
    /\ spent \in [Limiters -> Nat]
    /\ resets \in [Limiters -> 0..MaxResets]

\* In the interval that is watched, limiter l grants no more than its burst
\* capacity and its rate times the interval, and a burst more for each reset.
RateKept(l) ==
    2 * PermitCost * spent[l] <=
        2 * Capacity + GainPerMs * watched + 2 * Capacity * resets[l]
=============================================================================
