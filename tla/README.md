# A TLA+ model of arrow-resilience-kit

The library (`src/commonMain/kotlin/ro/sorinirmies/arrow/resiliencekit`, about
4800 lines of Kotlin) offers resilience patterns for coroutines. Their state is
kept in Arrow's software transactional memory: a *transaction* is one block
`atomically { ... }`, and everything between two transactions can interleave
with every other coroutine. The model takes each transaction, and each operation
on a coroutine primitive, as one action; what a coroutine remembers between two
of them is its local state. The interesting questions are all about those gaps.

The repository also contains the published API documentation (`docs/`), whose pages
run a script with state of its own: `docs/scripts/platform-content-handler.js`. There
an action is one event handler, which the browser runs to completion, and the gaps
are between the handlers of pages that share one `localStorage`.

## Inventory

| Component | State | Operations | What is hard | What makes it correct | Status |
|---|---|---|---|---|---|
| `Bulkhead` | `kotlinx` semaphore; TVars `activeCalls`, `waitingCalls`, four counters; listeners | `execute`, `tryExecute`, `executeOrFallback`, `statistics`, `resetStatistics` | admission, `acquire` and the move to active are separate steps; a timer races with the hand-over of a permit; cancellation; Errors of listeners | at most `maxConcurrentCalls` blocks; no permit created or lost; gauges and counters agree with the calls; nobody waits for ever | modelled and proved (wrappers excepted) |
| `CircuitBreaker` | TVars `state`, `failureCount`, `successCount`, `lastFailureTime`; listeners | `execute`, `executeOrFallback`, `reset`, `trip`, `stats` | check-then-act over two transactions in four places; time; late results of calls begun in another state | transitions only as documented, none lost, no state for ever | modelled and proved (wrappers excepted) |
| Registries (`Bulkhead-`, `CircuitBreaker-`, `RateLimiter-`, `TimeLimiter-`, `CacheRegistry`) | one TVar: map from names | `getOrCreate`, `get`, `remove`, `resetAll`, ... | three different protocols for the same get-or-create | one instance per name for all who ask | modelled and proved (reset-all operations only for `RateLimiterRegistry`) |
| `Saga`, `ParallelSagaCoordinator` | list of executed steps, shared by all executions of the object | `execute`, builder with retry and timeout | failure of a step or of its compensation, cancellation at any point, concurrent executions | exactly the executed steps compensated, in reverse, at most once; the result tells what stands; no saga disturbs another | modelled and proved (concurrent executions of one object excepted) |
| `RateLimiter` | TVars `tokens`, `lastRefillTime`, three counters | `tryAcquire`, `execute`, `reset` | refill arithmetic and its rounding; waiting without a queue | never more than the rate allows; a waiter gets its turn | rate modelled and proved; waiting not |
| `SlidingWindowRateLimiter` | TVar: list of request times | `tryAcquire`, `execute`, `reset` | boundary of the window; two clock reads | never more than the limit in a window | not modelled |
| `Cache`, `LoadingCache` | TVars `entries`, `accessOrder`, counters | `get`, `put`, `getOrPut`, `remove`, `cleanUp`, ... | eviction by three strategies, expiry, loading outside the transaction, effects inside a transaction that can be retried | size bound; order lists the keys; the strategy's victim, announced; stale values end | modelled, partly proved |
| `TimeLimiter` | TVars: counters | `execute`, `executeOrNull`, `executeWithRetry`, `executeRace`, ... | whose timeout it was; waiting for losers | every attempt is counted once; a timeout stays in its chain of calls; nothing is hidden, retried or left running that should not be | modelled and proved (durations excepted) |
| `RetryRepeat` | none (local variables) | 13 retry and repeat functions | delay arithmetic, caps, jitter, attempt counts | number of attempts and delays as documented | not modelled |
| STM helpers | one or three TVars each | single-transaction operations | boundary values | semaphore and window bounds | not modelled |
| Listeners | user code | callbacks outside the transactions | order of the news, Errors | — | as an environment of the two components above |
| Documentation pages | filters, tabs, highlighted anchor, timers per page; two items of `localStorage` | load, filter clicks, tab clicks, hash changes, a 50 ms timer | order inside the load handler; pages that share a storage; a timer that gives up; a script that does not arrive | shown and stored agree; the address wins over what is remembered | modelled and proved (theme, samples, navigation excepted) |
| Other page scripts | the navigation tree, the clipboard, wrapping of signatures; minified search and highlighting | — | — | — | not modelled: presentation, or third-party |
| Build, CI, tests | — | — | — | — | not modelled: no behaviour of the library |

How they interact: every pattern is independent; a caller composes them by
nesting the blocks. A registry hands out instances by name. `Saga` uses
`retryWithExponentialBackoff` for `stepWithRetry` and `withTimeout` for
`stepWithTimeout`. `LoadingCache` delegates to `Cache`. Listeners are called
synchronously, after the transaction that made the change. The documentation pages
interact with each other through `localStorage` only, and not with the library.

## Modules

| Module | What it is |
|---|---|
| `CallGate` | The abstract promise of a bulkhead: at most `Limit` blocks at a time, each call's block at most once, none for a call turned away. |
| `Bulkhead` | `Bulkhead.execute` by a set of calls, with semaphore, timer, cancellation and `resetStatistics`. Refines `CallGate`. |
| `MCBulkhead` | Instances of `Bulkhead` for TLC. |
| `BulkheadProofs` | Theorems about `Bulkhead`. |
| `CircuitBreaker` | `CircuitBreaker.execute` by a set of callers that call again and again, with `reset`, `trip`, listeners and a clock. |
| `MCCircuitBreaker` | Instances of `CircuitBreaker` for TLC, whose clients choose at the start whether anybody uses `reset` and `trip` and whether blocks throw Errors (`calm`). |
| `CircuitBreakerProofs` | Theorems about `CircuitBreaker`. |
| `Backout` | The abstract promise of a saga: its steps in order, then all of them stay, or they are taken back one by one in reverse order. |
| `Scope` | The abstract promise of a coordinator that runs jobs in a scope of its own: it ends when all of them have, and returns only with enough answers and over no failure. |
| `Saga` | `Saga.execute` by the sagas of one `ParallelSagaCoordinator.executeAll`, which may be called again. Refines `Backout` and `Scope`. |
| `MCSaga` | Instances of `Saga` for TLC. |
| `SagaProofs` | Theorems about `Saga`. |
| `Cache` | `Cache` and `LoadingCache` used by a set of clients, with a clock and a source that changes. |
| `MCCache` | Instance of `Cache` for TLC. |
| `CacheProofs` | Theorems about `Cache`. |
| `Registry` | `getOrCreate`, `get`, `remove` for one name, in the three ways the five registries do it. |
| `RateLimiter` | The token bucket: refill, acquire, reset. |
| `NamedLimiters` | `Registry` and `RateLimiter` composed: limiters by name, with `resetAll`. |
| `MCNamedLimiters` | Instance of `NamedLimiters` for TLC. |
| `NamedLimitersProofs` | Theorems about `NamedLimiters`. |
| `TimeLimiter` | `execute`, `executeOrNull`, `executeOrFallback`, `executeOrDefault` and `executeWithRetry` by calls nested in each other's blocks, with timers, cancellation and `resetStatistics`. |
| `TimeLimiterProofs` | Theorems about `TimeLimiter`. |
| `ExecuteAll` | `executeAll`: the calls of `TimeLimiter` composed with the `coroutineScope` around them. Refines `Scope`. |
| `ExecuteRace` | `executeRace`, which shares no state with the other operations. Refines `Scope`. |
| `ScopeProofs` | Theorems about `ExecuteAll` and `ExecuteRace`. |
| `MCTimeLimiter` | One instance of the three for TLC, whose client chooses at the start what it does. |
| `SourceSetFilters` | The filters of the documentation pages and the stored list of those switched off. |
| `SectionTabs` | Their section tabs, anchors and scrolling. |
| `DocsPages` | The two composed by the load handler, with pages that open and close. |
| `MCDocsPages` | Instance of `DocsPages` for TLC. |
| `DocsPagesProofs` | Theorems about `DocsPages`. |

In a module, a definition named `X_Suffix` that stands before `X` and is
commented "Faulty" is a plausible bug in the code of `X`. Nothing uses it; put in
the place of `X`, it breaks one of the properties, which shows that the property
depends on the code.

### Bulkhead and the code

Each element of `Calls` is one invocation of `execute`; `pc[c]` is its place:

| Place | Code (`Bulkhead.kt`) |
|---|---|
| `start` | before the first transaction (226): `Admit` or `Refuse` |
| `refused` -> `full` | between the two transactions of a refused call: `CountRefusal` (237-249) |
| `entered`, `queued`, `resumed`, `held` | in `semaphore.acquire()` (251-273): before it, suspended, resumed by a release but not yet running, returned |
| `expired`, `expiredHolding` | `withTimeoutOrNull` gave null; in the second case `acquire` had already taken its permit. `CountTimeout` (257-270) ends both. |
| `running` | in the block, after `Enter` (275-287) |
| `erred` | counted as succeeded by `Succeed` (291), then a listener threw an Error: before `CountError`, which counts it as failed as well (299-307) |
| `settled`, `leaving` -> `done` | counted, by `Succeed`, `CountError` or `Fail` (289-307), then the two parts of `finally`: `Deactivate` (308-312), `Release` (313-320) |
| `cancelled`, `cancelledHolding`, `strayed` | left `execute` by an exception where no code repairs what was counted: cancelled in `acquire`, cancelled after `acquire` inside `withTimeoutOrNull`, thrown out of the `onCallEntered` loop by an Error |

The TVars have their names in the code. The semaphore is external: `permits`
and the FIFO `queue`, with the documented cancellation behaviour of
`acquire` ("prompt cancellation guarantee": a waiter that is cancelled after it
was resumed gives the permit back). `carried` and `twice` are history variables
for the statistics.

Three leaks are in the code and so in the model; the properties name
them and do not hide them: `PermitLeaked` (permits that nobody will
release) and `WaitLeaked` (calls counted as waiting for ever). The first is the
finding of run `bulkhead_capacity`.

### CircuitBreaker and the code

A caller is `idle`, or at a place of `execute`: `check` (between the two
transactions of `checkAndUpdateState`, with the `lastFailureTime` it read in
`snapshot`), `read` (before the state is read again, `CircuitBreaker.kt` 140), in
the block of the state it read (`closedBlock`, `halfOpenBlock`), `opening`
(between the two transactions of `onFailure`), `closing` (the same for
`onSuccessInHalfOpen`), or about to tell the listeners of its transition. One
action per transaction; `Tick` is the clock.

Times are kept as ages up to `ResetTimeout`: the code only compares elapsed time
with the timeout. Counts are kept up to `CountCap`, which is not below the thresholds: the
code compares them only with the thresholds. `heard` is the last news a listener
received. Two history variables: `openedBy`, the age of the failure the present open
period dates from, and `overlapped`, whether two callers have been under way at once.

`halfOpenMaxCalls` is not in the model because no code reads it, although
`CircuitBreaker.kt:362` documents it as the "Maximum number of calls allowed in
Half-Open state".

### Saga and the code

`place[s]` is where the coroutine of saga `s` is: `launched` (the `async` of
`Saga.kt` 470), `forward` (the loop 98-109), `undoing` (the loop 146-179), or how
`execute` has ended: `success` and `failure` are the two `SagaResult`s,
`cancelled` and `error` an exception that leaves it. `at[s]` is the position of
the loop: the index of the step whose turn it is, or how far from its end the
reversed list still has to be walked. `executedSteps`, `compensated` and
`errorSteps` are the variables of the code; a step stands for itself by its number.

`effect[s][i]` is a history variable: `none`, `done`, `lost` (an action that was
cut short, by a timeout or a cancellation, may have taken effect; the saga never
remembers it and so never compensates it), `undone`, `stuck` (its compensation
failed), `kept` (it has no compensation). Actions and compensations are user code,
so every way to end is possible at every step; the attempts of `stepWithRetry` are
part of its action, since only its last outcome is seen by `execute`.

`scope`, `awaited` and `cancelled` are `executeAll`: it awaits the sagas in the order
of the list, `coroutineScope` waits for all of them before it throws, and an
exception of one that is not a `CancellationException` cancels the rest. These
rules are those of `kotlinx.coroutines`, taken from their use in lines 469-475.

### Cache and the code

A client is `idle`, `loading` (between `get` and the end of the loader, `Cache.kt`
182-183), `putting` (before the transaction of `put`) or `telling` (after it, before
the listeners are called, 159-172). `entries`, `accessOrder` and `evictedKey` have their
names in the code; `evictedKey` is a local variable of `put` that its transaction
assigns, so an attempt that is rolled back leaves its mark in it: `PutAttempt`. A value
is the version of the source it was loaded from, so that staleness can be stated.
Times are ages up to the time to live; counts stop at `MaxCount`. The strategy
is chosen in `Init`.

What the model shows besides its properties, and no text of the repository denies: a
repeated `put` that then finds room tells its listeners of the eviction of a key that is still
there; `get` drops an expired entry without telling anybody, where `cleanUp` tells;
a load under way while its key is removed brings the old value back; `put`
evicts by strategy even while expired entries are present.

### The registries, the rate limiter and the code

`Registry` is about one name, since no operation on one touches another. `stored` is what
the map binds to it; `place[c]` is where client `c` is: `inserting` between the first
transaction of `getOrCreate` and the second, with the object it made in `mine`;
`rereading` before the third (`Cache.kt` 600); `holding` what it got; `failed` when the
third found nothing and the cast threw. `protocol` is one of the three ways the code
has: `ifAbsent` (`CircuitBreaker.kt` 477, `RateLimiter.kt` 679, `TimeLimiter.kt` 537),
`reread` (`Cache.kt` 593), `overwrite` (`Bulkhead.kt` 380). `handed` and `drops` are
history. `BulkheadRegistry` writes its bulkhead whatever is there: two callers that ask for
a new name at once get two bulkheads, so `Agreement` counts an overwriting as a binding.

`RateLimiter` has one bucket per object. Tokens are counted in units, so that any
rational `permitsPerSecond` is exact where the code has a `Double`; time is in half
milliseconds, because a refill counts whole milliseconds and then moves
`lastRefillTime` to the present, fraction and all. `execute` is `TryAcquire` at any time: its waits
(`calculateWaitTime`) are not modelled. `watching`, `watched`, `spent` and `resets`
are history: an interval that begins at any moment, its length, and what each limiter
granted in it.

### TimeLimiter and the code

An element of `Call` is a place in the clients' code at which a limiter is called. `Outer[c]` is
the set of the calls in whose blocks that place is; a block that is run again makes its calls
again (`Enter` sets them to `idle`). `pc[c]` is its place:

| Place | Code (`TimeLimiter.kt`) |
|---|---|
| `idle` -> `counted` | the first transaction, `Begin` (134, 193) |
| `block` | in `withTimeout` or `withTimeoutOrNull`, after `Enter` (139, 198) |
| `left` | that has ended with `thrown[c]`, by `Leave` or `TimeOutAtOnce`; the clause that will count it has not run |
| `retry` | counted by `Settle` (143-175, 202-235), to be tried again (`executeWithRetry`, 299-304) |
| `fallback` | in the `fallback` of `executeOrFallback` (256) |
| `done` | ended with `outcome[c]` |

The operations differ only in what they make of the end of a block: `Succeeded`, `TimedOut`,
`Failed` are the `catch` clauses and the test for null, `Answer`, `Retried` and `FellBack` what the
caller gets. `executeWithRetry` is `execute` with `retries`. The end of a block is a value, null, an
exception, an Error (which no clause catches), a cancellation, or a timeout, which is
named by the call whose timer fired, or `foreign` if it came from a `withTimeout` that is not a
limiter's. The four counters have their names in the code; `since`, `stale` and `lost` are
history variables for the balance of the statistics.

What coroutines do is external, from their use here and as `kotlinx.coroutines` 1.8 has it. A
timer, or whoever cancels the client, cancels the coroutine of a block and of those inside it
(`Told`, `Cancel`; `cause[c]` is the first reason). Cancellation is cooperative: a cancelled block runs
until it suspends, may call the limiter meanwhile, and may end in any way. Its timer is stopped only when it
has ended, and a coroutine tells its children of its first cancellation only. What a cancelled coroutine
ends with (`Final`) is an exception of the block that is no cancellation; or else the first reason, unless that is a
timeout: then it is the next timeout that came (`second[c]`), or, if none came, the one the block threw.
So a block that was cancelled by the timeout of a call around it is answered by its own timer, if that fires
before it has ended: `executeOrNull` then returns null. `AfterCancellation` is what `withTimeout` makes of all this: a
block that never suspended keeps its end if the timeout is its own. `withTimeout` starts its block without
looking whether the coroutine is cancelled. Durations are free, so timers are not related to a
clock and may fire in any order. The limiter may be one or several: the counters are those of one,
and nothing else depends on it.

`ExecuteAll` runs one `executeOrNull` per block, none in another, in a scope that an exception, or a
rethrown timeout, cancels (`CancelScope`). `ExecuteRace` is a select in a scope under one timer, which, with one
around it, may fire while the scope is being cancelled by the other (`timers`).
It touches no counter, so that the statistics know nothing of races.

What the model shows besides its properties: a call whose enclosing timer has
fired still makes all its retries, in a coroutine that is already cancelled, if its block does not
suspend; and `executeOrFallback` runs its fallback for such a timeout, as for any other, so
that it can return a value from a cancelled block (`CancelledCallsThrow` leaves it out).

Four sentences of the source do not hold of it. One is the finding `execute_all_failure` (see below). Each of the others is a definition of the modules, and TLC finds it violated
when it is added to the invariants of `time_limiter.cfg`:

- `TimedOutCallsTimedOut`: `timedOutCalls` is the "Total number of timed-out calls" (397), but a block
  that returns null in time is counted there by `executeOrNull` (211), and `executeOrDefault` returns its default.
- `SuccessRateInRange`: `successRate` is a "Ratio of successful calls from 0.0 to 1.0." (408), but
  `resetStatistics` (366) forgets calls under way, which are then counted as successful.
- `TimeoutMeansNoneCompleted`: "@throws TimeoutCancellationException if all operations time out" (340), but
  the losers are not cancelled and the scope waits for them (351-357): one that is slower than the limit
  makes the race time out although another block has completed.

### The documentation pages and the code

Each element of `Pages` is a browser tab; `phase[p]` is how far its document is:
`opening` (the script has not run, so that nobody hears a hash change), `scripted`
(`window.onhashchange` is set, the load event is to come), `loaded`, or `broken`, when
`sourceset_dependencies.js` did not arrive and line 214 threw out of the load handler.
`Load` is the whole handler, lines 18-33, in its order: filters, tabs, anchor, and
`topNavbarOffset` last, so that its own scroll is always put off to a timer. All pages that run it have
the filter section that it looks for (23), so that `initializeFiltering` always runs. What a handler reads and writes of
`localStorage` is one step, although browsers do not lock it against pages that run in other processes.
`active`, `highlighted`, `inactive` and `storedTab` are `filteringContext.activeFilters`,
`highlightedAnchor` and the two items of `localStorage`; what the elements' attributes
say is a function of these. Every source set with a button is taken to have an entry in
`sourceset_dependencies.js`, as the generator writes it. What a style sheet hides is external: a
section outside the active tab, content with nothing left by the filters, and all of
`main-content` when no filter is active.

The committed pages have one filter (`commonMain`), no rows of platform bookmarks, and at most two
tabs; the script serves any of these, and so do the modules. On the pages with two tabs, only ENTRY
rows carry `data-togglable` themselves. Content hidden by an element around it is displayed
`block` for `getComputedStyle` (161-162), so an anchor to it opens no tab and
the page scrolls to its top; `AnchorOpensItsTab` is about the others (`Marked`).

## Runs

| Run | Question | Instance |
|---|---|---|
| `bulkhead_safety` | Limit, permits, gauges, counters, refusals, refinement of `CallGate` | 4 calls, 2 permits, 1 waiting place, timer on, listeners may throw Errors |
| `bulkhead_liveness` | Does everybody who waits get on, and do all permits come back? | 4 calls, 1 permit, no timer, no Errors |
| `bulkhead_capacity` | Finding: `availableCapacity` after a timeout | 2 calls, 1 permit, timer on |
| `breaker` | No transition lost, none undocumented; are the documented conditions right as long as no one interferes? Does every open period and every trial end? | 3 callers, thresholds 2, timeout 2 ticks; either `reset` and `trip` may be used and blocks may throw Errors, or neither (`calm`) |
| `breaker_stuck_open` | Finding: an open breaker that stays open | 2 callers, `reset` on |
| `saga_safety` | All or undone, told truthfully, contained, and brought to an end | 2 sagas, one of which stops at a compensation error; 4 steps, of which the first and the third have a compensation; Errors, timeouts in compensations, cancelled caller; `executeAll` twice |
| `saga_abandoned` | Finding: a compensation that times out | 1 saga of 3 steps that continues after errors |
| `cache_loading` | Size, order, victim, its announcement; do stale values end? | 2 clients, 3 keys, 2 entries, time to live 1 tick, 1 change of the source, all strategies |
| `named_limiters` | One object per name? Rate of each limiter in any interval | 3 clients, 2 objects, 1 removal, bursts of 2, 1 permit per ms, intervals of 2 ms, 1 reset; all protocols |
| `time_limiter` | Do the statistics agree? Whose timeout is it, is only a timeout tried again, does a cancelled call say so? Is nothing left running, and does all end in time? | one of: a call in the block of another, all four operations, at most one retry, resets; two calls, one after the other, in the block of a third; `executeAll` of 2 blocks; `executeRace` of 3. Errors of blocks and listeners |
| `execute_all_failure` | Finding: `executeAll` with a block that fails | `executeAll` of 2 blocks, no Errors of listeners |
| `docs_pages` | Do the page, the storage, the tabs and the address agree; is an anchor reached? | 2 pages, one with two tabs and two anchors, 2 source sets of which one depends on the other, 2 timers |

Why the bounds are enough. Bulkhead: two permits and four calls allow two
running, one suspended and one refused at once, a hand-over that skips a caller
who gives up, and every leak beside an undisturbed call; MaxWaitingCalls = 1
makes admission depend on both gauges. With one permit and three waiters the queue
of the liveness run is long enough for removals at its head, middle and end.
Calls are used once, so the counters need no bound. CircuitBreaker: three callers
suffice for one to sit in a gap while two others complete a whole cycle (open,
half-open, closed or open again); threshold 2 makes counting matter, and 2 ticks
distinguish "no time", "some" and "enough". Symmetry is used only
where no temporal property is checked. Saga: the last step is never
compensated, since a saga that has done it has succeeded, so that four steps give
compensation three, a skipped one between two that may fail; two sagas are enough for one to
disturb, or to outlive, the other, in either place of the list, and differ
in their configuration; the second round is there because the list of executed
steps survives the first (`MaxRounds` is the only bound that cuts behaviours off).
Cache: three keys for two entries make a put evict while another client's put, load or
removal is under way; time to live 1 gives an entry the ages fresh, on the boundary and
expired; one change of the source is what makes a value stale, and later ones change
nothing more; count 1 tells used entries from unused. Limiters: the third client comes between two that
create; the removal is what makes a second object possible under `ifAbsent`; the interval
holds two whole milliseconds and the fractions between. Time limiter: two nested calls, one of which may be
tried again, give every order of two timers, a cancellation and a reset around the attempts of
either; a third, beside the inner one, is where a timeout could arrive that is neither around nor inside
it. A third level of nesting and more retries are in the proofs only, which allow any. `executeAll`: one block
that is awaited, and one that fails meanwhile. A race: a winner, a failure and a straggler. Pages: one page
that switches filters and one that has stored its own; the page with tabs is closed and
opened again at either anchor, with the other tab remembered.

Deadlock checking is on in the runs of `Bulkhead`, `CircuitBreaker`, `Cache` and `DocsPages`: `ResetStatistics` and `Tick` are always
enabled, as resets and time are in the program, so deadlock would say little; what
stops a call is covered by the liveness properties instead. It is off in `named_limiters`, where the bounds on
objects and time stop everything in the end, and in the runs
of `Saga`, which stop after `MaxRounds` rounds; `AllEnd` says that they do not stop before. It is off in
`time_limiter`, which stops when the calls of its task are done; `TasksEnd` says that it does not stop before.

### What the properties say

- `ConcurrencyLimit`, `PermitAccounting`, `GaugeAccounting`: blocks, permits and
  gauges, related to the places of all calls.
- `StatisticsBalance`: total = succeeded + failed + rejected + in flight in every
  state, corrected for calls that a reset caught in flight and for calls that a
  listener's Error counted both as succeeded and, in a transaction of its own, as failed: a reset may
  come between the two.
- `RefusedOnlyWhenSaturated`: a call is turned away only while no permit is free. It
  depends on the order inside `finally` (decrement first, then release).
- `ImplementsGate`: refinement of `CallGate`.
- `EveryCallEnds`: releases reach the whole queue, every call ends, all permits come back.
- `NoLostTransition` (`NoLostOpen` and `NoLostClose`): a threshold that was reached always has its
  effect, or a caller that is about to give it effect, although counting and the
  transition are separate transactions and others reset counts in between.
- `LegalTransitions`: no transition outside the documented diagram, except by
  `reset()` and `trip()`: a late result cannot close an open breaker.
- `CalmOpenEnds`, `CalmHalfOpenEnds`: without `reset`, `trip` and Errors, no state for ever. `OpenEnds` drops that condition
  and is what the finding `breaker_stuck_open` shows violated.
- `OneAfterTheOther`: as long as no two callers have been under way at once, with `reset()` and
  `trip()` between calls, transitions are made under exactly their documented conditions
  (`OpensAtThreshold`, `HalfOpensAfterTimeout`, `ClosesAtThreshold`), the listeners' last news is
  the state (`HeardIsState`), and an open breaker has a timestamp (`OpenHasTimestamp`). Once callers overlap, TLC finds each of
  these violated, always by a step of another caller between two transactions of one
  operation; the hazards in `PROJECT.json` name the lines.

- `FailureTellsAll`: the count and the list of errors in a `SagaResult.Failure` are
  those of what happened, and a step is passed over only where the configuration says so.
- `FailureIsContained`: the failure of a step never cancels another saga.
- `ImplementsScope` (of the coordinator), `AllImplementsScope` (of the limiter): refinement of `Scope`.
  `executeAll` ends when all of its sagas or blocks have, none runs on, and it returns only with a result
  of each. Of the limiter's, this leaves open what a failed block is, an answer or a reason to throw: the documentation
  and the code differ about it (`execute_all_failure`). The invariants `NoneLeftRunning` and `NoneLeftBehind` follow. `AllEnd`: the coordinator's ends.
- `ImplementsBackout`: refinement of `Backout`.

- `Bookkeeping`: the types, the size, and the order lists the keys, each once.
- `EvictsByStrategy`: the victim judged by the entries' own times and counts, although LRU
  looks only at the order. `TellsTheVictim`: what `put` announces is what went.
- `EventuallyFresh`: once the source is quiet, no `get` returns an old value for ever.
- `Agreement`: as many objects for a name as bindings. `RateByName`: every permit comes from an
  object somebody was given, and each of those keeps its rate in any interval.
- `StatisticsBalance` (`TimeLimiter`): begun = succeeded + timed out + failed + under way in every
  state, corrected for attempts that a reset caught under way and for Errors, which no clause counts.
- `TimeoutStaysInChain`, `CancelledCallsThrow`, `CancelledIsNotRetried`: all timeouts have the same
  type, and the code tells its own from others only by where they come from. A call whose block was cancelled
  never returns a value, null or default, unless its own timeout has the last word on it (`Decides`): it came first, or it
  was the next after another timeout. So it is not promised that a call cancelled by a timeout around it throws, only
  that it does not answer in the name of that timeout.
- `NoneRunsOn`: no coroutine survives `executeRace`, and what it returns is what that block answered.
- `TasksEnd`: no call, with its retries and the calls in its block, no `executeAll` and no race outlasts
  its time limits, although no block ends by itself.
- `StorageAgrees`, `PageShowsFilters` (`MessageMatches` and `RowShowsAvailable`): the page, its filters and the
  shared storage. `AnchorOpensItsTab`: the address wins over the remembered tab.
  `AnchorReached`: an anchor given before the page has loaded is scrolled to, although
  `waitAndScroll` gives up when it is too early (it calls `waitForScroll`, line 117, which does not exist).

### Findings

- `bulkhead_capacity` (`Bulkhead.kt:253`). A timer that fires, or a cancellation that
  arrives, after `acquire()` has returned but before `withTimeoutOrNull` has,
  discards the result: the permit is held by nobody. `availableCapacity`, documented as
  "Number of permits currently available", reports it for ever.
- `breaker_stuck_open` (`CircuitBreaker.kt:285`). `reset()` between the two
  transactions of `onFailure` clears `lastFailureTime`, and the breaker opens
  without one. `checkAndUpdateState` skips a null time, so every later call is
  rejected until somebody calls `reset()` or `trip()`.
- `saga_abandoned` (`Saga.kt:162`). `SagaConfig` says "If true, continues compensating
  remaining steps even if one fails", and that is the default. A compensation that
  contains a `withTimeout` and runs out of time fails with a
  `TimeoutCancellationException`, which `compensate` takes for a cancellation of the
  saga and throws on: the steps before it are never compensated, and
  `execute` throws instead of returning a `Failure` that tells of it.
- `execute_all_failure` (`TimeLimiter.kt:235`). "Failed or timed-out operations are represented as null." (315), and
  in the list returned "null for failed/timed-out operations" (319); but `executeOrNull` rethrows a failure, the
  `coroutineScope` (325) is cancelled by it, and `executeAll` throws it with all other answers lost.

## Fairness

- Bulkhead: weak fairness of `Progress(c)` for each call: the dispatcher runs every
  runnable coroutine, a resumed waiter is dispatched, and the protected block
  ends. Neither timeouts, nor cancellations, nor resets are assumed to happen.
- CircuitBreaker: weak fairness of `Tick` (time passes) and of `Execute(c)` for
  each caller (the service goes on being called, blocks end, the dispatcher runs
  everybody). The second is needed because nothing but a call ends an open period:
  there is no background task. `reset` and `trip` are not assumed to happen; the liveness
  properties are about behaviours without them (`calm`), since a `trip()` repeated for ever keeps a breaker open.
- Saga: weak fairness of `Execute(s)` for each saga (its coroutine is dispatched;
  actions and compensations end, in whatever way) and of `Coordinate` (so is the
  coroutine of `executeAll`). No cancellation, error or second round is assumed.
- Cache: weak fairness of `Tick` alone. Loaders and listeners may hang; a client that never
  puts does no harm, and one that does puts one old value at most.
- TimeLimiter: weak fairness of the steps of all calls of a task together (`TaskGoesOn`): the dispatcher that runs a call on
  (`Execute`), the clock (`Timer`) and cooperative cancellation (`Yield`: a cancelled block or fallback comes to
  an end; one that never suspends is not limited by anything) do not all stop while one of them has something to do.
  With finitely many retries that is enough. A block
  that is not cancelled need not end, nor a call be made. For `executeAll` and `executeRace` the same, with
  the steps of their scopes (`AllGoesOn`, `RaceGoesOn`).
- DocsPages: weak fairness of `RunScript`, of the load event (in either outcome) and of
  `FireTimer` for each page: the browser's event loop. The reader need do nothing.

## Proofs

All proofs hold for any set of calls or callers (not assumed finite), any number of
sagas and steps, and any configuration that satisfies `ConfigAssumption`
(`SagaAssumption`), which is what the `require()` calls of the code state, with
types for the switches and bounds of the model.

`BulkheadProofs`: `ConcurrencyLimit` is not inductive, since a block starts without
looking at how many run. `IInv` says why it may: free permits plus owners is
`MaxConcurrentCalls`, with the leaks among the owners; the queue contains exactly
the suspended calls, each once (so a hand-over moves a call that really waits, and
nobody is handed two permits); both gauges are cardinalities. The set of owners is part of
the invariant as a finite set. Each action moves one or two calls; the lemma
`MoveCounts` computes how a cardinality changes by the weights of the two places.
`StatisticsBalance` has an invariant of its own, `StatInv`, on top of `IInv`: a call
in `carried` or `twice` never comes back to a place before its block. The theorems:
`TypeCorrect`, `NeverTooManyRunning`, `PermitsAccountedFor`, `GaugesAccountedFor`,
`CountersAgree`, `RefusalMeansSaturation`, `BulkheadIsGate` (the refinement). Two more measure the finding
`bulkhead_capacity`: with no call under way, `availableCapacity` is too high by exactly the number of calls whose
permit `withTimeoutOrNull` discarded (`CapacityIsOff`), and it is right if there is no
timeout (`CapacityIsRightWithoutTimeout`).

`CircuitBreakerProofs`: `IInv` is `TypeOK`, `NoLostOpen`, `NoLostClose` and, while
`ManualReset` is FALSE, that an open breaker and every caller about to open it have
a timestamp to find. The theorems: `TypeCorrect`, `NoTransitionIsLost` (from `NoOpenIsLost` and
`NoCloseIsLost`), `OpenKnowsSinceWhen` (assuming that nobody calls `reset()`),
`OnlyLegalTransitions`, `OneAfterTheOtherHolds`. The last has an invariant of its own, `AloneInv`: while nobody has
overlapped, the one caller under way finds in its second transaction what its first one left.

`SagaProofs`: the invariant has two parts. `CInv` is control: `executedSteps` lists the
steps 1, 2, ... without a gap, both loops stay inside it, and the sagas that
`executeAll` has awaited have results. `AInv` is the account: while a saga undoes, the
steps up to `at` stand, those above it are dealt with unless an error has stopped the
loop, and the two results of `compensate` are the sets of undone and stuck steps. The
refinement needs both: that `Undo` finds the last effect that stands is a fact about the
list, that it may go on after an error is one about the account. The theorems:
`TypeCorrect`, `ScopeIsClosed`, `FailureStaysInside`, `FailureIsTold`, `SagaIsBackout`, and
`CoordinatorIsScope`, which needs `CInv` only: a saga moves while `executeAll` is under way, and
those it has awaited have results. `RemainingAreCompensated` shows the cause of the finding
`saga_abandoned` to be the only one: where no compensation throws a CancellationException of its own,
a saga that continues after errors leaves no step untried, unless its scope is cancelled.

`NamedLimitersProofs`: `Agreement` needs that the object bound now counts before anybody is
given it: handed-out objects and the bound one together are no more than the bindings made
(`Ledger`); and that a client about to read again either finds something or was overtaken by a
removal. `RateKept` needs the credit a limiter could still grant without time passing
(`Credit`): a refill turns elapsed time into tokens and never adds to the credit, a
permit takes from it what it costs, half a millisecond adds `GainPerMs` at most. The
theorems: `TypeOKHolds`, `AgreementHolds`, `RateByNameHolds`.

`CacheProofs`, for any clients, any keys, finitely many or not, and any size: `TellsTheVictimHolds` needs
only that keys are keys (`KeysInv`). `Bookkeeping` and `EvictsByStrategy` rest on `IInv`:
besides the bookkeeping itself, the access order is sorted, from the entry that was idle the
longest to the one used last (`OrderInv`). That is why LRU, which takes the head of the list and
looks at no entry, takes the right one. Removal from the list is the operator `Without`, defined by
positions and without recursion, so that the prover can reason about it: ranks are a bijection
from the positions that are kept to those of the result, increasing, hence removal keeps the
elements, their order and their being different (`WithoutProperties`); `MCCache` lets TLC
compare it with the library's `SelectSeq`. That `put` makes room by one eviction, since there never
was more than one entry too many, and that `evictOne` finds somebody, by a least element, is
`PutEvictsOne` and `VictimsArePresent`. The theorems: `TellsTheVictimHolds`, `BookkeepingHolds`,
`EvictsByStrategyHolds`.

`DocsPagesProofs`: the invariant adds that the box the script remembers is in the
document exactly when it is the one that is there. That a row's first available bookmark
is available is a fact about the least element of a set of positions. The theorems:
`TypeOKHolds`, `StorageAgreesHolds`, `PageShowsFiltersHolds`,
`AnchorOpensItsTabHolds`.

`TimeLimiterProofs`, for any set of calls, finite or not, nested in any way (`CallAssumption` says that
`Outer` is a forest): `StatisticsBalance` is about the cardinality of `since`, to which each attempt is
added once and from which it is taken once, since it is in `since` only at a place of an attempt
(`TypeOK`); that it stays finite is part of the invariant (`Balance`). `CancelledCallsThrow` is not inductive. `IInv` adds where a timeout may be known (`Links`);
that a timeout of an enclosing call inside its block means that this timer was what cancelled that block
(`Fired`), although a timer may also fire later, so that a call never meets its own timeout inside a block that another
one cancelled; and what a cancelled block leaves `withTimeout` with (`LeftCancelled`). The theorems: `TypeOKHolds`,
`StatisticsBalanceHolds`, `TimeoutStaysInChainHolds`, `CancelledCallsThrowHolds`,
`CancelledIsNotRetriedHolds`.

`ScopeProofs`, for any set or list of blocks. Of `executeRace`: the block that was selected has returned, and a
failure is the reason of the scope's end (`RInv`). Of `executeAll`: its calls are those of
`TimeLimiter`, and their invariant is kept by what the scope does to them, which `TimeLimiterProofs` does
not know: it cancels them (`ScopeCancelled`), or keeps them from beginning (`NeverBegun`). `AllInv` adds that a
block's own timeout is null for it and nobody else's reaches it, so that the only cancellations an await
throws came from outside, and that the results awaited are answers. The theorems: `NoneRunsOnHolds`,
`RaceIsScope`, `NoneLeftBehindHolds`, `LimitsHoldInAll`, `OwnTimeoutIsNullHolds`, `AllIsScope`. The
refinement `RaceIsScope` is proved of a property, `RaceImplementsScope`, that no run lists, since
`NoneRunsOn` says more of the result.

Every safety property and every refinement that a run checks is a theorem. Only model-checked are the
liveness properties (`EveryCallEnds`, `CalmOpenEnds`, `CalmHalfOpenEnds`, `AllEnd`, `EventuallyFresh`,
`AnchorReached`, `TasksEnd`), since the prover does not treat fairness and ENABLED, and that
`Without` is `SelectSeq`, which is recursive.

## Not modelled

- `tryExecute`, `executeOrFallback` and `executeOr...` wrappers: what they make of an
  exception. They change no state of the component.
- `addListener`: the listener list is unsynchronised; the model has no list.
- Arrow STM itself: a transaction is atomic and isolated. Its retries are invisible
  where the block has no effects outside TVars, which is so everywhere but in
  `Cache.put`, where they are modelled (`PutAttempt`).
- Concurrent executions of one `Saga` object, which share `executedSteps`; the
  counting of `executeWithStats`; `SagaConfig.compensationTimeout`, which no code reads.
- A wall clock that goes back.
- `resetAll`, `resetAllStatistics` and `clearAll` of the registries other than
  `RateLimiterRegistry`: one operation of the object for each element of a snapshot.
- The waits of `RateLimiter.execute`, and so whether a waiter ever gets its turn. There is no queue, and the code
  does not promise it. At more than 1000 permits per second the wait is
  rounded to 0 ms, while every refusal moves `lastRefillTime` and discards a fraction.
- The documentation pages' theme switch, runnable samples, navigation and search.
- The durations of `TimeLimiter` (`totalTimeoutDuration` and the average).
- `SlidingWindowRateLimiter`, `RetryRepeat` and the STM helpers.

## What could come next

1. `SlidingWindowRateLimiter`: the boundary of the window and its two clock reads,
   against an abstract bound on admissions in an interval.
2. `RetryRepeat`: delays as functions checked against closed forms.
3. Theorems: an abstract bounded map that `Cache` implements, with its evictions as steps of the map; the
   documented conditions of the breaker's transitions for callers that overlap, as far as they hold.
