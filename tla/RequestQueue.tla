---------------------------- MODULE RequestQueue ----------------------------
(***************************************************************************)
(* The GitHub API request queue of core/request-queue.ts: every request    *)
(* first takes a rate-limit token from a TokenBucket, then one of the      *)
(* PrioritySemaphore's slots, then runs its closure.                       *)
(*                                                                         *)
(* JavaScript is single threaded, so the code between two awaits is one    *)
(* step.  Requests interleave at the awaits: after the token, after the    *)
(* slot, and while the closure runs.                                       *)
(*                                                                         *)
(* Clock readings appear in the code only as differences, so the model     *)
(* keeps the differences: `elapsed` is nowMs - lastRefillMs, and           *)
(* `untilReset` is budgetResetAt * 1000 - nowMs (0 once it is past).       *)
(* Tokens are counted in fractions of 1/TokenUnit.                         *)
(***************************************************************************)
EXTENDS Integers, Sequences, SequencesExt, FiniteSets

CONSTANTS
    Requests,        \* the calls of enqueue()
    Exempt,          \* those whose category is "rate-limit-query"
    Priority,        \* PRIORITY_ORDER of each request: 0 is "critical"
    MaxConcurrency,  \* slots of the semaphore
    BurstSize,       \* capacity of the bucket, in whole tokens
    TokenUnit,       \* fractions in one token
    RefillRate,      \* fractions refilled by one clock tick
    Budgets,         \* rate-limit replies: records [remaining, resetIn]
    MaxSyncs         \* bound on the number of updateBudget() calls

ASSUME RequestsAssumption == IsFiniteSet(Requests) /\ Exempt \subseteq Requests
ASSUME PriorityAssumption == Priority \in [Requests -> 0..3]
ASSUME ConcurrencyAssumption == MaxConcurrency \in Nat \ {0}
ASSUME BucketAssumption ==
    /\ BurstSize \in Nat \ {0}
    /\ TokenUnit \in Nat \ {0}
    /\ RefillRate \in Nat \ {0}
ASSUME BudgetsAssumption == Budgets \subseteq [remaining: Nat, resetIn: Nat]
ASSUME SyncsAssumption == MaxSyncs \in Nat

VARIABLES
    stage,       \* how far each request has come
    running,     \* PrioritySemaphore.running
    waitQueue,   \* PrioritySemaphore.waitQueue, oldest first
    inFlight,    \* keys of RequestQueue.inFlight
    draining,    \* whether drainPromise is set
    tokens,      \* TokenBucket.tokens, in fractions
    elapsed,     \* time since lastRefillMs
    budgetKnown, \* whether budgetRemaining and budgetResetAt are non-null
    budgetRemaining,
    untilReset,  \* time until budgetResetAt
    syncs        \* updateBudget() calls so far (bounds the model)

slotVars   == <<running, waitQueue>>
budgetVars == <<budgetKnown, budgetRemaining, untilReset>>
bucketVars == <<tokens, elapsed, budgetVars>>
vars == <<stage, slotVars, inFlight, draining, bucketVars, syncs>>

Stages == {"idle", "throttled", "tokened", "waiting", "granted", "executing", "done"}

Capacity == BurstSize * TokenUnit

\* Ticks after which the bucket is full whatever it held: a larger `elapsed`
\* refills no more.
FullAfter == Capacity

AtMost(a, b) == IF a < b THEN a ELSE b
AtLeast(a, b) == IF a > b THEN a ELSE b

TypeOK ==
    /\ stage \in [Requests -> Stages]
    /\ running \in Nat
    /\ waitQueue \in Seq(Requests)
    /\ inFlight \subseteq Requests
    /\ draining \in BOOLEAN
    /\ tokens \in 0..Capacity
    /\ elapsed \in 0..FullAfter
    /\ budgetKnown \in BOOLEAN
    /\ budgetRemaining \in Nat
    /\ untilReset \in Nat
    /\ syncs \in 0..MaxSyncs

Init ==
    /\ stage = [r \in Requests |-> "idle"]
    /\ running = 0
    /\ waitQueue = <<>>
    /\ inFlight = {}
    /\ draining = FALSE
    /\ tokens = Capacity
    /\ elapsed = 0
    /\ budgetKnown = FALSE
    /\ budgetRemaining = 0
    /\ untilReset = 0
    /\ syncs = 0

-----------------------------------------------------------------------------
(* The token bucket. *)

\* GitHub said there is nothing left, and its reset time has not come.
Exhausted == budgetKnown /\ budgetRemaining = 0 /\ untilReset > 0

\* Mutant: a spent budget refills.
RefilledRegardless ==
    IF elapsed = 0 THEN tokens ELSE AtMost(Capacity, tokens + elapsed * RefillRate)

\* refill(): what the bucket holds and knows once the elapsed time is counted.
\* Two calls within the same millisecond do not refill, nor look at the budget.
RefilledTokens ==
    IF elapsed = 0 THEN tokens
    ELSE IF Exhausted THEN 0
    ELSE AtMost(Capacity, tokens + elapsed * RefillRate)

BudgetStillKnown ==
    budgetKnown /\ (elapsed > 0 /\ budgetRemaining = 0 => untilReset > 0)

Refilled ==
    /\ tokens' = RefilledTokens
    /\ elapsed' = 0
    /\ budgetKnown' = BudgetStillKnown
    /\ budgetRemaining' = IF BudgetStillKnown THEN budgetRemaining ELSE 0
    /\ untilReset' = IF BudgetStillKnown THEN untilReset ELSE 0

\* refill(), then the loop test of acquire() succeeds and a token is taken.
TokenTaken ==
    /\ RefilledTokens >= TokenUnit
    /\ tokens' = RefilledTokens - TokenUnit
    /\ elapsed' = 0
    /\ budgetKnown' = BudgetStillKnown
    /\ budgetRemaining' = IF BudgetStillKnown /\ budgetRemaining > 0
                          THEN budgetRemaining - 1
                          ELSE 0
    /\ untilReset' = IF BudgetStillKnown THEN untilReset ELSE 0

\* enqueue() up to the end of tokenBucket.acquire(), or up to its sleep().
EnqueueExempt(r) ==
    /\ stage[r] = "idle"
    /\ r \in Exempt
    /\ stage' = [stage EXCEPT ![r] = "tokened"]
    /\ UNCHANGED <<slotVars, inFlight, draining, bucketVars, syncs>>

EnqueueTokened(r) ==
    /\ stage[r] = "idle"
    /\ r \notin Exempt
    /\ TokenTaken
    /\ stage' = [stage EXCEPT ![r] = "tokened"]
    /\ UNCHANGED <<slotVars, inFlight, draining, syncs>>

EnqueueThrottled(r) ==
    /\ stage[r] = "idle"
    /\ r \notin Exempt
    /\ RefilledTokens < TokenUnit
    /\ Refilled
    /\ stage' = [stage EXCEPT ![r] = "throttled"]
    /\ UNCHANGED <<slotVars, inFlight, draining, syncs>>

\* The sleep() of acquire() is over and the loop test is made again.
WakeTokened(r) ==
    /\ stage[r] = "throttled"
    /\ TokenTaken
    /\ stage' = [stage EXCEPT ![r] = "tokened"]
    /\ UNCHANGED <<slotVars, inFlight, draining, syncs>>

WakeThrottled(r) ==
    /\ stage[r] = "throttled"
    /\ RefilledTokens < TokenUnit
    /\ Refilled
    /\ UNCHANGED <<stage, slotVars, inFlight, draining, syncs>>

\* isThrottled(): the event loop's reading of the bucket refills it too.
IsThrottled ==
    /\ Refilled
    /\ UNCHANGED <<stage, slotVars, inFlight, draining, syncs>>

\* updateBudget(remaining, resetAt)
UpdateBudget(b) ==
    /\ syncs < MaxSyncs
    /\ tokens' = IF b.remaining > 0
                 THEN AtLeast(tokens, AtMost(b.remaining * TokenUnit, Capacity))
                 ELSE 0
    /\ elapsed' = 0
    /\ budgetKnown' = TRUE
    /\ budgetRemaining' = b.remaining
    /\ untilReset' = b.resetIn
    /\ syncs' = syncs + 1
    /\ UNCHANGED <<stage, slotVars, inFlight, draining>>

Tick ==
    /\ elapsed' = AtMost(elapsed + 1, FullAfter)
    /\ untilReset' = AtLeast(untilReset - 1, 0)
    /\ UNCHANGED <<stage, slotVars, inFlight, draining, tokens,
                   budgetKnown, budgetRemaining, syncs>>

-----------------------------------------------------------------------------
(* The semaphore and the facade. *)

SlotFree == running < MaxConcurrency

\* PrioritySemaphore.acquire() with a free slot, and without one.
AcquireSlot(r) ==
    /\ stage[r] = "tokened"
    /\ SlotFree
    /\ running' = running + 1
    /\ stage' = [stage EXCEPT ![r] = "granted"]
    /\ UNCHANGED <<waitQueue, inFlight, draining, bucketVars, syncs>>

WaitForSlot(r) ==
    /\ stage[r] = "tokened"
    /\ ~SlotFree
    /\ waitQueue' = Append(waitQueue, r)
    /\ stage' = [stage EXCEPT ![r] = "waiting"]
    /\ UNCHANGED <<running, inFlight, draining, bucketVars, syncs>>

\* The continuation after both awaits: the request becomes in flight and its
\* closure is called.
Start(r) ==
    /\ stage[r] = "granted"
    /\ inFlight' = inFlight \cup {r}
    /\ stage' = [stage EXCEPT ![r] = "executing"]
    /\ UNCHANGED <<slotVars, draining, bucketVars, syncs>>

\* Mutant: the last waiter of the best priority is woken.
IsLastBest(i) ==
    /\ i \in DOMAIN waitQueue
    /\ \A j \in DOMAIN waitQueue :
          /\ Priority[waitQueue[i]] <= Priority[waitQueue[j]]
          /\ j > i => Priority[waitQueue[i]] < Priority[waitQueue[j]]

\* The waiter release() wakes: the first of those of the best priority.
IsBest(i) ==
    /\ i \in DOMAIN waitQueue
    /\ \A j \in DOMAIN waitQueue :
          /\ Priority[waitQueue[i]] <= Priority[waitQueue[j]]
          /\ j < i => Priority[waitQueue[i]] < Priority[waitQueue[j]]

\* Mutant: the slot of the waiter that is woken is given back as well.
WaiterUncounted(i) == waitQueue' = RemoveAt(waitQueue, i) /\ running' = running - 1

\* Mutant: a settled request stays in flight.
LeaveFlightNever(r) == inFlight' = inFlight /\ draining' = draining

\* The waiter leaves the queue and inherits the slot: `running` stays.
WaiterWoken(i) == waitQueue' = RemoveAt(waitQueue, i) /\ running' = running

\* The closure settles (it returns or throws: both take the finally block):
\* release(), inFlight.delete(), checkDrain().
LeaveFlight(r) ==
    /\ inFlight' = inFlight \ {r}
    /\ draining' = (draining /\ inFlight' # {})

FinishHandOver(r, i) ==
    /\ stage[r] = "executing"
    /\ IsBest(i)
    /\ WaiterWoken(i)
    /\ stage' = [stage EXCEPT ![r] = "done", ![waitQueue[i]] = "granted"]
    /\ LeaveFlight(r)
    /\ UNCHANGED <<bucketVars, syncs>>

FinishRelease(r) ==
    /\ stage[r] = "executing"
    /\ waitQueue = <<>>
    /\ running' = running - 1
    /\ stage' = [stage EXCEPT ![r] = "done"]
    /\ LeaveFlight(r)
    /\ UNCHANGED <<waitQueue, bucketVars, syncs>>

\* drain() with requests in flight (without any it returns at once).
Drain ==
    /\ inFlight # {}
    /\ draining' = TRUE
    /\ UNCHANGED <<stage, slotVars, inFlight, bucketVars, syncs>>

-----------------------------------------------------------------------------

Enqueue(r) == EnqueueExempt(r) \/ EnqueueTokened(r) \/ EnqueueThrottled(r)
Wake(r) == WakeTokened(r) \/ WakeThrottled(r)
Slot(r) == AcquireSlot(r) \/ WaitForSlot(r)
Finish(r) == FinishRelease(r) \/ \E i \in DOMAIN waitQueue : FinishHandOver(r, i)

Next ==
    \/ \E r \in Requests :
          Enqueue(r) \/ Wake(r) \/ Slot(r) \/ Start(r) \/ Finish(r)
    \/ \E b \in Budgets : UpdateBudget(b)
    \/ IsThrottled
    \/ Tick
    \/ Drain

Spec == Init /\ [][Next]_vars

(***************************************************************************)
(* Fairness: the clock advances; microtasks and timers run; a closure that *)
(* was started settles (every GitHub call has a timeout).  Nothing obliges *)
(* a caller to enqueue, to drain or to sync the budget.                    *)
(***************************************************************************)
Fairness ==
    /\ WF_vars(Tick)
    /\ \A r \in Requests :
          WF_vars(Wake(r)) /\ WF_vars(Slot(r)) /\ WF_vars(Start(r)) /\ WF_vars(Finish(r))

FairSpec == Spec /\ Fairness

-----------------------------------------------------------------------------
(* Properties. *)

Holders == {r \in Requests : stage[r] \in {"granted", "executing"}}
Waiters == {r \in Requests : stage[r] = "waiting"}

\* `running` counts exactly the requests that hold a slot, so release()
\* neither loses a slot (handing it to a waiter without counting) nor creates
\* one, and the number of concurrent GitHub calls stays under the limit.
SlotsConserved == running = Cardinality(Holders) /\ running <= MaxConcurrency

\* Every waiter is queued once, and nobody else is: no request is forgotten
\* in the semaphore, none is resolved twice.
QueueHoldsWaiters ==
    /\ ToSet(waitQueue) = Waiters
    /\ IsInjective(waitQueue)

\* A slot is never idle while a request waits for one.
WorkConserving == waitQueue # <<>> => running = MaxConcurrency

\* The semaphore loses no slot, no waiter and no work.
SemaphoreSound == SlotsConserved /\ QueueHoldsWaiters /\ WorkConserving

\* A released slot goes to no request while one of a better priority waits,
\* nor while an older one of the same priority waits.
HandOverByPriority ==
    [][\A i \in DOMAIN waitQueue :
          stage'[waitQueue[i]] = "granted" =>
             \A j \in DOMAIN waitQueue :
                /\ Priority[waitQueue[i]] <= Priority[waitQueue[j]]
                /\ Priority[waitQueue[i]] = Priority[waitQueue[j]] => i <= j]_vars

\* Once GitHub has reported that the budget is spent, no request but an exempt
\* one passes the bucket before the reset time, however long it has slept.
NoTokenBeforeReset ==
    [][\A r \in Requests \ Exempt :
          /\ stage[r] # "tokened" /\ stage'[r] = "tokened"
          /\ Exhausted /\ elapsed > 0
          => FALSE]_vars

\* Every request that was enqueued is executed in the end.
EveryRequestServed ==
    \A r \in Requests : (stage[r] # "idle") ~> (stage[r] = "done")

\* A caller of drain() is resumed.
DrainReturns == draining ~> ~draining

\* The two promises of the queue to those who wait on it.
EveryCallReturns == EveryRequestServed /\ DrainReturns
=============================================================================
