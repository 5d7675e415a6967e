------------------------- MODULE RequestQueueProofs -------------------------
(***************************************************************************)
(* Proofs about RequestQueue for any set of requests, any limit on the     *)
(* concurrency and any bucket: the typing of the state, and that the       *)
(* semaphore neither loses nor invents a slot, nor forgets a waiter, nor   *)
(* leaves a slot idle while a request waits for it.                        *)
(***************************************************************************)
EXTENDS RequestQueue, FiniteSetTheorems, SequenceTheorems, TLAPS

-----------------------------------------------------------------------------
(* Arithmetic of the bucket. *)

\* The capacity and the refill of any stretch of time are whole fractions.
LEMMA CapacityType == Capacity \in Nat
  BY BucketAssumption DEF Capacity

LEMMA RefillType ==
  ASSUME NEW n \in Nat
  PROVE  n * RefillRate \in Nat /\ n * TokenUnit \in Nat
  BY BucketAssumption

\* refill() leaves between no token and a full bucket.
LEMMA RefilledTokensType ==
  ASSUME TypeOK
  PROVE  RefilledTokens \in 0..Capacity
  <1> DEFINE more == elapsed * RefillRate
  <1>1. elapsed \in Nat /\ tokens \in 0..Capacity
    BY CapacityType DEF TypeOK, FullAfter
  <1>2. more \in Nat
    BY <1>1, RefillType
  <1> HIDE DEF more
  <1>3. AtMost(Capacity, tokens + more) \in 0..Capacity
    BY <1>1, <1>2, CapacityType DEF AtMost
  <1> QED
    BY <1>1, <1>3, CapacityType DEF RefilledTokens, more

\* The bucket's variables stay well typed whenever it is refilled, and
\* whenever a token is taken.
BucketTyped ==
    /\ tokens \in 0..Capacity
    /\ elapsed \in 0..FullAfter
    /\ budgetKnown \in BOOLEAN
    /\ budgetRemaining \in Nat
    /\ untilReset \in Nat

LEMMA RefillTyped ==
  ASSUME TypeOK, Refilled \/ TokenTaken
  PROVE  BucketTyped'
  <1>1. RefilledTokens \in 0..Capacity /\ Capacity \in Nat /\ TokenUnit \in Nat
    BY RefilledTokensType, CapacityType, BucketAssumption
  <1>2. tokens' \in 0..Capacity
    BY <1>1 DEF Refilled, TokenTaken
  <1>3. elapsed' \in 0..FullAfter
    BY <1>1 DEF Refilled, TokenTaken, FullAfter
  <1>4. budgetKnown' \in BOOLEAN
    BY DEF Refilled, TokenTaken, TypeOK, BudgetStillKnown
  <1>5. budgetRemaining' \in Nat /\ untilReset' \in Nat
    BY DEF Refilled, TokenTaken, TypeOK
  <1> QED
    BY <1>2, <1>3, <1>4, <1>5 DEF BucketTyped

LEMMA UpdateBudgetTyped ==
  ASSUME TypeOK, NEW b \in Budgets, UpdateBudget(b)
  PROVE  BucketTyped'
  <1> DEFINE granted == b.remaining * TokenUnit
  <1>1. b.remaining \in Nat /\ b.resetIn \in Nat
    BY BudgetsAssumption
  <1>2. granted \in Nat
    BY <1>1, RefillType
  <1>3. /\ tokens' = IF b.remaining > 0
                     THEN AtLeast(tokens, AtMost(granted, Capacity))
                     ELSE 0
        /\ elapsed' = 0 /\ budgetKnown' = TRUE
        /\ budgetRemaining' = b.remaining /\ untilReset' = b.resetIn
    BY DEF UpdateBudget
  <1> HIDE DEF granted
  <1>4. tokens' \in 0..Capacity
    BY <1>2, <1>3, CapacityType DEF AtLeast, AtMost, TypeOK
  <1> QED
    BY <1>1, <1>3, <1>4, CapacityType DEF BucketTyped, FullAfter

LEMMA TickTyped ==
  ASSUME TypeOK, Tick
  PROVE  BucketTyped'
  <1>1. Capacity \in Nat
    BY CapacityType
  <1> QED
    BY <1>1 DEF Tick, BucketTyped, TypeOK, FullAfter, AtMost, AtLeast

-----------------------------------------------------------------------------
(* The wait queue. *)

\* Taking a waiter out of a queue without repetitions leaves the others, each
\* once.
LEMMA RemoveAtFacts ==
  ASSUME NEW S, NEW q \in Seq(S), NEW i \in DOMAIN q, IsInjective(q)
  PROVE  /\ RemoveAt(q, i) \in Seq(S)
         /\ Len(RemoveAt(q, i)) = Len(q) - 1
         /\ IsInjective(RemoveAt(q, i))
         /\ ToSet(RemoveAt(q, i)) = ToSet(q) \ {q[i]}
  <1> DEFINE left == RemoveAt(q, i)
  <1>1. Len(q) \in Nat /\ i \in 1..Len(q) /\ DOMAIN q = 1..Len(q)
    OBVIOUS
  <1> DEFINE front == SubSeq(q, 1, i - 1)
             back  == SubSeq(q, i + 1, Len(q))
  <1>f. /\ front \in Seq(S) /\ Len(front) = i - 1
        /\ \A k \in 1..(i - 1) : front[k] = q[k]
    <2>1. \A k \in 1..(i - 1) : q[k] \in S
      BY <1>1
    <2> QED
      BY <1>1, <2>1, SubSeqProperties
  <1>b. /\ back \in Seq(S) /\ Len(back) = Len(q) - i
        /\ \A k \in 1..(Len(q) - i) : back[k] = q[i + k]
    <2>1. \A k \in (i + 1)..Len(q) : q[k] \in S
      BY <1>1
    <2>2. /\ back \in Seq(S)
          /\ Len(back) = IF i + 1 <= Len(q) THEN Len(q) - (i + 1) + 1 ELSE 0
          /\ \A k \in 1..(Len(q) - (i + 1) + 1) : back[k] = q[i + 1 + k - 1]
      BY <1>1, <2>1, SubSeqProperties
    <2> QED
      BY <1>1, <2>2
  <1> HIDE DEF front, back
  <1>c. /\ left \in Seq(S) /\ Len(left) = Len(front) + Len(back)
        /\ \A k \in 1..(Len(front) + Len(back)) :
              left[k] = IF k <= Len(front) THEN front[k] ELSE back[k - Len(front)]
    <2>1. left = front \o back
      BY DEF RemoveAt, front, back
    <2> HIDE DEF left
    <2> QED
      BY <1>f, <1>b, <2>1, ConcatProperties
  <1> HIDE DEF left
  <1>2. left \in Seq(S) /\ Len(left) = Len(q) - 1
    <2>1. Len(front) + Len(back) = Len(q) - 1
      BY <1>1, <1>f, <1>b
    <2> QED
      BY <1>c, <2>1
  <1>3. \A k \in 1..(Len(q) - 1) : left[k] = IF k < i THEN q[k] ELSE q[k + 1]
    <2> TAKE k \in 1..(Len(q) - 1)
    <2>0. k \in 1..(Len(front) + Len(back))
      BY <1>1, <1>f, <1>b
    <2>1. CASE k < i
      BY <1>1, <1>f, <1>b, <1>c, <2>0, <2>1
    <2>2. CASE ~(k < i)
      <3>1. k - Len(front) \in 1..(Len(q) - i) /\ ~(k <= Len(front))
        BY <1>1, <1>f, <1>b, <2>2
      <3>2. left[k] = back[k - Len(front)]
        BY <1>c, <2>0, <3>1
      <3>3. back[k - Len(front)] = q[i + (k - Len(front))]
        BY <1>b, <3>1
      <3>4. i + (k - Len(front)) = k + 1
        BY <1>1, <1>f
      <3> QED
        BY <2>2, <3>2, <3>3, <3>4
    <2> QED
      BY <2>1, <2>2
  <1>4. DOMAIN left = 1..(Len(q) - 1)
    BY <1>2
  <1>5. IsInjective(left)
    <2> SUFFICES ASSUME NEW j \in 1..(Len(q) - 1), NEW k \in 1..(Len(q) - 1),
                        left[j] = left[k]
                 PROVE  j = k
      BY <1>4 DEF IsInjective
    <2> DEFINE place(n) == IF n < i THEN n ELSE n + 1
    <2>1. place(j) \in 1..Len(q) /\ place(k) \in 1..Len(q)
      BY <1>1
    <2>2. q[place(j)] = q[place(k)]
      BY <1>3
    <2>3. place(j) = place(k)
      BY <1>1, <2>1, <2>2 DEF IsInjective
    <2> QED
      BY <1>1, <2>3
  <1>6. ASSUME NEW x \in ToSet(left)
        PROVE  x \in ToSet(q) \ {q[i]}
    <2>1. PICK k \in 1..(Len(q) - 1) : x = left[k]
      BY <1>4 DEF ToSet
    <2> QED
      BY <1>1, <1>3, <2>1 DEF ToSet, IsInjective
  <1>7. ASSUME NEW x \in ToSet(q) \ {q[i]}
        PROVE  x \in ToSet(left)
    <2>1. PICK k \in 1..Len(q) : x = q[k] /\ k # i
      BY <1>1 DEF ToSet
    <2>2. CASE k < i
      <3>1. k \in DOMAIN left /\ left[k] = x
        BY <1>1, <1>3, <1>4, <2>1, <2>2
      <3> QED
        BY <3>1 DEF ToSet
    <2>3. CASE k > i
      <3>1. k - 1 \in DOMAIN left /\ left[k - 1] = x
        BY <1>1, <1>3, <1>4, <2>1, <2>3
      <3> QED
        BY <3>1 DEF ToSet
    <2> QED
      BY <1>1, <2>1, <2>2, <2>3
  <1> QED
    BY <1>2, <1>5, <1>6, <1>7 DEF left

LEMMA AppendFacts ==
  ASSUME NEW S, NEW q \in Seq(S), NEW x \in S, IsInjective(q), x \notin ToSet(q)
  PROVE  /\ Append(q, x) \in Seq(S)
         /\ IsInjective(Append(q, x))
         /\ ToSet(Append(q, x)) = ToSet(q) \cup {x}
  <1>1. /\ Len(q) \in Nat
        /\ DOMAIN q = 1..Len(q)
        /\ DOMAIN Append(q, x) = 1..(Len(q) + 1)
        /\ \A k \in 1..Len(q) : Append(q, x)[k] = q[k]
        /\ Append(q, x)[Len(q) + 1] = x
    OBVIOUS
  <1>2. \A k \in 1..(Len(q) + 1) : k \in 1..Len(q) \/ k = Len(q) + 1
    BY <1>1
  <1>3. IsInjective(Append(q, x))
    BY <1>1, <1>2 DEF IsInjective, ToSet
  <1>4. ToSet(Append(q, x)) = ToSet(q) \cup {x}
    BY <1>1, <1>2 DEF ToSet
  <1> QED
    BY <1>3, <1>4

-----------------------------------------------------------------------------
(* The inductive invariant.  That `running` stays a natural number rests on  *)
(* its counting the holders of a slot, and that the slot a request hands     *)
(* over reaches one waiter rests on the queue holding each waiter once: the  *)
(* three facts about the semaphore and the typing are inductive together.    *)

SlotTyped ==
    /\ stage \in [Requests -> Stages]
    /\ running \in Nat
    /\ waitQueue \in Seq(Requests)
    /\ inFlight \subseteq Requests
    /\ draining \in BOOLEAN

SlotInv == SlotTyped /\ SlotsConserved /\ QueueHoldsWaiters /\ WorkConserving

BucketInv == BucketTyped /\ syncs \in 0..MaxSyncs

LEMMA TypeOKSplit == TypeOK <=> SlotTyped /\ BucketInv
  BY DEF TypeOK, SlotTyped, BucketInv, BucketTyped

LEMMA InitInv == Init => BucketInv /\ SlotInv
  <1> SUFFICES ASSUME Init PROVE BucketInv /\ SlotInv
    OBVIOUS
  <1>1. BucketInv
    <2>1. tokens \in 0..Capacity /\ elapsed \in 0..FullAfter
      BY CapacityType DEF Init, FullAfter
    <2>2. budgetRemaining \in Nat /\ untilReset \in Nat /\ syncs \in 0..MaxSyncs
      BY SyncsAssumption DEF Init
    <2>3. budgetKnown \in BOOLEAN
      BY DEF Init
    <2> QED
      BY <2>1, <2>2, <2>3 DEF BucketInv, BucketTyped
  <1>2. SlotTyped
    <2>1. stage \in [Requests -> Stages] /\ running \in Nat
      BY DEF Init, Stages
    <2>2. waitQueue \in Seq(Requests)
      BY DEF Init
    <2>3. inFlight \subseteq Requests /\ draining \in BOOLEAN
      BY DEF Init
    <2> QED
      BY <2>1, <2>2, <2>3 DEF SlotTyped
  <1>3. Holders = {} /\ Waiters = {}
    BY DEF Init, Holders, Waiters
  <1>4. SlotsConserved
    BY <1>3, FS_EmptySet, ConcurrencyAssumption DEF Init, SlotsConserved
  <1>5. QueueHoldsWaiters /\ WorkConserving
    BY <1>3 DEF Init, QueueHoldsWaiters, WorkConserving, ToSet, IsInjective
  <1> QED
    BY <1>1, <1>2, <1>4, <1>5 DEF SlotInv

\* No step takes a bucket variable out of its range.
LEMMA BucketStep == TypeOK /\ [Next]_vars => BucketInv'
  <1> SUFFICES ASSUME TypeOK, [Next]_vars
               PROVE  BucketInv'
    OBVIOUS
  <1>0. BucketTyped /\ syncs \in 0..MaxSyncs
    BY TypeOKSplit DEF BucketInv
  <1>1. CASE (Refilled \/ TokenTaken) /\ UNCHANGED syncs
    BY <1>0, <1>1, RefillTyped DEF BucketInv
  <1>2. ASSUME NEW b \in Budgets, UpdateBudget(b)
        PROVE  BucketInv'
    <2>1. syncs' \in 0..MaxSyncs
      BY <1>0, <1>2, SyncsAssumption DEF UpdateBudget
    <2> QED
      BY <1>2, <2>1, UpdateBudgetTyped DEF BucketInv
  <1>3. CASE Tick
    <2>1. syncs' = syncs
      BY <1>3 DEF Tick
    <2> QED
      BY <1>0, <1>3, <2>1, TickTyped DEF BucketInv
  <1>4. CASE UNCHANGED <<bucketVars, syncs>>
    BY <1>0, <1>4 DEF bucketVars, budgetVars, BucketInv, BucketTyped, FullAfter, Capacity
  <1>5. \A r \in Requests :
           Enqueue(r) \/ Wake(r) \/ Slot(r) \/ Start(r) \/ Finish(r)
           => \/ (Refilled \/ TokenTaken) /\ UNCHANGED syncs
              \/ UNCHANGED <<bucketVars, syncs>>
    BY DEF Enqueue, Wake, Slot, Start, Finish, EnqueueExempt, EnqueueTokened,
           EnqueueThrottled, WakeTokened, WakeThrottled, AcquireSlot, WaitForSlot,
           FinishRelease, FinishHandOver
  <1>6. IsThrottled => Refilled /\ UNCHANGED syncs
    BY DEF IsThrottled
  <1>7. Drain \/ UNCHANGED vars => UNCHANGED <<bucketVars, syncs>>
    BY DEF Drain, vars
  <1> QED
    BY <1>1, <1>2, <1>3, <1>4, <1>5, <1>6, <1>7 DEF Next

-----------------------------------------------------------------------------
(* The semaphore. *)

\* The requests are finitely many, and so are those that hold a slot.
LEMMA HoldersFinite == IsFiniteSet(Holders) /\ Cardinality(Holders) \in Nat
  <1>1. Holders \subseteq Requests
    BY DEF Holders
  <1> QED
    BY <1>1, RequestsAssumption, FS_Subset, FS_CardinalityType

\* A step that changes neither who holds a slot nor who waits keeps the rest.
LEMMA SlotsUntouched ==
  ASSUME SlotInv, SlotTyped', UNCHANGED slotVars,
         Holders' = Holders, Waiters' = Waiters
  PROVE  SlotInv'
  BY DEF SlotInv, SlotsConserved, QueueHoldsWaiters, WorkConserving, slotVars

LEMMA TakeSlot ==
  ASSUME SlotInv, NEW r \in Requests, AcquireSlot(r)
  PROVE  SlotInv'
  <1>1. SlotTyped'
    BY DEF SlotInv, SlotTyped, AcquireSlot, Stages
  <1>2. Holders' = Holders \cup {r} /\ r \notin Holders /\ Waiters' = Waiters
    BY DEF SlotInv, SlotTyped, AcquireSlot, Holders, Waiters
  <1>3. Cardinality(Holders') = Cardinality(Holders) + 1
    BY <1>2, HoldersFinite, FS_AddElement
  <1>4. SlotsConserved'
    BY <1>3, ConcurrencyAssumption
       DEF SlotInv, SlotTyped, SlotsConserved, AcquireSlot, SlotFree
  <1>5. QueueHoldsWaiters'
    BY <1>2 DEF SlotInv, QueueHoldsWaiters, AcquireSlot
  <1>6. WorkConserving'
    BY ConcurrencyAssumption
       DEF SlotInv, SlotTyped, WorkConserving, AcquireSlot, SlotFree
  <1> QED
    BY <1>1, <1>4, <1>5, <1>6 DEF SlotInv

LEMMA JoinQueue ==
  ASSUME SlotInv, NEW r \in Requests, WaitForSlot(r)
  PROVE  SlotInv'
  <1>1. Holders' = Holders /\ Waiters' = Waiters \cup {r} /\ r \notin Waiters
    BY DEF SlotInv, SlotTyped, WaitForSlot, Holders, Waiters
  <1>2. /\ waitQueue' \in Seq(Requests)
        /\ IsInjective(waitQueue')
        /\ ToSet(waitQueue') = ToSet(waitQueue) \cup {r}
    BY <1>1, AppendFacts DEF SlotInv, SlotTyped, QueueHoldsWaiters, WaitForSlot
  <1>3. SlotTyped'
    BY <1>2 DEF SlotInv, SlotTyped, WaitForSlot, Stages
  <1>4. SlotsConserved'
    BY <1>1 DEF SlotInv, SlotsConserved, WaitForSlot
  <1>5. QueueHoldsWaiters'
    BY <1>1, <1>2 DEF SlotInv, QueueHoldsWaiters
  <1>6. WorkConserving'
    <2>1. running = MaxConcurrency /\ running' = running
      BY ConcurrencyAssumption
         DEF SlotInv, SlotTyped, SlotsConserved, WaitForSlot, SlotFree
    <2> QED
      BY <2>1 DEF WorkConserving
  <1> QED
    BY <1>3, <1>4, <1>5, <1>6 DEF SlotInv

LEMMA HandOver ==
  ASSUME SlotInv, NEW r \in Requests, NEW i \in DOMAIN waitQueue, FinishHandOver(r, i)
  PROVE  SlotInv'
  <1> DEFINE w == waitQueue[i]
  <1>1. w \in Waiters /\ r \in Holders /\ w \in Requests /\ w # r
    BY DEF SlotInv, QueueHoldsWaiters, ToSet, Waiters, Holders, FinishHandOver
  <1>2. /\ waitQueue' \in Seq(Requests)
        /\ Len(waitQueue') = Len(waitQueue) - 1
        /\ IsInjective(waitQueue')
        /\ ToSet(waitQueue') = ToSet(waitQueue) \ {w}
    BY RemoveAtFacts
       DEF SlotInv, SlotTyped, QueueHoldsWaiters, FinishHandOver, WaiterWoken
  <1>3. running' = running
    BY DEF FinishHandOver, WaiterWoken
  <1>4. stage' = [stage EXCEPT ![r] = "done", ![w] = "granted"]
    BY DEF FinishHandOver
  <1>5. inFlight' \subseteq Requests /\ draining' \in BOOLEAN
    BY DEF SlotInv, SlotTyped, FinishHandOver, LeaveFlight
  <1> HIDE DEF w
  <1>6. SlotTyped'
    BY <1>1, <1>2, <1>3, <1>4, <1>5 DEF SlotInv, SlotTyped, Stages
  <1>7. /\ Holders' = (Holders \ {r}) \cup {w}
        /\ w \notin Holders
        /\ Waiters' = Waiters \ {w}
    BY <1>1, <1>4 DEF SlotInv, SlotTyped, Holders, Waiters
  <1>8. Cardinality(Holders') = Cardinality(Holders)
    <2>1. /\ IsFiniteSet(Holders \ {r})
          /\ Cardinality(Holders \ {r}) = Cardinality(Holders) - 1
      BY <1>1, HoldersFinite, FS_RemoveElement
    <2>2. Cardinality(Holders') = Cardinality(Holders \ {r}) + 1
      BY <1>7, <2>1, FS_AddElement
    <2> QED
      BY <2>1, <2>2, HoldersFinite
  <1>9. SlotsConserved' /\ QueueHoldsWaiters' /\ WorkConserving'
    <2>1. waitQueue # <<>>
      BY DEF SlotInv, SlotTyped
    <2> QED
      BY <1>2, <1>3, <1>7, <1>8, <2>1
         DEF SlotInv, SlotsConserved, QueueHoldsWaiters, WorkConserving
  <1> QED
    BY <1>6, <1>9 DEF SlotInv

LEMMA GiveBack ==
  ASSUME SlotInv, NEW r \in Requests, FinishRelease(r)
  PROVE  SlotInv'
  <1>1. r \in Holders /\ Holders' = Holders \ {r} /\ Waiters' = Waiters
    BY DEF SlotInv, SlotTyped, FinishRelease, Holders, Waiters
  <1>2. Cardinality(Holders') = Cardinality(Holders) - 1 /\ Cardinality(Holders') \in Nat
    <2>1. IsFiniteSet(Holders')
      BY <1>1, HoldersFinite, FS_RemoveElement
    <2> QED
      BY <1>1, <2>1, HoldersFinite, FS_RemoveElement, FS_CardinalityType
  <1>3. running' = running - 1 /\ waitQueue' = waitQueue /\ waitQueue = <<>>
    BY DEF FinishRelease
  <1>4. running = Cardinality(Holders) /\ running <= MaxConcurrency
    BY DEF SlotInv, SlotsConserved
  <1>5. running' \in Nat
    BY <1>2, <1>3, <1>4
  <1>6. stage' \in [Requests -> Stages]
    BY DEF SlotInv, SlotTyped, FinishRelease, Stages
  <1>7. inFlight' \subseteq Requests /\ draining' \in BOOLEAN
    BY DEF SlotInv, SlotTyped, FinishRelease, LeaveFlight
  <1>8. SlotTyped'
    BY <1>3, <1>5, <1>6, <1>7 DEF SlotInv, SlotTyped
  <1>9. SlotsConserved'
    BY <1>2, <1>3, <1>4, HoldersFinite, ConcurrencyAssumption DEF SlotsConserved
  <1>10. QueueHoldsWaiters' /\ WorkConserving'
    BY <1>1, <1>3 DEF SlotInv, QueueHoldsWaiters, WorkConserving
  <1> QED
    BY <1>8, <1>9, <1>10 DEF SlotInv

LEMMA SlotStep == SlotInv /\ [Next]_vars => SlotInv'
  <1> SUFFICES ASSUME SlotInv, [Next]_vars
               PROVE  SlotInv'
    OBVIOUS
  <1>1. ASSUME NEW r \in Requests, Enqueue(r) \/ Wake(r) \/ Start(r)
        PROVE  SlotInv'
    <2>1. SlotTyped'
      BY <1>1 DEF SlotInv, SlotTyped, Enqueue, Wake, Start, EnqueueExempt,
                  EnqueueTokened, EnqueueThrottled, WakeTokened, WakeThrottled,
                  slotVars, Stages
    <2>2. UNCHANGED slotVars
      BY <1>1 DEF Enqueue, Wake, Start, EnqueueExempt, EnqueueTokened,
                  EnqueueThrottled, WakeTokened, WakeThrottled
    <2>3. Holders' = Holders /\ Waiters' = Waiters
      BY <1>1 DEF SlotInv, SlotTyped, Enqueue, Wake, Start, EnqueueExempt,
                  EnqueueTokened, EnqueueThrottled, WakeTokened, WakeThrottled,
                  Holders, Waiters
    <2> QED
      BY <2>1, <2>2, <2>3, SlotsUntouched
  <1>2. ASSUME NEW r \in Requests, Slot(r)
        PROVE  SlotInv'
    BY <1>2, TakeSlot, JoinQueue DEF Slot
  <1>3. ASSUME NEW r \in Requests, Finish(r)
        PROVE  SlotInv'
    BY <1>3, HandOver, GiveBack DEF Finish
  <1>4. CASE \/ \E b \in Budgets : UpdateBudget(b)
             \/ IsThrottled \/ Tick \/ Drain \/ UNCHANGED vars
    <2>1. SlotTyped'
      BY <1>4 DEF SlotInv, SlotTyped, UpdateBudget, IsThrottled, Tick, Drain, vars, slotVars
    <2>2. UNCHANGED <<stage, slotVars>>
      BY <1>4 DEF UpdateBudget, IsThrottled, Tick, Drain, vars
    <2> QED
      BY <2>1, <2>2, SlotsUntouched DEF Holders, Waiters
  <1> QED
    BY <1>1, <1>2, <1>3, <1>4 DEF Next

-----------------------------------------------------------------------------
(* The theorems. *)

THEOREM Invariance == Spec => [](BucketInv /\ SlotInv)
  <1>1. BucketInv /\ SlotInv /\ [Next]_vars => (BucketInv /\ SlotInv)'
    BY BucketStep, SlotStep, TypeOKSplit DEF SlotInv
  <1> QED
    BY <1>1, InitInv, PTL DEF Spec

\* Every variable keeps its type: the bucket holds between no token and its
\* burst size, and nothing but a request ever waits or is in flight.
THEOREM Typing == Spec => []TypeOK
  <1>1. BucketInv /\ SlotInv => TypeOK
    BY TypeOKSplit DEF SlotInv
  <1> QED
    BY <1>1, Invariance, PTL

\* release() and acquire() keep `running` equal to the number of requests that
\* hold a slot, and at most maxConcurrency of them do.
THEOREM SlotsAreConserved == Spec => []SlotsConserved
  <1>1. BucketInv /\ SlotInv => SlotsConserved
    BY DEF SlotInv
  <1> QED
    BY <1>1, Invariance, PTL

\* The wait queue of the semaphore holds each waiter exactly once.
THEOREM NoWaiterForgotten == Spec => []QueueHoldsWaiters
  <1>1. BucketInv /\ SlotInv => QueueHoldsWaiters
    BY DEF SlotInv
  <1> QED
    BY <1>1, Invariance, PTL

\* No slot is idle while a request waits in the semaphore.
THEOREM NoIdleSlot == Spec => []WorkConserving
  <1>1. BucketInv /\ SlotInv => WorkConserving
    BY DEF SlotInv
  <1> QED
    BY <1>1, Invariance, PTL

\* And so it loses no slot, no waiter and no work.
THEOREM SemaphoreIsSound == Spec => []SemaphoreSound
  <1>1. BucketInv /\ SlotInv => SemaphoreSound
    BY DEF SlotInv, SemaphoreSound
  <1> QED
    BY <1>1, Invariance, PTL

\* A slot that is released goes to the oldest of the waiters of the best
\* priority: no waiter is granted a slot while a better one waits.
THEOREM ServedByPriority == Spec => HandOverByPriority
  <1>1. SlotInv /\ [Next]_vars =>
           [\A i \in DOMAIN waitQueue :
              stage'[waitQueue[i]] = "granted" =>
                 \A j \in DOMAIN waitQueue :
                    /\ Priority[waitQueue[i]] <= Priority[waitQueue[j]]
                    /\ Priority[waitQueue[i]] = Priority[waitQueue[j]] => i <= j]_vars
    <2> SUFFICES ASSUME SlotInv, Next, NEW i \in DOMAIN waitQueue,
                        stage'[waitQueue[i]] = "granted",
                        NEW j \in DOMAIN waitQueue
                 PROVE  /\ Priority[waitQueue[i]] <= Priority[waitQueue[j]]
                        /\ Priority[waitQueue[i]] = Priority[waitQueue[j]] => i <= j
      OBVIOUS
    <2>1. waitQueue[i] \in Requests /\ stage[waitQueue[i]] = "waiting"
      BY DEF SlotInv, QueueHoldsWaiters, ToSet, Waiters
    <2>2. PICK r \in Requests, k \in DOMAIN waitQueue : FinishHandOver(r, k)
      BY <2>1 DEF Next, Enqueue, Wake, Slot, Start, Finish, EnqueueExempt,
                  EnqueueTokened, EnqueueThrottled, WakeTokened, WakeThrottled,
                  AcquireSlot, WaitForSlot, FinishRelease, UpdateBudget,
                  IsThrottled, Tick, Drain, SlotInv, SlotTyped
    <2>3. waitQueue[k] = waitQueue[i]
      BY <2>1, <2>2 DEF FinishHandOver, SlotInv, SlotTyped
    <2>4. k = i
      BY <2>3 DEF SlotInv, QueueHoldsWaiters, IsInjective
    <2>5. IsBest(i)
      BY <2>2, <2>4 DEF FinishHandOver
    <2>6. /\ Priority[waitQueue[i]] <= Priority[waitQueue[j]]
          /\ j < i => Priority[waitQueue[i]] < Priority[waitQueue[j]]
      BY <2>5 DEF IsBest
    <2>7. /\ Priority[waitQueue[i]] \in Int /\ Priority[waitQueue[j]] \in Int
          /\ i \in Int /\ j \in Int
      BY PriorityAssumption DEF SlotInv, SlotTyped
    <2> QED
      BY <2>6, <2>7
  <1> QED
    BY <1>1, Invariance, PTL DEF Spec, HandOverByPriority

\* While GitHub's budget is spent and its reset time has not come, no request
\* but an exempt one passes the bucket.
THEOREM SpentBudgetHolds == Spec => NoTokenBeforeReset
  <1>1. TypeOK /\ [Next]_vars =>
           [\A r \in Requests \ Exempt :
              /\ stage[r] # "tokened" /\ stage'[r] = "tokened"
              /\ Exhausted /\ elapsed > 0
              => FALSE]_vars
    <2> SUFFICES ASSUME TypeOK, Next, NEW r \in Requests \ Exempt,
                        stage[r] # "tokened", stage'[r] = "tokened",
                        Exhausted, elapsed > 0
                 PROVE  FALSE
      OBVIOUS
    <2>1. TokenTaken
      BY DEF Next, Enqueue, Wake, Slot, Start, Finish, EnqueueExempt,
             EnqueueTokened, EnqueueThrottled, WakeTokened, WakeThrottled,
             AcquireSlot, WaitForSlot, FinishRelease, FinishHandOver, UpdateBudget,
             IsThrottled, Tick, Drain, TypeOK
    <2>2. RefilledTokens = 0
      BY DEF RefilledTokens
    <2> QED
      BY <2>1, <2>2, BucketAssumption DEF TokenTaken
  <1> QED
    BY <1>1, Typing, PTL DEF Spec, NoTokenBeforeReset
=============================================================================
