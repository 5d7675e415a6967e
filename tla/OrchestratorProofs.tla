-------------------------- MODULE OrchestratorProofs --------------------------
(***************************************************************************)
(* Theorems about the event loop: its types and budgets, what it lands,    *)
(* and how many items it launches.                                         *)
(*                                                                         *)
(* The invariant, Inv, ties together what is decided in one place and      *)
(* relied on in another: the records fit (ExecutorProofs), what was polled *)
(* is legible, and a merge in the plan is the only one of its item, whose  *)
(* record is quiet, approved and has an attempt left, from the handler     *)
(* that asked for it to the action that executes it.                       *)
(*                                                                         *)
(* A second invariant, Staffing, is about the sessions: who works on an    *)
(* item, who has been set aside for a retry, and that a launch is planned  *)
(* only where, by the time it runs, nobody is left on the branch.          *)
(*                                                                         *)
(* A third, Founded, is about stacks: every item that left the queue works *)
(* on a base besides which all it depends on has landed, and so does its   *)
(* pull request, whatever was retargeted, restacked or given up.           *)
(*                                                                         *)
(* A fourth, Moored, is about what a stack stands on: until an item has a  *)
(* pull request, no record, snapshot or plan says that it has one, so that *)
(* the branch a worker is stacked on has been opened.                      *)
(***************************************************************************)
EXTENDS ExecutorProofs, FiniteSetTheorems, FunctionTheorems, SequenceTheorems

Distinct(s) == \A m, n \in DOMAIN s : s[m] = s[n] => m = n

ConfigOK ==
  config \in [strategy : Strategies, skipReview : BOOLEAN, accepting : BOOLEAN,
              limit : Limits, reevaluate : BOOLEAN]

SeenOK(on) ==
  /\ \A i \in Items : Legible(Earned(on, i), snaps[i])
  /\ readyIds \subseteq Items
  /\ quiet \in [Items -> 0 .. NotAliveThreshold]

TodoOK ==
  /\ phase \in Phases
  /\ todo \in Seq(Items) /\ Distinct(todo)
  /\ phase \in {"poll", "reevaluate"} => todo # <<>>

\* A merge that is planned is earned, its item is quiet and has an attempt left.
MergePlanned(on, i) ==
  /\ Earned(on, i) /\ Quiet(item[i])
  /\ item[i].mergeFails < MaxMergeRetries
  /\ phase \in {"poll", "reevaluate", "schedule"} => item[i].state = "merging"

IsMerge(a, i) == a.type = "merge" /\ a.item = i

PlanOK(on) ==
  /\ plan \in Seq(Actions)
  /\ phase = "idle" => plan = <<>>
  /\ phase = "act" => plan # <<>>
  /\ phase = "poll" => \A m \in DOMAIN plan, n \in DOMAIN todo : plan[m].item # todo[n]
  /\ phase # "crashed" =>
       /\ \A i \in Items : ~item[i].illegal
       /\ \A i \in Items, m \in DOMAIN plan :
            IsMerge(plan[m], i) => /\ MergePlanned(on, i)
                                   /\ \A n \in DOMAIN plan : IsMerge(plan[n], i) => n = m

Inv(on) == ItemsFit(on) /\ ConfigOK /\ SeenOK(on) /\ WorldOK /\ TodoOK /\ PlanOK(on)

---------------------------------------------------------------------------
(* Filtering a sequence, and the order of the items *)

\* A function on 1 .. N is a sequence.
LEMMA IsSequence == ASSUME NEW T, NEW N \in Nat, NEW F \in [1 .. N -> T] PROVE F \in Seq(T)
  OBVIOUS

\* r holds elements of s, each from a place of its own.
TakenFrom(r, s) ==
  \E f \in [DOMAIN r -> DOMAIN s] : /\ \A k \in DOMAIN r : r[k] = s[f[k]]
                                    /\ \A k, l \in DOMAIN r : f[k] = f[l] => k = l

\* r holds the elements of s that are in W, in their order.
InOrder(r, s, W) ==
  \E f \in [DOMAIN r -> DOMAIN s] : /\ \A k \in DOMAIN r : r[k] = s[f[k]]
                                    /\ \A k, l \in DOMAIN r : k < l => f[k] < f[l]
                                    /\ \A n \in DOMAIN s : s[n] \in W => \E k \in DOMAIN r : f[k] = n

\* What is kept is taken from the sequence, each place once, in order, and all of it.
LEMMA FilteredPlaces ==
  ASSUME NEW S, NEW s \in Seq(S), NEW W
  PROVE  /\ Filtered(s, W) \in Seq(S \cap W)
         /\ TakenFrom(Filtered(s, W), s) /\ InOrder(Filtered(s, W), s, W)
<1>. PICK at : at = {n \in DOMAIN s : s[n] \in W}
  OBVIOUS
<1>. DEFINE upto(n) == {m \in at : m <= n}
            rank(n) == Cardinality(upto(n))
<1>. PICK N : N = Cardinality(at)
  OBVIOUS
<1>1. IsFiniteSet(at) /\ at \subseteq Nat /\ N \in Nat
  <2>1. DOMAIN s = 1 .. Len(s) /\ Len(s) \in Nat
    BY LenProperties
  <2>2. IsFiniteSet(1 .. Len(s))
    BY <2>1, FS_Interval
  <2>. QED
    BY <2>1, <2>2, FS_Subset, FS_CardinalityType
<1>2. ASSUME NEW n \in at
      PROVE  IsFiniteSet(upto(n)) /\ rank(n) \in 1 .. N
  <2>1. upto(n) \in SUBSET at
    OBVIOUS
  <2>2. IsFiniteSet(upto(n)) /\ rank(n) <= N
    BY <1>1, <2>1, FS_Subset
  <2>3. rank(n) \in Nat
    BY <2>2, FS_CardinalityType
  <2>4. n \in upto(n)
    BY <1>1
  <2>5. rank(n) # 0
    BY <2>2, <2>4, FS_EmptySet
  <2>. QED
    BY <1>1, <2>2, <2>3, <2>5
<1>3. ASSUME NEW m \in at, NEW n \in at, m < n
      PROVE  rank(m) # rank(n)
  <2>1. upto(m) \in SUBSET upto(n) /\ n \in upto(n) /\ n \notin upto(m)
    BY <1>1, <1>3
  <2>. QED
    BY <1>2, <2>1, FS_Subset
<1>4. \A m, n \in at : rank(m) = rank(n) => m = n
  BY <1>1, <1>3
<1>4a. ASSUME NEW m \in at, NEW n \in at, m < n
       PROVE  rank(m) <= rank(n)
  <2>1. upto(m) \in SUBSET upto(n)
    BY <1>1, <1>4a
  <2>. QED
    BY <1>2, <2>1, FS_Subset
<1>. PICK R : R = [n \in at |-> rank(n)]
  OBVIOUS
<1>5. R \in Injection(at, 1 .. N)
  BY <1>2, <1>4 DEF Injection, IsInjective
<1>6. IsFiniteSet(1 .. N) /\ Cardinality(1 .. N) = N
  BY <1>1, FS_Interval
<1>7. R \in Surjection(at, 1 .. N)
  BY <1>1, <1>5, <1>6, FS_Injection
<1>8. \A k \in 1 .. N : \E n \in at : rank(n) = k
  BY <1>7 DEF Surjection
<1>. PICK f : f = [k \in 1 .. N |-> CHOOSE n \in at : rank(n) = k]
  OBVIOUS
<1>9. \A k \in 1 .. N : f[k] \in at /\ rank(f[k]) = k
  BY <1>8
<1>10. Filtered(s, W) = [k \in 1 .. N |-> s[f[k]]]
  BY DEF Filtered
<1>. HIDE DEF upto, rank
<1>11. \A k \in 1 .. N : s[f[k]] \in S \cap W
  <2>1. \A n \in at : s[n] \in W /\ s[n] \in S
    BY LenProperties
  <2>. QED
    BY <1>9, <2>1
<1>. PICK F : F = Filtered(s, W)
  OBVIOUS
<1>12. F \in [1 .. N -> S \cap W] /\ DOMAIN F = 1 .. N
  BY <1>10, <1>11
<1>13. F \in Seq(S \cap W)
  BY <1>1, <1>12, IsSequence, Zenon
<1>14. f \in [DOMAIN F -> DOMAIN s]
  BY <1>9, <1>12
<1>15. \A k \in DOMAIN F : F[k] = s[f[k]]
  BY <1>10, <1>12
<1>16. \A k, l \in DOMAIN F : f[k] = f[l] => k = l
  BY <1>9, <1>12
<1>17. \E g \in [DOMAIN F -> DOMAIN s] :
         /\ \A k \in DOMAIN F : F[k] = s[g[k]]
         /\ \A k, l \in DOMAIN F : g[k] = g[l] => k = l
  BY <1>14, <1>15, <1>16
<1>18. TakenFrom(F, s)
  BY <1>17 DEF TakenFrom
<1>19. ASSUME NEW k \in DOMAIN F, NEW l \in DOMAIN F, k < l
       PROVE  f[k] < f[l]
  <2>1. k \in Int /\ l \in Int /\ f[k] \in at /\ f[l] \in at /\ rank(f[k]) = k /\ rank(f[l]) = l
    BY <1>9, <1>12
  <2>2. f[k] \in Int /\ f[l] \in Int
    BY <1>1, <2>1
  <2>3. ~(f[l] < f[k])
    <3>1. ASSUME f[l] < f[k]
          PROVE  FALSE
      <4>1. rank(f[l]) <= rank(f[k])
        BY <1>4a, <2>1, <3>1
      <4>. QED
        BY <1>19, <2>1, <4>1
    <3>. QED
      BY <3>1
  <2>4. f[k] # f[l]
    BY <1>19, <2>1
  <2>. QED
    BY <2>2, <2>3, <2>4
<1>20. ASSUME NEW n \in DOMAIN s, s[n] \in W
       PROVE  \E k \in DOMAIN F : f[k] = n
  <2>1. n \in at /\ rank(n) \in 1 .. N
    BY <1>2, <1>20
  <2>. PICK k : k = rank(n)
    OBVIOUS
  <2>2. k \in DOMAIN F /\ f[k] \in at /\ rank(f[k]) = rank(n)
    BY <1>9, <1>12, <2>1
  <2>. QED
    BY <1>4, <2>1, <2>2
<1>21. InOrder(F, s, W)
  BY <1>14, <1>15, <1>19, <1>20 DEF InOrder
<1>. QED
  BY <1>13, <1>18, <1>21

\* Order lists every item once: it is a sequence of as many places as there are items.
LEMMA OrderLists ==
  /\ Order \in Seq(Items) /\ Distinct(Order)
  /\ \A i \in Items : Position(i) \in DOMAIN Order /\ Order[Position(i)] = i
<1>1. IsFiniteSet(Items) /\ Cardinality(Items) \in Nat
  BY ItemsAssumption, FS_CardinalityType
<1>2. Order \in [1 .. Cardinality(Items) -> Items] /\ \A i \in Items : \E n \in DOMAIN Order : Order[n] = i
  BY OrchestratorAssumption
<1>3. Order \in Surjection(1 .. Cardinality(Items), Items)
  BY <1>2 DEF Surjection
<1>4. /\ IsFiniteSet(1 .. Cardinality(Items))
      /\ Cardinality(1 .. Cardinality(Items)) = Cardinality(Items)
  BY <1>1, FS_Interval
<1>5. Order \in Injection(1 .. Cardinality(Items), Items)
  BY <1>3, <1>4, FS_SurjSameCardinalityImpliesInj
<1>6. Distinct(Order)
  BY <1>5 DEF Injection, IsInjective, Distinct
<1>7. Order \in Seq(Items)
  BY <1>1, <1>2
<1>8. \A i \in Items : Position(i) \in DOMAIN Order /\ Order[Position(i)] = i
  BY <1>2 DEF Position
<1>. QED
  BY <1>6, <1>7, <1>8

\* What is left of a sequence without repetition once its head is served.
LEMMA TailDistinct ==
  ASSUME NEW S, NEW s \in Seq(S), s # <<>>, Distinct(s)
  PROVE  /\ Tail(s) \in Seq(S) /\ Distinct(Tail(s))
         /\ \A n \in DOMAIN Tail(s) : n + 1 \in DOMAIN s /\ Tail(s)[n] = s[n + 1]
         /\ \A n \in DOMAIN Tail(s) : Tail(s)[n] # Head(s)
<1>1. Tail(s) \in Seq(S) /\ Len(Tail(s)) = Len(s) - 1 /\ Head(s) = s[1]
  BY HeadTailProperties
<1>2. DOMAIN s = 1 .. Len(s) /\ DOMAIN Tail(s) = 1 .. Len(Tail(s)) /\ Len(s) \in Nat
  BY <1>1, LenProperties
<1>3. \A n \in DOMAIN Tail(s) : n + 1 \in DOMAIN s /\ Tail(s)[n] = s[n + 1]
  BY <1>1, <1>2
<1>4. \A n \in DOMAIN Tail(s) : Tail(s)[n] # Head(s)
  BY <1>1, <1>2, <1>3 DEF Distinct
<1>5. Distinct(Tail(s))
  BY <1>1, <1>2, <1>3 DEF Distinct
<1>. QED
  BY <1>1, <1>3, <1>4, <1>5

---------------------------------------------------------------------------
(* One step of the loop, of the operator or of the world *)

\* With on, no review is skipped.
ReviewsOn(on) == on => ~config.skipReview

\* No item comes to launching.
NoneLaunches == \A j \in Items : item'[j].state = "launching" => item[j].state = "launching"

\* Records that fit after a step, under the approvals of before.
LEMMA FitsAfter ==
  ASSUME NEW on \in BOOLEAN, item' = [j \in Items |-> item'[j]], Approvals,
         \A j \in Items : Fit(Earned(on, j), TRUE, item'[j])
  PROVE  ItemsFit(on)'
<1>1. ASSUME NEW j \in Items
      PROVE  Fit(Earned(on, j)', TRUE, item'[j])
  <2>. PICK G \in BOOLEAN : G = Earned(on, j)
    BY DEF Earned
  <2>. PICK H \in BOOLEAN : H = Earned(on, j)'
    BY DEF Earned
  <2>1. G => H
    BY DEF Earned, Approvals
  <2>2. Fit(G, TRUE, item'[j])
    OBVIOUS
  <2>. QED
    BY <2>1, <2>2, FitWeaker
<1>. QED
  BY <1>1 DEF ItemsFit

\* The same where no item comes to launching.
LEMMA FittedFits ==
  ASSUME NEW on \in BOOLEAN, item' = [j \in Items |-> item'[j]], Approvals,
         \A j \in Items : Fit(Earned(on, j), WasLaunching(j), item'[j])
  PROVE  ItemsFit(on)' /\ NoneLaunches
<1>1. ASSUME NEW j \in Items
      PROVE  Fit(Earned(on, j)', TRUE, item'[j])
  <2>. PICK G \in BOOLEAN : G = Earned(on, j)
    BY DEF Earned
  <2>. PICK H \in BOOLEAN : H = Earned(on, j)'
    BY DEF Earned
  <2>. PICK L \in BOOLEAN : L = WasLaunching(j)
    BY DEF WasLaunching
  <2>1. G => H
    BY DEF Earned, Approvals
  <2>2. Fit(G, L, item'[j])
    OBVIOUS
  <2>3. Fit(H, TRUE, item'[j])
    BY <2>1, <2>2, FitWeaker
  <2>. QED
    BY <2>3
<1>2. NoneLaunches
  BY DEF Fit, WasLaunching, NoneLaunches
<1>. QED
  BY <1>1, <1>2 DEF ItemsFit

\* What is seen and planned stays in order while nothing of the loop itself changes.
LEMMA SeenStays ==
  ASSUME NEW on \in BOOLEAN, SeenOK(on), Approvals, UNCHANGED <<snaps, readyIds, quiet>>
  PROVE  SeenOK(on)'
  BY DEF SeenOK, Legible, Earned, Approvals

\* A pass that ends forgets its snapshot.
LEMMA NothingSeen ==
  ASSUME NEW on \in BOOLEAN, SeenOK(on), snaps' = [i \in Items |-> NoSnapshot],
         readyIds' = {}, quiet' = quiet
  PROVE  SeenOK(on)'
  BY ZeroCommit DEF SeenOK, Legible, NoSnapshot

\* Workers, reviewers, GitHub and people act while the loop sleeps.
LEMMA WorldPreserves ==
  ASSUME NEW on \in BOOLEAN, Inv(on), NEW i \in Items, World(i)
  PROVE  Inv(on)' /\ NoneLaunches
<1>. USE DEF Inv
<1>1. UNCHANGED <<item, control>> /\ UNCHANGED <<config, phase, todo, plan, snaps, readyIds, quiet>>
  BY DEF World, control
<1>2. item[i].base \in Items \cup {NoItem}
  BY DEF ItemsFit, Fit, Typed
<1>3. WorldOK' /\ Approvals
  BY <1>2, WorldStepOK DEF World
<1>4. \A j \in Items : Fit(Earned(on, j), WasLaunching(j), item'[j])
  BY <1>1, FitNow
<1>5. item' = [j \in Items |-> item'[j]]
  BY <1>1 DEF ItemsFit
<1>6. ItemsFit(on)' /\ NoneLaunches
  BY <1>3, <1>4, <1>5, FittedFits
<1>7. SeenOK(on)'
  BY <1>1, <1>3, SeenStays
<1>8. ConfigOK' /\ TodoOK'
  BY <1>1 DEF ConfigOK, TodoOK
<1>9. PlanOK(on)'
  <2>1. \A k \in Items : MergePlanned(on, k) => MergePlanned(on, k)'
    BY <1>1, <1>3 DEF MergePlanned, Earned, Approvals
  <2>. QED
    BY <1>1, <2>1 DEF PlanOK, IsMerge
<1>. QED
  BY <1>3, <1>6, <1>7, <1>8, <1>9

\* The fields that change outside the loop: a deadline passes, the operator drops reviews.
FallenDue(it)  == [it EXCEPT !.due = TRUE]
WithReviewed(it, b) == [it EXCEPT !.reviewed = b]

\* Deadlines and the operator's switch keep a record fit.
LEMMA OutsideFits ==
  ASSUME NEW G \in BOOLEAN, NEW L \in BOOLEAN, NEW it, Fit(G, L, it)
  PROVE  /\ Fit(G, L, FallenDue(it)) /\ Alike(it, FallenDue(it))
         /\ \A b \in BOOLEAN : Fit(TRUE, L, WithReviewed(it, b)) /\ Alike(it, WithReviewed(it, b))
<1>1. Fit(G, L, FallenDue(it)) /\ Alike(it, FallenDue(it))
  <2>1. Shape(FallenDue(it))
    BY Zenon DEF Shape, Fit, FallenDue
  <2>. QED
    BY <2>1 DEF Fit, Typed, Shape, Fields, FallenDue, Alike, SameMail
<1>2. ASSUME NEW b \in BOOLEAN
      PROVE  Fit(TRUE, L, WithReviewed(it, b)) /\ Alike(it, WithReviewed(it, b))
  <2>1. Shape(WithReviewed(it, b))
    BY Zenon DEF Shape, Fit, WithReviewed
  <2>. QED
    BY <2>1 DEF Fit, Typed, Shape, Fields, WithReviewed, Alike, SameMail
<1>. QED
  BY <1>1, <1>2

\* The deadline of a batch passes while nothing is planned.
LEMMA BatchComesDuePreserves ==
  ASSUME NEW on \in BOOLEAN, Inv(on), NEW i \in Items, BatchComesDue(i)
  PROVE  Inv(on)' /\ NoneLaunches
<1>. USE DEF Inv
<1>1. /\ UNCHANGED <<config, phase, todo, plan, snaps, readyIds, quiet>> /\ UNCHANGED world
      /\ phase = "idle" /\ item' = [item EXCEPT ![i] = FallenDue(item[i])]
  BY DEF BatchComesDue, control, FallenDue
<1>2. UNCHANGED judged /\ Approvals
  BY <1>1 DEF world, Approvals
<1>3. \A j \in Items : Fit(Earned(on, j), WasLaunching(j), item'[j])
  <2>1. /\ Earned(on, i) \in BOOLEAN /\ WasLaunching(i) \in BOOLEAN
        /\ Fit(Earned(on, i), WasLaunching(i), item[i])
    BY FitNow
  <2>2. Fit(Earned(on, i), WasLaunching(i), FallenDue(item[i]))
    BY <2>1, OutsideFits
  <2>3. \A j \in Items : item'[j] = IF j = i THEN FallenDue(item[i]) ELSE item[j]
    BY <1>1 DEF ItemsFit
  <2>. QED
    BY <2>2, <2>3, FitNow
<1>4. item' = [j \in Items |-> item'[j]]
  BY <1>1 DEF ItemsFit
<1>5. ItemsFit(on)' /\ NoneLaunches
  BY <1>2, <1>3, <1>4, FittedFits
<1>6. SeenOK(on)'
  BY <1>1, <1>2, SeenStays
<1>7. ConfigOK' /\ TodoOK'
  BY <1>1 DEF ConfigOK, TodoOK
<1>8. WorldOK'
  BY <1>1 DEF WorldOK, WorldTypeOK, world
<1>9. PlanOK(on)'
  <2>1. plan = <<>> /\ plan' = <<>> /\ phase' = "idle"
    BY <1>1 DEF PlanOK
  <2>2. \A j \in Items : ~item'[j].illegal
    <3>1. \A j \in Items : ~item[j].illegal
      BY <1>1 DEF PlanOK
    <3>2. FallenDue(item[i]).illegal = item[i].illegal
      <4>1. /\ Earned(on, i) \in BOOLEAN /\ WasLaunching(i) \in BOOLEAN
            /\ Fit(Earned(on, i), WasLaunching(i), item[i])
        BY FitNow
      <4>2. Alike(item[i], FallenDue(item[i]))
        BY <4>1, OutsideFits
      <4>. QED
        BY <4>2 DEF Alike
    <3>. QED
      BY <1>1, <3>1, <3>2 DEF ItemsFit
  <2>. QED
    BY <2>1, <2>2 DEF PlanOK
<1>. QED
  BY <1>5, <1>6, <1>7, <1>8, <1>9

\* The operator changes a setting; reviews are on before and after.
LEMMA OperatorPreserves ==
  ASSUME NEW on \in BOOLEAN, Inv(on), Operator, ReviewsOn(on)', ReviewsOn(on)
  PROVE  Inv(on)' /\ NoneLaunches
<1>. USE DEF Inv
<1>1. /\ UNCHANGED <<phase, todo, plan, snaps, readyIds, quiet>> /\ UNCHANGED world
      /\ phase \in {"idle", "act"}
  BY DEF Operator, SetMergeStrategy, SetSkipReview, ToggleAcceptingWork, SetMaxInflight, Yields
<1>2. UNCHANGED judged /\ Approvals
  BY <1>1 DEF world, Approvals
<1>3. ConfigOK'
  BY DEF Operator, SetMergeStrategy, SetSkipReview, ToggleAcceptingWork, SetMaxInflight,
     ConfigOK, Strategies
<1>4. SeenOK(on)'
  BY <1>1, <1>2, SeenStays
<1>5. TodoOK'
  BY <1>1 DEF TodoOK
<1>6. WorldOK'
  BY <1>1 DEF WorldOK, WorldTypeOK, world
<1>7. /\ item' = [j \in Items |-> item'[j]]
      /\ \A j \in Items : Fit(Earned(on, j), WasLaunching(j), item'[j]) /\ Alike(item[j], item'[j])
  <2>1. CASE UNCHANGED item
    BY <2>1, FitNow DEF ItemsFit, Alike, SameMail
  <2>2. CASE SetSkipReview
    <3>1. config'.skipReview = ~config.skipReview /\ config.skipReview \in BOOLEAN
      BY <2>2 DEF SetSkipReview, ConfigOK
    <3>2. ~on
      BY <3>1 DEF ReviewsOn
    <3>3. ASSUME NEW j \in Items
          PROVE  /\ Fit(Earned(on, j), WasLaunching(j), item'[j]) /\ Alike(item[j], item'[j])
      <4>. DEFINE drained == item[j].state \in {"reviewing", "review-pending"}
                  owes    == item[j].round = 0 /\ item[j].state \notin
                               {"merged", "done", "stuck", "blocked", "queued",
                                "ready", "launching", "implementing"}
                  b == IF config'.skipReview THEN item[j].reviewed \/ drained
                       ELSE item[j].reviewed /\ ~owes
      <4>1. item'[j] = WithReviewed(item[j], b)
        BY <2>2 DEF SetSkipReview, WithReviewed
      <4>2. item[j].reviewed \in BOOLEAN
        BY DEF ItemsFit, Fit, Typed
      <4>3. b \in BOOLEAN
        BY <4>2
      <4>. HIDE DEF b, owes, drained
      <4>4. Earned(on, j) = TRUE
        BY <3>2 DEF Earned
      <4>5. WasLaunching(j) \in BOOLEAN /\ Fit(TRUE, WasLaunching(j), item[j])
        BY <4>4, FitNow
      <4>. QED
        BY <4>1, <4>3, <4>4, <4>5, OutsideFits
    <3>4. item' = [j \in Items |-> item'[j]]
      BY <2>2 DEF SetSkipReview
    <3>. QED
      BY <3>3, <3>4
  <2>. QED
    BY <2>1, <2>2 DEF Operator, SetMergeStrategy, ToggleAcceptingWork, SetMaxInflight
<1>8. ItemsFit(on)' /\ NoneLaunches
  BY <1>2, <1>7, FittedFits
<1>9. PlanOK(on)'
  <2>1. \A k \in Items : MergePlanned(on, k) => MergePlanned(on, k)'
    BY <1>1, <1>2, <1>7 DEF MergePlanned, Earned, Approvals, Alike, SameMail, Quiet, AwaitsHandoff
  <2>. QED
    BY <1>1, <1>7, <2>1 DEF PlanOK, IsMerge, Alike
<1>. QED
  BY <1>3, <1>4, <1>5, <1>6, <1>8, <1>9

---------------------------------------------------------------------------
(* A cycle starts *)

\* What a poll reads is legible: an approval in it is on record.
LEMMA SeenLegible ==
  ASSUME NEW on \in BOOLEAN, ItemsFit(on), WorldOK, NEW i \in Items, NEW found
  PROVE  Legible(Earned(on, i), Seen(i, found)) /\ Legible(Earned(on, i), NoSnapshot)
<1>1. /\ item[i].pr \in {"none", "work", "repair"}
      /\ item[i].since \in SUBSET Comments
  BY DEF ItemsFit, Fit, Typed
<1>2. /\ head[i] \in Commits /\ posted[i] \in SUBSET Comments /\ Branch(i) \in Commits
  BY ZeroCommit, WorldTyped DEF Branch
<1>3. verdict[i] = "approve" => Earned(on, i)
  BY DEF WorldOK, Earned
<1>4. Legible(Earned(on, i), NoSnapshot)
  BY ZeroCommit DEF Legible, NoSnapshot
<1>5. CASE Verified(i)
  <2>. PICK s : s = Seen(i, found)
    OBVIOUS
  <2>1. s = [NoSnapshot EXCEPT !.num = item[i].pr, !.main = gh[i].main]
    BY <1>5 DEF Seen
  <2>2. s.num = item[i].pr /\ s.head = 0 /\ s.commits = 0 /\ s.new = {} /\ s.known = {} /\ s.verdict = "none"
    BY <2>1 DEF NoSnapshot
  <2>3. Legible(Earned(on, i), s)
    BY <1>1, <2>2, ZeroCommit DEF Legible
  <2>. QED
    BY <1>4, <2>3
<1>6. CASE ~Verified(i)
  <2>. PICK s : s = Seen(i, found)
    OBVIOUS
  <2>1. /\ s.num \in {item[i].pr, "repair", "work"}
        /\ s.head \in {Branch(i), 0} /\ s.commits = head[i]
        /\ s.new \in {posted[i] \ item[i].since, {}} /\ s.known = posted[i]
        /\ s.verdict \in {verdict[i], "none"}
    BY <1>6 DEF Seen
  <2>2. Legible(Earned(on, i), s)
    BY <1>1, <1>2, <1>3, <2>1, ZeroCommit DEF Legible
  <2>. QED
    BY <1>4, <2>2
<1>. QED
  BY <1>5, <1>6

\* What a poll writes on a record.
PolledOn(it, c, m) == [it EXCEPT !.lastCommit = c, !.mergeSha = m]

\* What the poll writes on a record keeps it fit.
LEMMA PollsFit ==
  ASSUME NEW G \in BOOLEAN, NEW L \in BOOLEAN, NEW it, Fit(G, L, it), NEW c \in Commits, NEW m \in BOOLEAN
  PROVE  Fit(G, L, PolledOn(it, c, m)) /\ Alike(it, PolledOn(it, c, m))
<1>1. Shape(PolledOn(it, c, m))
  BY Zenon DEF Shape, Fit, PolledOn
<1>. QED
  BY <1>1 DEF Fit, Typed, Shape, Fields, PolledOn, Alike, SameMail

\* A cycle starts: the world is polled, and every item is to be passed.
LEMMA StartCyclePreserves ==
  ASSUME NEW on \in BOOLEAN, Inv(on), StartCycle
  PROVE  Inv(on)' /\ NoneLaunches
<1>. USE DEF Inv
<1>1. /\ phase = "idle" /\ phase' = "poll" /\ plan = <<>> /\ plan' = <<>> /\ todo' = Order
      /\ item' = [i \in Items |-> Polls(i)]
      /\ UNCHANGED <<config, gh, head, live, helper, verdict, judged, signals, inbox, heard, posted, tree>>
  BY DEF StartCycle, PlanOK
<1>2. Approvals
  BY <1>1 DEF Approvals
<1>3. ASSUME NEW j \in Items
      PROVE  Fit(Earned(on, j), WasLaunching(j), item'[j]) /\ Alike(item[j], item'[j])
  <2>. DEFINE c == IF item[j].state \in {"launching", "implementing", "ci-failed"}
                   THEN Branch(j) ELSE item[j].lastCommit
              m == item[j].mergeSha \/ (Polled(j) /\ (item[j].state = "merged" \/ snaps'[j].pr = "merged")
                                        /\ Found(j) = "merged")
  <2>1. item'[j] = Polls(j) /\ Polls(j) = PolledOn(item[j], c, m)
    BY <1>1 DEF Polls, PolledOn
  <2>2. item[j].lastCommit \in Commits /\ item[j].mergeSha \in BOOLEAN /\ Branch(j) \in Commits
    BY ZeroCommit, WorldTyped DEF ItemsFit, Fit, Typed, Branch
  <2>3. c \in Commits
    BY <2>2
  <2>4. m \in BOOLEAN
    OBVIOUS
  <2>. HIDE DEF c, m
  <2>5. /\ Earned(on, j) \in BOOLEAN /\ WasLaunching(j) \in BOOLEAN
        /\ Fit(Earned(on, j), WasLaunching(j), item[j])
    BY FitNow
  <2>. QED
    BY <2>1, <2>3, <2>4, <2>5, PollsFit
<1>4. ItemsFit(on)' /\ NoneLaunches
  BY <1>1, <1>2, <1>3, FittedFits
<1>5. SeenOK(on)'
  <2>1. ASSUME NEW j \in Items
        PROVE  Legible(Earned(on, j), snaps'[j])
    <3>1. \E found : snaps'[j] = Seen(j, found) \/ snaps'[j] = NoSnapshot
      BY DEF StartCycle, BlindPolls
    <3>. QED
      BY <3>1, SeenLegible
  <2>2. readyIds' \subseteq Items
    BY DEF StartCycle
  <2>3. quiet' \in [Items -> 0 .. NotAliveThreshold]
    <3>1. \A j \in Items : quiet[j] \in 0 .. NotAliveThreshold /\ quiet[j] \in Int
      BY DEF SeenOK
    <3>2. NotAliveThreshold \in Nat
      BY HandlersAssumption
    <3>3. \A j \in Items : (IF snaps'[j].alive # "no" THEN 0
                            ELSE IF quiet[j] < NotAliveThreshold THEN quiet[j] + 1 ELSE quiet[j])
                             \in 0 .. NotAliveThreshold
      BY <3>1, <3>2
    <3>. QED
      BY <3>3 DEF StartCycle
  <2>4. \A j \in Items : Legible(Earned(on, j)', snaps'[j])
    BY <1>1, <2>1 DEF Earned
  <2>. QED
    BY <2>2, <2>3, <2>4 DEF SeenOK
<1>6. faults' \in 0 .. MaxFaults
  BY FaultTyped, WorldTyped DEF StartCycle, BlindPolls
<1>7. WorldOK'
  BY <1>1, <1>6 DEF WorldOK, WorldTypeOK
<1>8. ConfigOK'
  BY <1>1 DEF ConfigOK
<1>9. TodoOK'
  <2>1. Order # <<>>
    BY OrderLists, ItemsAssumption
  <2>. QED
    BY <1>1, <2>1, OrderLists DEF TodoOK, Phases
<1>10. PlanOK(on)'
  <2>1. \A j \in Items : ~item'[j].illegal
    BY <1>1, <1>3 DEF PlanOK, Alike
  <2>. QED
    BY <1>1, <2>1 DEF PlanOK
<1>. QED
  BY <1>4, <1>5, <1>7, <1>8, <1>9, <1>10

---------------------------------------------------------------------------
(* An action is executed *)

\* The places of what is left of a plan once its first action is executed.
LEMMA TailPlaces ==
  ASSUME NEW S, NEW s \in Seq(S), s # <<>>
  PROVE  /\ Tail(s) \in Seq(S)
         /\ \A n \in DOMAIN Tail(s) : n + 1 \in DOMAIN s /\ Tail(s)[n] = s[n + 1] /\ n \in Nat /\ n # 0
         /\ Tail(s) = <<>> <=> Len(s) = 1
<1>1. Tail(s) \in Seq(S) /\ Len(Tail(s)) = Len(s) - 1
  BY HeadTailProperties
<1>2. DOMAIN s = 1 .. Len(s) /\ DOMAIN Tail(s) = 1 .. Len(Tail(s)) /\ Len(s) \in Nat
  BY <1>1, LenProperties
<1>3. \A n \in DOMAIN Tail(s) : n + 1 \in DOMAIN s /\ Tail(s)[n] = s[n + 1] /\ n \in Nat /\ n # 0
  BY <1>1, <1>2
<1>4. Tail(s) = <<>> <=> Len(Tail(s)) = 0
  BY <1>1, EmptySeq
<1>. QED
  BY <1>1, <1>2, <1>3, <1>4

\* One action is executed: the merges behind it stay planned on quiet records.
LEMMA ActPreserves ==
  ASSUME NEW on \in BOOLEAN, Inv(on), Act
  PROVE  Inv(on)' /\ NoneLaunches
<1>. USE DEF Inv
<1>. PICK a : a = Head(plan)
  OBVIOUS
<1>1. /\ phase = "act" /\ Execute(a) /\ plan' = Tail(plan)
      /\ phase' = IF Threw(item') THEN "crashed" ELSE IF Len(plan) = 1 THEN "idle" ELSE "act"
      /\ UNCHANGED <<config, todo, snaps, readyIds, quiet>>
  BY DEF Act
<1>2. /\ plan \in Seq(Actions) /\ plan # <<>>
      /\ \A i \in Items, m \in DOMAIN plan :
           IsMerge(plan[m], i) => /\ MergePlanned(on, i)
                                  /\ \A n \in DOMAIN plan : IsMerge(plan[n], i) => n = m
  BY <1>1 DEF PlanOK
<1>3. a \in Actions /\ a = plan[1] /\ 1 \in DOMAIN plan /\ a.item \in Items
  BY <1>2, ActionTyped
<1>4. /\ plan' \in Seq(Actions)
      /\ \A n \in DOMAIN plan' : n + 1 \in DOMAIN plan /\ plan'[n] = plan[n + 1] /\ n \in Nat /\ n # 0
      /\ plan' = <<>> <=> Len(plan) = 1
  BY <1>1, <1>2, TailPlaces
<1>5. Stepped(on, IF a.type = "merge" THEN {a.item} ELSE {}) /\ WorldStepped
  <2>1. a.type = "merge" => item[a.item].mergeFails < MaxMergeRetries
    BY <1>2, <1>3 DEF IsMerge, MergePlanned
  <2>. QED
    BY <1>1, <1>3, <2>1, ExecuteServed
<1>6. WorldOK' /\ UNCHANGED judged /\ Approvals
  BY <1>5 DEF WorldStepped, Approvals
<1>7. ItemsFit(on)' /\ NoneLaunches
  BY <1>5, <1>6, FittedFits DEF Stepped
<1>8. SeenOK(on)' /\ ConfigOK'
  BY <1>1, <1>6, SeenStays DEF ConfigOK
<1>9. TodoOK'
  BY <1>1 DEF TodoOK, Phases
<1>10. PlanOK(on)'
  <2>1. /\ phase' = "idle" => plan' = <<>>
        /\ phase' = "act" => plan' # <<>>
        /\ phase' \in {"idle", "act", "crashed"}
    BY <1>1, <1>4
  <2>2. phase' # "crashed" => \A i \in Items : ~item'[i].illegal
    BY <1>1 DEF Threw
  <2>3. ASSUME NEW i \in Items, NEW m \in DOMAIN plan', IsMerge(plan'[m], i)
        PROVE  /\ MergePlanned(on, i)'
               /\ \A n \in DOMAIN plan' : IsMerge(plan'[n], i) => n = m
    <3>1. m + 1 \in DOMAIN plan /\ IsMerge(plan[m + 1], i) /\ m + 1 # 1
      BY <1>4, <2>3
    <3>2. MergePlanned(on, i) /\ \A n \in DOMAIN plan : IsMerge(plan[n], i) => n = m + 1
      BY <1>2, <3>1
    <3>3. ~IsMerge(a, i)
      BY <1>3, <3>1, <3>2
    <3>4. /\ Quiet(item[i]) => Quiet(item'[i])
          /\ item'[i].mergeFails = item[i].mergeFails
      BY <1>5, <3>3 DEF Stepped, IsMerge
    <3>5. MergePlanned(on, i)'
      BY <1>6, <2>1, <3>2, <3>4 DEF MergePlanned, Earned
    <3>6. ASSUME NEW n \in DOMAIN plan', IsMerge(plan'[n], i)
          PROVE  n = m
      <4>1. n + 1 \in DOMAIN plan /\ IsMerge(plan[n + 1], i) /\ n \in Nat /\ m \in Nat
        BY <1>4, <3>6
      <4>2. n + 1 = m + 1
        BY <3>2, <4>1
      <4>. QED
        BY <4>1, <4>2
    <3>. QED
      BY <3>5, <3>6
  <2>. QED
    BY <1>4, <2>1, <2>2, <2>3 DEF PlanOK
<1>. QED
  BY <1>6, <1>7, <1>8, <1>9, <1>10

---------------------------------------------------------------------------
(* The pass over the items *)

\* What a handler asks for comes after what is planned already.
LEMMA PlanGrows ==
  ASSUME NEW i \in Items, plan \in Seq(Actions), NEW acts \in ForItem(i), plan' = plan \o acts
  PROVE  /\ plan' \in Seq(Actions)
         /\ \A m \in DOMAIN plan' :
              \/ m \in DOMAIN plan /\ plan'[m] = plan[m]
              \/ \E k \in 1 .. Len(acts) :
                   /\ k \in DOMAIN acts /\ m = Len(plan) + k
                   /\ plan'[m] = acts[k] /\ plan'[m].item = i
<1>1. acts \in Seq(Actions) /\ \A k \in DOMAIN acts : acts[k].item = i
  BY DEF ForItem
<1>2. /\ plan' \in Seq(Actions) /\ Len(plan') = Len(plan) + Len(acts)
      /\ \A m \in 1 .. Len(plan) + Len(acts) :
            plan'[m] = IF m <= Len(plan) THEN plan[m] ELSE acts[m - Len(plan)]
  BY <1>1, ConcatProperties
<1>3. /\ Len(plan) \in Nat /\ Len(acts) \in Nat /\ DOMAIN plan = 1 .. Len(plan)
      /\ DOMAIN acts = 1 .. Len(acts) /\ DOMAIN plan' = 1 .. Len(plan')
  BY <1>1, <1>2, LenProperties
<1>4. ASSUME NEW m \in DOMAIN plan', ~(m \in DOMAIN plan /\ plan'[m] = plan[m])
      PROVE  \E k \in 1 .. Len(acts) : /\ k \in DOMAIN acts /\ m = Len(plan) + k
                                       /\ plan'[m] = acts[k] /\ plan'[m].item = i
  <2>1. m \in 1 .. Len(plan) + Len(acts) /\ ~(m <= Len(plan))
    BY <1>2, <1>3, <1>4
  <2>2. m - Len(plan) \in 1 .. Len(acts) /\ m = Len(plan) + (m - Len(plan))
    BY <1>3, <2>1
  <2>3. plan'[m] = acts[m - Len(plan)]
    BY <1>2, <2>1
  <2>. QED
    BY <1>1, <1>3, <2>2, <2>3
<1>. QED
  BY <1>2, <1>4

\* The merges planned after one more item has been passed.
LEMMA PassPlan ==
  ASSUME NEW on \in BOOLEAN, plan \in Seq(Actions), phase \in {"poll", "reevaluate"},
         \A j \in Items, m \in DOMAIN plan :
            IsMerge(plan[m], j) => /\ MergePlanned(on, j)
                                   /\ \A n \in DOMAIN plan : IsMerge(plan[n], j) => n = m,
         NEW i \in Items, NEW o, Good(Earned(on, i), WasLaunching(i), i, o),
         plan' = plan \o o.acts, UNCHANGED judged,
         \A m \in DOMAIN plan : ~IsMerge(plan[m], i),
         \A j \in Items \ {i} : item[j].state = "merging" => Alike(item[j], item'[j]),
         Alike(o.it, item'[i]), ~item'[i].illegal,
         NEW j \in Items, NEW m \in DOMAIN plan', IsMerge(plan'[m], j)
  PROVE  MergePlanned(on, j)' /\ \A n \in DOMAIN plan' : IsMerge(plan'[n], j) => n = m
<1>1. /\ o.acts \in ForItem(i) /\ Fit(Earned(on, i), WasLaunching(i), o.it)
      /\ \/ o.acts \in Plain(i)
         \/ /\ Earned(on, i) /\ Quiet(o.it) /\ (o.it.state = "merging" \/ o.it.illegal)
            /\ MergeLast(o.acts)
  BY DEF Good
<1>2. \A n \in DOMAIN plan' :
         \/ n \in DOMAIN plan /\ plan'[n] = plan[n]
         \/ \E k \in 1 .. Len(o.acts) :
              /\ k \in DOMAIN o.acts /\ n = Len(plan) + k
              /\ plan'[n] = o.acts[k] /\ plan'[n].item = i
  BY <1>1, PlanGrows
<1>3. CASE m \in DOMAIN plan /\ plan'[m] = plan[m]
  <2>1. IsMerge(plan[m], j) /\ j # i
    BY <1>3
  <2>2. MergePlanned(on, j) /\ item[j].state = "merging" /\ \A n \in DOMAIN plan : IsMerge(plan[n], j) => n = m
    BY <1>3, <2>1 DEF MergePlanned
  <2>3. Alike(item[j], item'[j])
    BY <2>1, <2>2
  <2>4. MergePlanned(on, j)'
    BY <2>2, <2>3 DEF MergePlanned, Earned, Alike, SameMail, Quiet, AwaitsHandoff
  <2>5. ASSUME NEW n \in DOMAIN plan', IsMerge(plan'[n], j)
        PROVE  n = m
    BY <1>2, <2>1, <2>2, <2>5 DEF IsMerge
  <2>. QED
    BY <2>4, <2>5
<1>4. ASSUME NEW k \in 1 .. Len(o.acts), k \in DOMAIN o.acts, m = Len(plan) + k,
             plan'[m] = o.acts[k], plan'[m].item = i
      PROVE  MergePlanned(on, j)' /\ \A n \in DOMAIN plan' : IsMerge(plan'[n], j) => n = m
  <2>1. j = i /\ o.acts[k].type = "merge"
    BY <1>4 DEF IsMerge
  <2>2. o.acts \notin Plain(i)
    BY <1>4, <2>1 DEF Plain
  <2>3. Earned(on, i) /\ Quiet(o.it) /\ o.it.state = "merging" /\ MergeLast(o.acts) /\ ~o.it.illegal
    BY <1>1, <2>2 DEF Alike
  <2>4. o.it.mergeFails < MaxMergeRetries
    BY <1>1, <2>3 DEF Fit
  <2>5. MergePlanned(on, i)'
    BY <2>3, <2>4 DEF MergePlanned, Earned, Alike, SameMail, Quiet, AwaitsHandoff
  <2>6. Len(o.acts) \in Nat
    BY <1>1, LenProperties DEF ForItem
  <2>7. \A l \in 1 .. Len(o.acts) : o.acts[l].type = "merge" => l = Len(o.acts)
    BY <2>3, <2>6 DEF MergeLast
  <2>8. ASSUME NEW n \in DOMAIN plan', IsMerge(plan'[n], j)
        PROVE  n = m
    <3>1. ~(n \in DOMAIN plan /\ plan'[n] = plan[n])
      BY <2>1, <2>8
    <3>2. PICK l \in 1 .. Len(o.acts) : n = Len(plan) + l /\ plan'[n] = o.acts[l]
      BY <1>2, <3>1
    <3>3. l = Len(o.acts) /\ k = Len(o.acts)
      BY <2>1, <2>7, <2>8, <3>2 DEF IsMerge
    <3>. QED
      BY <1>4, <3>2, <3>3
  <2>. QED
    BY <2>1, <2>5, <2>8
<1>. QED
  BY <1>2, <1>3, <1>4

\* An item that becomes stuck sends back what was to be stacked on it, and nothing else.
PassedOn(i, it) == RolledBack([item EXCEPT ![i] = it], i)

\* Rolling back what was stacked on a stuck item leaves every merging item alone.
LEMMA RolledBackFits ==
  ASSUME NEW on \in BOOLEAN, ItemsFit(on), NEW i \in Items, NEW it,
         Fit(Earned(on, i), WasLaunching(i), it)
  PROVE  LET records == PassedOn(i, it)
         IN
         /\ \A j \in Items : Fit(Earned(on, j), WasLaunching(j), records[j])
         /\ records[i] = it
         /\ \A j \in Items \ {i} : item[j].state = "merging" => records[j] = item[j]
<1>. PICK records : records = PassedOn(i, it)
  OBVIOUS
<1>. PICK first : first = [item EXCEPT ![i] = it]
  OBVIOUS
<1>1. \A j \in Items : first[j] = IF j = i THEN it ELSE item[j]
  BY DEF ItemsFit
<1>2. ASSUME NEW j \in Items
      PROVE  /\ Fit(Earned(on, j), WasLaunching(j), first[j])
             /\ Fit(Earned(on, j), WasLaunching(j), WithBase(Moved(first[j], "queued"), NoItem))
  <2>1. /\ Earned(on, j) \in BOOLEAN /\ WasLaunching(j) \in BOOLEAN
        /\ Fit(Earned(on, j), WasLaunching(j), first[j])
    BY <1>1, FitNow
  <2>2. Fit(Earned(on, j), WasLaunching(j), Moved(first[j], "queued"))
    BY <2>1, MovedFits DEF States
  <2>. QED
    BY <2>1, <2>2, FieldsSteady
<1>3. ASSUME NEW j \in Items
      PROVE  \/ records[j] = first[j]
             \/ /\ records[j] = WithBase(Moved(first[j], "queued"), NoItem)
                /\ first[j].state \in {"ready", "launching"} /\ first[i].state = "stuck"
  BY <1>1 DEF PassedOn, RolledBack, WithBase, ItemsFit
<1>. QED
  BY <1>1, <1>2, <1>3

\* One item goes through its handler.
LEMMA PollPreserves ==
  ASSUME NEW on \in BOOLEAN, Inv(on), ReviewsOn(on), Poll
  PROVE  Inv(on)' /\ NoneLaunches
<1>. USE DEF Inv
<1>. PICK i : i = Head(todo)
  OBVIOUS
<1>. PICK last : last = IF config.reevaluate THEN "reevaluate" ELSE "schedule"
  OBVIOUS
<1>1. PICK o \in Transitioned(config, i, item[i], snaps[i]) :
        LET records == PassedOn(i, o.it)
        IN  /\ Commit(records)
            /\ plan' = plan \o o.acts
            /\ Advance(records, last)
            /\ todo' = IF Len(todo) = 1 /\ last = "reevaluate" THEN Order ELSE Tail(todo)
  BY Zenon DEF Poll, PassedOn
<1>2. PICK records : records = PassedOn(i, o.it)
  OBVIOUS
<1>3. /\ Commit(records) /\ plan' = plan \o o.acts
      /\ phase' = IF Threw(records) THEN "crashed" ELSE IF Len(todo) > 1 THEN phase ELSE last
      /\ todo' = IF Len(todo) = 1 /\ last = "reevaluate" THEN Order ELSE Tail(todo)
  BY <1>1, <1>2 DEF Advance
<1>4. phase = "poll" /\ UNCHANGED <<config, snaps, readyIds, quiet, world>> /\ UNCHANGED judged
  BY DEF Poll, world
<1>5. /\ todo \in Seq(Items) /\ todo # <<>> /\ Distinct(todo) /\ i \in Items
      /\ i = todo[1] /\ 1 \in DOMAIN todo /\ Len(todo) \in Nat
  BY <1>4, HeadTailProperties, LenProperties DEF TodoOK
<1>6. Good(Earned(on, i), WasLaunching(i), i, o)
  <2>1. config.skipReview \in BOOLEAN
    BY DEF ConfigOK
  <2>2. config.skipReview => Earned(on, i)
    BY DEF ReviewsOn, Earned
  <2>3. Legible(Earned(on, i), snaps[i])
    BY <1>5 DEF SeenOK
  <2>4. Facing(Earned(on, i), WasLaunching(i), config, i, item[i], snaps[i])
    BY <1>5, <2>1, <2>2, <2>3, FitNow DEF Facing
  <2>. QED
    BY <2>4, TransitionedGood
<1>7. /\ \A j \in Items : Fit(Earned(on, j), WasLaunching(j), records[j])
      /\ records[i] = o.it
      /\ \A j \in Items \ {i} : item[j].state = "merging" => records[j] = item[j]
  BY <1>2, <1>5, <1>6, RolledBackFits DEF Good
<1>8. ASSUME NEW j \in Items
      PROVE  /\ item' = [k \in Items |-> item'[k]]
             /\ Fit(Earned(on, j), WasLaunching(j), item'[j]) /\ Alike(records[j], item'[j])
  BY <1>3, <1>7, FitNow, CommitFits, WorldTyped
<1>9. item' = [k \in Items |-> item'[k]] /\ Approvals
  BY <1>4, <1>5, <1>8 DEF Approvals
<1>10. ItemsFit(on)' /\ NoneLaunches
  BY <1>8, <1>9, FittedFits
<1>11. SeenOK(on)' /\ ConfigOK' /\ WorldOK'
  BY <1>4, <1>9, SeenStays DEF ConfigOK, WorldOK, WorldTypeOK, world
<1>12. last \in {"reevaluate", "schedule"} /\ Order # <<>>
  BY OrderLists, ItemsAssumption
<1>13. /\ Tail(todo) \in Seq(Items) /\ Distinct(Tail(todo)) /\ (Tail(todo) = <<>> <=> Len(todo) = 1)
       /\ \A n \in DOMAIN Tail(todo) : n + 1 \in DOMAIN todo /\ Tail(todo)[n] = todo[n + 1] /\ Tail(todo)[n] # i
  BY <1>5, TailDistinct, TailPlaces
<1>14. /\ Len(todo) = 1 => phase' \in {"crashed", last}
       /\ Len(todo) # 1 => phase' \in {"crashed", "poll"} /\ todo' = Tail(todo)
       /\ todo' = Tail(todo) \/ (todo' = Order /\ Len(todo) = 1 /\ last = "reevaluate")
  <2>0. DOMAIN todo = 1 .. Len(todo)
    BY <1>5, LenProperties
  <2>1. Len(todo) > 1 <=> Len(todo) # 1
    BY <1>5, <2>0
  <2>2. CASE Len(todo) = 1
    BY <1>3, <2>1, <2>2
  <2>3. CASE Len(todo) # 1
    BY <1>3, <1>4, <2>1, <2>3
  <2>. QED
    BY <2>2, <2>3
<1>15. TodoOK'
  <2>1. todo' \in Seq(Items) /\ Distinct(todo')
    BY <1>13, <1>14, OrderLists
  <2>2. phase' \in Phases
    BY <1>12, <1>14 DEF Phases
  <2>3. phase' \in {"poll", "reevaluate"} => todo' # <<>>
    <3>1. CASE Len(todo) # 1
      BY <1>13, <1>14, <3>1
    <3>2. CASE Len(todo) = 1 /\ last = "schedule"
      BY <1>14, <3>2
    <3>3. CASE Len(todo) = 1 /\ last = "reevaluate"
      BY <1>3, <1>12, <3>3
    <3>. QED
      BY <1>12, <3>1, <3>2, <3>3
  <2>. QED
    BY <2>1, <2>2, <2>3 DEF TodoOK
<1>16. PlanOK(on)'
  <2>1. plan' \in Seq(Actions) /\ o.acts \in ForItem(i)
    BY <1>3, <1>5, <1>6, PlanGrows DEF PlanOK, Good
  <2>2. phase' \in {"poll", "reevaluate", "schedule", "crashed"}
    BY <1>12, <1>14
  <2>3. \A m \in DOMAIN plan, n \in DOMAIN todo : plan[m].item # todo[n]
    BY <1>4 DEF PlanOK
  <2>4. ASSUME phase' = "poll", NEW m \in DOMAIN plan', NEW n \in DOMAIN todo'
        PROVE  plan'[m].item # todo'[n]
    <3>1. todo' = Tail(todo)
      BY <1>12, <1>14, <2>4
    <3>2. n + 1 \in DOMAIN todo /\ todo'[n] = todo[n + 1] /\ todo'[n] # i
      BY <1>13, <3>1
    <3>3. (m \in DOMAIN plan /\ plan'[m] = plan[m]) \/ plan'[m].item = i
      <4>1. plan \in Seq(Actions) /\ plan' = plan \o o.acts
        BY <1>3 DEF PlanOK
      <4>2. \A l \in DOMAIN plan' :
              \/ l \in DOMAIN plan /\ plan'[l] = plan[l]
              \/ \E k \in 1 .. Len(o.acts) :
                   /\ k \in DOMAIN o.acts /\ l = Len(plan) + k
                   /\ plan'[l] = o.acts[k] /\ plan'[l].item = i
        BY <1>5, <2>1, <4>1, PlanGrows
      <4>. QED
        BY <2>4, <4>2
    <3>. QED
      BY <2>3, <3>2, <3>3
  <2>5. phase' # "crashed" => \A j \in Items : ~item'[j].illegal
    BY <1>3, <1>8 DEF Threw, Alike
  <2>6. ASSUME phase' # "crashed", NEW j \in Items, NEW m \in DOMAIN plan', IsMerge(plan'[m], j)
        PROVE  MergePlanned(on, j)' /\ \A n \in DOMAIN plan' : IsMerge(plan'[n], j) => n = m
    <3>1. \A k \in DOMAIN plan : ~IsMerge(plan[k], i)
      BY <1>5, <2>3 DEF IsMerge
    <3>2. \A k \in Items \ {i} : item[k].state = "merging" => Alike(item[k], item'[k])
      BY <1>7, <1>8
    <3>3. Alike(o.it, item'[i]) /\ ~item'[i].illegal
      BY <1>5, <1>7, <1>8, <2>5, <2>6
    <3>4. plan \in Seq(Actions)
          /\ \A k \in Items, n \in DOMAIN plan :
               IsMerge(plan[n], k) => /\ MergePlanned(on, k)
                                      /\ \A l \in DOMAIN plan : IsMerge(plan[l], k) => l = n
      BY <1>4 DEF PlanOK
    <3>. QED
      BY <1>3, <1>4, <1>5, <1>6, <2>6, <3>1, <3>2, <3>3, <3>4, PassPlan, ZenonT(60)
  <2>. QED
    BY <2>1, <2>2, <2>4, <2>5, <2>6 DEF PlanOK
<1>. QED
  BY <1>10, <1>11, <1>15, <1>16

\* One item is reconsidered after the operator changed the merge strategy.
LEMMA ReevaluatePreserves ==
  ASSUME NEW on \in BOOLEAN, Inv(on), ReviewsOn(on), Reevaluate
  PROVE  Inv(on)' /\ NoneLaunches
<1>. USE DEF Inv
<1>. PICK i : i = Head(todo)
  OBVIOUS
<1>1. PICK o : o = IF item[i].state = "review-pending" /\ snaps[i].ci = "pass"
                   THEN EvaluateMerge(config, i, item[i], snaps[i]) ELSE Outcome(item[i], <<>>)
  OBVIOUS
<1>2. PICK records : records = [item EXCEPT ![i] = o.it]
  OBVIOUS
<1>3. /\ Commit(records) /\ plan' = plan \o o.acts
      /\ phase' = IF Threw(records) THEN "crashed" ELSE IF Len(todo) > 1 THEN phase ELSE "schedule"
      /\ todo' = Tail(todo)
  BY <1>1, <1>2 DEF Reevaluate, Advance
<1>4. /\ phase = "reevaluate" /\ UNCHANGED <<snaps, readyIds, quiet, world>> /\ UNCHANGED judged
      /\ config' = [config EXCEPT !.reevaluate = FALSE]
  BY DEF Reevaluate, world
<1>5. /\ todo \in Seq(Items) /\ todo # <<>> /\ Distinct(todo) /\ i \in Items
      /\ Len(todo) \in Nat /\ DOMAIN todo = 1 .. Len(todo) /\ 1 \in DOMAIN todo
  BY <1>4, HeadTailProperties, LenProperties DEF TodoOK
<1>6. Good(Earned(on, i), WasLaunching(i), i, o)
  <2>1. CASE item[i].state = "review-pending" /\ snaps[i].ci = "pass"
    <3>1. config.skipReview \in BOOLEAN
      BY DEF ConfigOK
    <3>2. config.skipReview => Earned(on, i)
      BY DEF ReviewsOn, Earned
    <3>3. Legible(Earned(on, i), snaps[i])
      BY <1>5 DEF SeenOK
    <3>4. Facing(Earned(on, i), WasLaunching(i), config, i, item[i], snaps[i])
      BY <1>5, <3>1, <3>2, <3>3, FitNow DEF Facing
    <3>. QED
      BY <1>1, <2>1, <3>4, EvaluateMergeGood
  <2>2. CASE ~(item[i].state = "review-pending" /\ snaps[i].ci = "pass")
    <3>1. o.it = item[i] /\ o.acts = <<>>
      BY <1>1, <2>2 DEF Outcome
    <3>. QED
      BY <1>5, <3>1, FitNow, NoActs DEF Good
  <2>. QED
    BY <2>1, <2>2
<1>7. \A j \in Items : records[j] = IF j = i THEN o.it ELSE item[j]
  BY <1>2 DEF ItemsFit
<1>8. ASSUME NEW j \in Items
      PROVE  /\ item' = [k \in Items |-> item'[k]]
             /\ Fit(Earned(on, j), WasLaunching(j), item'[j]) /\ Alike(records[j], item'[j])
  <2>1. Fit(Earned(on, j), WasLaunching(j), records[j])
    BY <1>6, <1>7, FitNow DEF Good
  <2>. QED
    BY <1>3, <2>1, FitNow, CommitFits, WorldTyped
<1>9. item' = [k \in Items |-> item'[k]] /\ Approvals
  BY <1>4, <1>5, <1>8 DEF Approvals
<1>10. ItemsFit(on)' /\ NoneLaunches
  BY <1>8, <1>9, FittedFits
<1>11. SeenOK(on)' /\ ConfigOK' /\ WorldOK'
  BY <1>4, <1>9, SeenStays DEF ConfigOK, WorldOK, WorldTypeOK, world
<1>12. /\ Tail(todo) \in Seq(Items) /\ Distinct(Tail(todo)) /\ (Tail(todo) = <<>> <=> Len(todo) = 1)
       /\ Len(todo) > 1 <=> Len(todo) # 1
  <2>1. Len(todo) > 1 <=> Len(todo) # 1
    BY <1>5
  <2>. QED
    BY <1>5, <2>1, TailDistinct, TailPlaces
<1>13. /\ phase' \in {"reevaluate", "schedule", "crashed"}
       /\ phase' = "reevaluate" => Len(todo) # 1
  <2>1. CASE Len(todo) = 1
    BY <1>3, <1>12, <2>1
  <2>2. CASE Len(todo) # 1
    BY <1>3, <1>4, <1>12, <2>2
  <2>. QED
    BY <2>1, <2>2
<1>14. TodoOK'
  BY <1>3, <1>12, <1>13 DEF TodoOK, Phases
<1>15. PlanOK(on)'
  <2>1. plan' \in Seq(Actions) /\ o.acts \in ForItem(i) /\ plan \in Seq(Actions)
    BY <1>3, <1>5, <1>6, PlanGrows DEF PlanOK, Good
  <2>2. phase' # "crashed" => \A j \in Items : ~item'[j].illegal
    BY <1>3, <1>8 DEF Threw, Alike
  <2>3. \A k \in Items, n \in DOMAIN plan :
          IsMerge(plan[n], k) => /\ MergePlanned(on, k)
                                 /\ \A l \in DOMAIN plan : IsMerge(plan[l], k) => l = n
    BY <1>4 DEF PlanOK
  <2>4. ASSUME phase' # "crashed", NEW j \in Items, NEW m \in DOMAIN plan', IsMerge(plan'[m], j)
        PROVE  MergePlanned(on, j)' /\ \A n \in DOMAIN plan' : IsMerge(plan'[n], j) => n = m
    <3>1. CASE item[i].state = "review-pending" /\ snaps[i].ci = "pass"
      <4>1. \A n \in DOMAIN plan : ~IsMerge(plan[n], i)
        BY <1>4, <1>5, <2>3, <3>1 DEF MergePlanned
      <4>2. \A k \in Items \ {i} : item[k].state = "merging" => Alike(item[k], item'[k])
        BY <1>7, <1>8
      <4>3. Alike(o.it, item'[i]) /\ ~item'[i].illegal
        BY <1>5, <1>7, <1>8, <2>2, <2>4
      <4>. QED
        BY <1>3, <1>4, <1>5, <1>6, <2>1, <2>3, <2>4, <4>1, <4>2, <4>3, PassPlan, ZenonT(60)
    <3>2. CASE ~(item[i].state = "review-pending" /\ snaps[i].ci = "pass")
      <4>1. o.it = item[i] /\ o.acts = <<>>
        BY <1>1, <3>2 DEF Outcome
      <4>2. plan' = plan
        BY <1>3, <2>1, <4>1, ConcatEmptySeq
      <4>3. Alike(item[j], item'[j])
        BY <1>7, <1>8, <4>1
      <4>4. MergePlanned(on, j) /\ \A n \in DOMAIN plan' : IsMerge(plan'[n], j) => n = m
        BY <2>3, <2>4, <4>2
      <4>5. MergePlanned(on, j)'
        BY <1>4, <4>3, <4>4 DEF MergePlanned, Earned, Alike, SameMail, Quiet, AwaitsHandoff
      <4>. QED
        BY <4>4, <4>5
    <3>. QED
      BY <3>1, <3>2
  <2>. QED
    BY <1>13, <2>1, <2>2, <2>4 DEF PlanOK
<1>. QED
  BY <1>10, <1>11, <1>14, <1>15

---------------------------------------------------------------------------
(* Promotion, launches and the one merge that is kept *)

\* A queued item becomes ready, on one base or another, or stays as it is.
LEMMA PromotedFits ==
  ASSUME NEW on \in BOOLEAN, ItemsFit(on), NEW j \in Items
  PROVE  /\ Fit(Earned(on, j), WasLaunching(j), Promoted(item)[j])
         /\ item[j].state # "queued" => Promoted(item)[j] = item[j]
         /\ item[j].state = "queued" => Promoted(item)[j].state \in {"queued", "ready"}
<1>. PICK it : it = item[j]
  OBVIOUS
<1>. PICK x : x = Moved(it, "ready")
  OBVIOUS
<1>. PICK d : d = CHOOSE b \in StackBases(item, j) : TRUE
  OBVIOUS
<1>. PICK p : p = Promoted(item)[j]
  OBVIOUS
<1>1. \/ p = it
      \/ it.state = "queued" /\ p = x
      \/ it.state = "queued" /\ StackBases(item, j) # {} /\ p = WithBase(x, d)
  BY DEF Promoted, WithBase
<1>2. /\ Earned(on, j) \in BOOLEAN /\ WasLaunching(j) \in BOOLEAN
      /\ Fit(Earned(on, j), WasLaunching(j), it)
  BY FitNow
<1>3. Fit(Earned(on, j), WasLaunching(j), x)
  BY <1>2, MovedFits DEF States
<1>4. it.state = "queued" => x.state = "ready"
  BY <1>2 DEF Moved, Successors, Fit, Shape, Fields
<1>5. StackBases(item, j) # {} => d \in Items
  <2>1. StackBases(item, j) \subseteq Items
    BY ExecutorAssumption DEF StackBases
  <2>. QED
    BY <2>1
<1>6. StackBases(item, j) # {} => /\ Fit(Earned(on, j), WasLaunching(j), WithBase(x, d))
                                  /\ WithBase(x, d).state = x.state
  <2>1. WithBase(x, d).state = x.state
    BY <1>3 DEF WithBase, Fit, Shape, Fields
  <2>. QED
    BY <1>2, <1>3, <1>5, <2>1, FieldsSteady
<1>7. p.state \in {"queued", "ready"} \/ it.state # "queued"
  BY <1>1, <1>4, <1>6
<1>. QED
  BY <1>1, <1>2, <1>3, <1>6, <1>7

\* A ready item that is launched.
LEMMA LaunchedFits ==
  ASSUME NEW G \in BOOLEAN, NEW it, Fit(G, TRUE, it), it.state = "ready"
  PROVE  Fit(G, TRUE, Moved(it, "launching")) /\ Moved(it, "launching").state = "launching"
<1>. PICK x : x = Moved(it, "launching")
  OBVIOUS
<1>1. Shape(x)
  BY Zenon DEF Moved, Shape, Fit
<1>2. "launching" \in Successors(it.state)
  BY DEF Successors
<1>3. Typed(x)
  BY <1>2, ZeroCommit DEF Moved, Fit, Typed, Shape, Fields, States
<1>4. /\ x.retries = it.retries /\ x.round = it.round /\ x.mergeFails = it.mergeFails
      /\ x.rebaseAttempts = it.rebaseAttempts /\ x.lastApproved = it.lastApproved
      /\ x.state = "launching" /\ x.illegal = it.illegal
  BY <1>2 DEF Moved, Fit, Shape, Fields
<1>5. x.reviewed => it.reviewed
  BY <1>2 DEF Moved, Fit, Typed, Shape, Fields
<1>. QED
  BY <1>1, <1>3, <1>4, <1>5 DEF Fit

\* The records as Schedule leaves them, before they are stamped.
LaunchedFrom(going) ==
  [j \in Items |-> IF j \in going THEN Moved(Promoted(item)[j], "launching") ELSE Promoted(item)[j]]
ScheduledFrom(going, late) ==
  [j \in Items |-> IF j \in late THEN Moved(LaunchedFrom(going)[j], "ci-passed") ELSE LaunchedFrom(going)[j]]

\* What is launched was ready, and what is put off was to merge.
Goes(going)  == \A j \in going : j \in Items /\ Promoted(item)[j].state = "ready"
PutOff(late) == \A j \in late : j \in Items /\ item[j].state = "merging"

\* What becomes of one record: it fits, a merge kept leaves it alone, and where it stands.
Scheduling(on, going, late, j, x) ==
  /\ Fit(Earned(on, j), TRUE, x)
  /\ item[j].state = "merging" /\ j \notin late => x = item[j]
  /\ x.state = IF j \in going THEN "launching"
               ELSE IF j \in late THEN "ci-passed" ELSE Promoted(item)[j].state

\* The records of a pass fit, and a merge that is not put off leaves its item's record alone.
LEMMA ScheduledFits ==
  ASSUME NEW on \in BOOLEAN, ItemsFit(on), NEW going, Goes(going), NEW late, PutOff(late),
         NEW j \in Items
  PROVE  Scheduling(on, going, late, j, ScheduledFrom(going, late)[j])
<1>. USE DEF Goes, PutOff, Scheduling
<1>. PICK p : p = Promoted(item)[j]
  OBVIOUS
<1>. PICK l : l = LaunchedFrom(going)[j]
  OBVIOUS
<1>. PICK x : x = ScheduledFrom(going, late)[j]
  OBVIOUS
<1>0. Earned(on, j) \in BOOLEAN /\ WasLaunching(j) \in BOOLEAN
  BY FitNow
<1>1. /\ Fit(Earned(on, j), WasLaunching(j), p)
      /\ item[j].state # "queued" => p = item[j]
      /\ item[j].state = "queued" => p.state \in {"queued", "ready"}
  BY PromotedFits
<1>2. Fit(Earned(on, j), TRUE, p)
  BY <1>0, <1>1, FitWeaker
<1>3. l = IF j \in going THEN Moved(p, "launching") ELSE p
  BY DEF LaunchedFrom
<1>4. x = IF j \in late THEN Moved(l, "ci-passed") ELSE l
  BY DEF ScheduledFrom
<1>5. ~(j \in late /\ j \in going)
  <2>1. ASSUME j \in late, j \in going
        PROVE  FALSE
    <3>1. item[j].state = "merging" /\ p.state = "ready"
      BY <2>1
    <3>. QED
      BY <1>1, <3>1
  <2>. QED
    BY <2>1
<1>6. CASE j \in going
  <2>1. p.state = "ready" /\ x = Moved(p, "launching") /\ item[j].state # "merging"
    BY <1>1, <1>3, <1>4, <1>5, <1>6
  <2>. QED
    BY <1>0, <1>2, <1>6, <2>1, LaunchedFits
<1>7. CASE j \in late
  <2>1. item[j].state = "merging" /\ p = item[j] /\ x = Moved(p, "ci-passed")
    BY <1>1, <1>3, <1>4, <1>5, <1>7
  <2>2. Fit(Earned(on, j), TRUE, x)
    BY <1>0, <1>2, <2>1, MovedFits DEF States
  <2>3. x.state = "ci-passed"
    BY <1>2, <2>1 DEF Moved, Successors, Fit, Shape, Fields
  <2>. QED
    BY <1>5, <1>7, <2>2, <2>3
<1>8. CASE j \notin going /\ j \notin late
  BY <1>1, <1>2, <1>3, <1>4, <1>8
<1>. QED
  BY <1>6, <1>7, <1>8

\* The launches of one pass, each on the base its item's record names.
BasesKnown(records) == \A j \in Items : records[j].base \in Items \cup {NoItem}
LaunchesOf(starting, records) ==
  [n \in DOMAIN starting |-> [Action("launch", starting[n]) EXCEPT !.base = records[starting[n]].base]]
OnlyLaunches(launches) == \A n \in DOMAIN launches : launches[n].type = "launch"

\* The launches of a pass are actions, and launch.
LEMMA LaunchesPlanned ==
  ASSUME NEW starting \in Seq(Items), NEW records, BasesKnown(records)
  PROVE  /\ LaunchesOf(starting, records) \in Seq(Actions)
         /\ OnlyLaunches(LaunchesOf(starting, records))
<1>. USE DEF BasesKnown
<1>0. PICK launches : launches = LaunchesOf(starting, records)
  OBVIOUS
<1>1. DOMAIN starting = 1 .. Len(starting) /\ Len(starting) \in Nat
      /\ \A n \in DOMAIN starting : starting[n] \in Items
  BY LenProperties
<1>2. ASSUME NEW n \in DOMAIN starting
      PROVE  launches[n] \in Actions /\ launches[n].type = "launch"
  <2>1. launches[n] = [Action("launch", starting[n]) EXCEPT !.base = records[starting[n]].base]
    BY <1>0 DEF LaunchesOf
  <2>. QED
    BY <1>1, <2>1 DEF Action, Actions
<1>3. launches \in [1 .. Len(starting) -> Actions]
  BY <1>0, <1>1, <1>2 DEF LaunchesOf
<1>4. OnlyLaunches(launches)
  BY <1>0, <1>2 DEF LaunchesOf, OnlyLaunches
<1>. QED
  BY <1>0, <1>1, <1>3, <1>4, IsSequence

\* What is left of the actions asked for when the merges put off are dropped, and in which order.
Remaining(asked, late) ==
  {a \in {asked[n] : n \in DOMAIN asked} : ~(a.type = "merge" /\ a.item \in late)}
InQueue(acts) == {a \in acts : Queued(a)}
Reordered(asked, late) ==
  Filtered(asked, Remaining(asked, late) \ InQueue(Remaining(asked, late)))
    \o Filtered(asked, InQueue(Remaining(asked, late)))

\* A sequence over what two sets share.
LEMMA SharedElements ==
  ASSUME NEW S, NEW T, NEW s \in Seq(S \cap T)
  PROVE  /\ Len(s) \in Nat /\ DOMAIN s = 1 .. Len(s) /\ s \in Seq(S)
         /\ \A k \in DOMAIN s : s[k] \in S /\ s[k] \in T
<1>1. Len(s) \in Nat /\ DOMAIN s = 1 .. Len(s) /\ s \in [1 .. Len(s) -> S \cap T]
  BY LenProperties
<1>2. s \in [1 .. Len(s) -> S]
  BY <1>1
<1>. QED
  BY <1>1, <1>2, IsSequence

\* Two merges of one plan are one merge, and it is planned on the item's record.
MergesPlanned(on) ==
  \A i \in Items, m \in DOMAIN plan :
     IsMerge(plan[m], i) => /\ MergePlanned(on, i)
                            /\ \A n \in DOMAIN plan : IsMerge(plan[n], i) => n = m

\* Of the merges asked for, those that are not put off are executed: each comes from the plan,
\* and from one place of it.
LEMMA MergesKept ==
  ASSUME NEW on \in BOOLEAN, plan \in Seq(Actions), MergesPlanned(on),
         NEW launches \in Seq(Actions), OnlyLaunches(launches),
         NEW late, NEW next, next = Reordered(plan \o launches, late)
  PROVE  /\ next \in Seq(Actions)
         /\ \A i \in Items, m \in DOMAIN next : IsMerge(next[m], i) =>
              /\ i \notin late /\ \E n \in DOMAIN plan : IsMerge(plan[n], i)
              /\ \A n \in DOMAIN next : IsMerge(next[n], i) => n = m
<1>0. PICK asked : asked = plan \o launches
  OBVIOUS
<1>1. /\ asked \in Seq(Actions) /\ Len(asked) = Len(plan) + Len(launches)
      /\ \A m \in 1 .. Len(plan) + Len(launches) :
            asked[m] = IF m <= Len(plan) THEN plan[m] ELSE launches[m - Len(plan)]
  BY <1>0, ConcatProperties
<1>2. /\ Len(plan) \in Nat /\ Len(launches) \in Nat /\ DOMAIN plan = 1 .. Len(plan)
      /\ DOMAIN launches = 1 .. Len(launches) /\ DOMAIN asked = 1 .. Len(asked)
  BY <1>1, LenProperties
<1>3. ASSUME NEW i \in Items, NEW n \in DOMAIN asked, IsMerge(asked[n], i)
      PROVE  n \in DOMAIN plan /\ IsMerge(plan[n], i)
  <2>1. ~(n <= Len(plan)) => n - Len(plan) \in DOMAIN launches
    BY <1>1, <1>2
  <2>. QED
    BY <1>1, <1>2, <1>3, <2>1 DEF IsMerge, OnlyLaunches
<1>. PICK kept : kept = Remaining(asked, late)
  OBVIOUS
<1>. PICK later : later = InQueue(kept)
  OBVIOUS
<1>. PICK rest : rest = kept \ later
  OBVIOUS
<1>4. PICK first : first = Filtered(asked, rest)
  OBVIOUS
<1>5. PICK second : second = Filtered(asked, later)
  OBVIOUS
<1>6. first \in Seq(Actions \cap rest)
  BY <1>1, <1>4, FilteredPlaces, Zenon
<1>7. second \in Seq(Actions \cap later) /\ TakenFrom(second, asked)
  BY <1>1, <1>5, FilteredPlaces
<1>8. PICK f \in [DOMAIN second -> DOMAIN asked] :
        /\ \A k \in DOMAIN second : second[k] = asked[f[k]]
        /\ \A k, l \in DOMAIN second : f[k] = f[l] => k = l
  BY <1>7 DEF TakenFrom
<1>9. /\ Len(first) \in Nat /\ DOMAIN first = 1 .. Len(first)
      /\ \A k \in DOMAIN first : first[k] \in Actions /\ first[k] \in kept /\ first[k] \notin later
      /\ Len(second) \in Nat /\ DOMAIN second = 1 .. Len(second)
      /\ \A k \in DOMAIN second : second[k] \in Actions /\ second[k] \in later
  <2>1. /\ Len(first) \in Nat /\ DOMAIN first = 1 .. Len(first)
        /\ \A k \in DOMAIN first : first[k] \in Actions /\ first[k] \in rest
    BY <1>6, SharedElements
  <2>2. /\ Len(second) \in Nat /\ DOMAIN second = 1 .. Len(second)
        /\ \A k \in DOMAIN second : second[k] \in Actions /\ second[k] \in later
    BY <1>7, SharedElements, Zenon
  <2>. QED
    BY <2>1, <2>2
<1>10. first \in Seq(Actions) /\ second \in Seq(Actions)
  BY <1>6, <1>7, SharedElements, Zenon
<1>11. /\ next \in Seq(Actions) /\ Len(next) = Len(first) + Len(second)
       /\ \A m \in 1 .. Len(first) + Len(second) :
             next[m] = IF m <= Len(first) THEN first[m] ELSE second[m - Len(first)]
  <2>1. next = first \o second
    BY <1>0, <1>4, <1>5 DEF Reordered
  <2>. QED
    BY <1>10, <2>1, ConcatProperties
<1>12. DOMAIN next = 1 .. Len(next)
  BY <1>11, LenProperties
<1>13. ASSUME NEW i \in Items, NEW m \in DOMAIN next, IsMerge(next[m], i)
       PROVE  \E k \in DOMAIN second :
                m = Len(first) + k /\ IsMerge(second[k], i) /\ IsMerge(asked[f[k]], i)
                /\ i \notin late
  <2>1. \A a \in kept : IsMerge(a, i) => a \in later /\ i \notin late
    BY DEF IsMerge, Queued, InQueue, Remaining
  <2>2. ~(m <= Len(first))
    BY <1>9, <1>11, <1>12, <1>13, <2>1
  <2>. PICK k : k = m - Len(first)
    OBVIOUS
  <2>3. k \in DOMAIN second /\ m = Len(first) + k
    BY <1>9, <1>11, <1>12, <2>2
  <2>4. next[m] = second[k]
    BY <1>9, <1>11, <1>12, <2>2
  <2>5. second[k] \in kept
    BY <1>9, <2>3 DEF InQueue
  <2>6. IsMerge(second[k], i) /\ second[k] = asked[f[k]]
    BY <1>8, <1>13, <2>3, <2>4
  <2>7. IsMerge(asked[f[k]], i)
    BY <2>6
  <2>8. i \notin late
    BY <2>1, <2>5, <2>6
  <2>. QED
    BY <2>3, <2>6, <2>7, <2>8
<1>14. ASSUME NEW i \in Items, NEW m \in DOMAIN next, IsMerge(next[m], i)
       PROVE  /\ i \notin late /\ \E n \in DOMAIN plan : IsMerge(plan[n], i)
              /\ \A n \in DOMAIN next : IsMerge(next[n], i) => n = m
  <2>1. PICK k \in DOMAIN second :
          m = Len(first) + k /\ IsMerge(second[k], i) /\ IsMerge(asked[f[k]], i) /\ i \notin late
    BY <1>13, <1>14
  <2>2. f[k] \in DOMAIN plan /\ IsMerge(plan[f[k]], i)
    BY <1>3, <1>8, <2>1
  <2>3. ASSUME NEW n \in DOMAIN next, IsMerge(next[n], i)
        PROVE  n = m
    <3>1. PICK l \in DOMAIN second :
            n = Len(first) + l /\ IsMerge(second[l], i) /\ IsMerge(asked[f[l]], i) /\ i \notin late
      BY <1>13, <2>3
    <3>2. f[l] \in DOMAIN plan /\ IsMerge(plan[f[l]], i)
      BY <1>3, <1>8, <3>1
    <3>3. f[l] = f[k]
      BY <2>2, <3>2 DEF MergesPlanned
    <3>4. l = k
      BY <1>8, <3>3
    <3>. QED
      BY <2>1, <3>1, <3>4
  <2>. QED
    BY <2>1, <2>2, <2>3
<1>. QED
  BY <1>11, <1>14

\* Of the items of S, those with fewer than N others of S before them are N at most.
LEMMA FirstFew ==
  ASSUME NEW S \in SUBSET Items, NEW N \in Nat, NEW going \in SUBSET S,
         \A i \in going : Cardinality({j \in S : Position(j) < Position(i)}) < N
  PROVE  Cardinality(going) <= N
<1>. PICK C : C = Cardinality(Items)
  OBVIOUS
<1>1. IsFiniteSet(Items) /\ C \in Nat
  BY ItemsAssumption, FS_CardinalityType
<1>2. \A i \in Items : Position(i) \in 1 .. C /\ Order[Position(i)] = i
  <2>1. DOMAIN Order = 1 .. C
    BY OrchestratorAssumption
  <2>. QED
    BY <2>1, OrderLists
<1>3. IsFiniteSet(S) /\ IsFiniteSet(going) /\ Cardinality(going) \in Nat
  BY <1>1, FS_Subset, FS_CardinalityType
<1>4. CASE going = {}
  BY <1>4, FS_EmptySet
<1>5. CASE going # {}
  <2>. PICK P : P = {C - Position(j) : j \in going}
    OBVIOUS
  <2>1. P \in SUBSET Nat /\ P # {}
    BY <1>1, <1>2, <1>5
  <2>2. PICK n \in P : \A m \in P : n <= m
    BY <2>1, LeastOfSome
  <2>3. PICK i \in going : n = C - Position(i)
    BY <2>2
  <2>4. \A j \in going : Position(j) <= Position(i)
    <3>1. ASSUME NEW j \in going
          PROVE  Position(j) <= Position(i)
      <4>1. C - Position(i) <= C - Position(j)
        BY <2>2, <2>3
      <4>2. Position(i) \in Int /\ Position(j) \in Int
        BY <1>2
      <4>. QED
        BY <1>1, <4>1, <4>2
    <3>. QED
      BY <3>1
  <2>. PICK before : before = {j \in S : Position(j) < Position(i)}
    OBVIOUS
  <2>5. going \ {i} \in SUBSET before
    <3>1. ASSUME NEW j \in going \ {i}
          PROVE  Position(j) < Position(i)
      <4>1. Position(j) # Position(i)
        BY <1>2
      <4>2. Position(i) \in Int /\ Position(j) \in Int
        BY <1>2
      <4>. QED
        BY <2>4, <4>1, <4>2
    <3>. QED
      BY <3>1
  <2>6. IsFiniteSet(before) /\ Cardinality(before) \in Nat /\ Cardinality(before) < N
    BY <1>3, FS_Subset, FS_CardinalityType
  <2>7. Cardinality(going \ {i}) <= Cardinality(before)
    BY <2>5, <2>6, FS_Subset
  <2>8. Cardinality(going \ {i}) = Cardinality(going) - 1
    BY <1>3, FS_RemoveElement
  <2>. QED
    BY <1>3, <2>6, <2>7, <2>8
<1>. QED
  BY <1>4, <1>5

\* Where the items stand after a pass.
Standing(going, late) ==
  /\ item' = [j \in Items |-> item'[j]]
  /\ \A j \in Items : item'[j].state = IF j \in going THEN "launching"
                                      ELSE IF j \in late THEN "ci-passed" ELSE Promoted(item)[j].state

\* A launch never brings more items in flight than the limit.
RoomForLaunch ==
  (\E i \in Items : item[i].state # "launching" /\ item'[i].state = "launching")
    => Cardinality(ActiveItems(item')) <= config.limit

\* The items launched by a pass fit in the slots it counted.
LEMMA LaunchesFit ==
  ASSUME NEW on \in BOOLEAN, ItemsFit(on), ConfigOK, NEW going, going = Launchable(Promoted(item)),
         NEW late, PutOff(late), Standing(going, late)
  PROVE  RoomForLaunch
<1>. PICK promoted : promoted = Promoted(item)
  OBVIOUS
<1>. PICK active : active = ActiveItems(promoted)
  OBVIOUS
<1>. PICK used : used = Cardinality(active)
  OBVIOUS
<1>. PICK N : N = FreeSlots(promoted)
  OBVIOUS
<1>. PICK ready : ready = {j \in Items : promoted[j].state = "ready"}
  OBVIOUS
<1>1. /\ DOMAIN promoted = Items /\ DOMAIN item' = Items
      /\ \A j \in Items : item[j].state # "queued" => promoted[j] = item[j]
      /\ \A j \in Items : item[j].state = "queued" => promoted[j].state \in {"queued", "ready"}
  BY PromotedFits DEF Promoted, Standing
<1>2. active \in SUBSET Items /\ IsFiniteSet(active) /\ used \in Nat
  BY <1>1, ItemsAssumption, FS_Subset, FS_CardinalityType DEF ActiveItems
<1>3. config.limit \in Nat
  BY OrchestratorAssumption DEF ConfigOK
<1>4. /\ going \in SUBSET ready /\ ready \in SUBSET Items
      /\ \A i \in going : Cardinality({j \in ready : Position(j) < Position(i)}) < N
  BY DEF Launchable
<1>5. N = IF used < config.limit THEN config.limit - used ELSE 0
  BY DEF FreeSlots
<1>6. N \in Nat
  BY <1>2, <1>3, <1>5
<1>7. Cardinality(going) <= N
  BY <1>4, <1>6, FirstFew
<1>8. IsFiniteSet(going) /\ Cardinality(going) \in Nat
  BY <1>4, ItemsAssumption, FS_Subset, FS_CardinalityType
<1>9. ActiveItems(item') \subseteq active \cup going
  <2>1. ASSUME NEW j \in Items, item'[j].state \in ActiveStates, j \notin going
        PROVE  promoted[j].state \in ActiveStates
    <3>1. CASE j \in late
      <4>1. item[j].state = "merging" /\ promoted[j] = item[j]
        BY <1>1, <3>1 DEF PutOff
      <4>. QED
        BY <4>1 DEF ActiveStates
    <3>2. CASE j \notin late
      BY <2>1, <3>2 DEF Standing
    <3>. QED
      BY <3>1, <3>2
  <2>. QED
    BY <1>1, <2>1 DEF ActiveItems
<1>10. ASSUME NEW i \in Items, item[i].state # "launching", item'[i].state = "launching"
       PROVE  used < config.limit
  <2>1. i \in going
    <3>1. CASE i \in late
      BY <1>10, <3>1 DEF Standing
    <3>2. CASE i \notin late /\ i \notin going
      BY <1>1, <1>10, <3>2 DEF Standing
    <3>. QED
      BY <3>1, <3>2
  <2>2. {j \in ready : Position(j) < Position(i)} \in SUBSET Items
    BY <1>4
  <2>3. Cardinality({j \in ready : Position(j) < Position(i)}) \in Nat
    BY <2>2, ItemsAssumption, FS_Subset, FS_CardinalityType
  <2>4. Cardinality({j \in ready : Position(j) < Position(i)}) < N
    BY <1>4, <2>1
  <2>. QED
    BY <1>2, <1>3, <1>5, <1>6, <2>3, <2>4
<1>11. /\ IsFiniteSet(active \cup going) /\ Cardinality(active \cup going) \in Nat
       /\ Cardinality(active \cup going) <= used + Cardinality(going)
  <2>1. /\ IsFiniteSet(active \cup going) /\ IsFiniteSet(active \cap going)
        /\ Cardinality(active \cup going) = used + Cardinality(going) - Cardinality(active \cap going)
    BY <1>2, <1>8, FS_Union, FS_Intersection
  <2>2. Cardinality(active \cap going) \in Nat /\ Cardinality(active \cup going) \in Nat
    BY <2>1, FS_CardinalityType
  <2>. QED
    BY <1>2, <1>8, <2>1, <2>2
<1>12. /\ Cardinality(ActiveItems(item')) <= Cardinality(active \cup going)
       /\ Cardinality(ActiveItems(item')) \in Nat
  <2>1. ActiveItems(item') \in SUBSET (active \cup going)
    BY <1>9
  <2>. QED
    BY <1>11, <2>1, FS_Subset, FS_CardinalityType
<1>13. ASSUME used < config.limit
       PROVE  Cardinality(ActiveItems(item')) <= config.limit
  BY <1>2, <1>3, <1>5, <1>7, <1>8, <1>11, <1>12, <1>13
<1>. QED
  BY <1>10, <1>13 DEF RoomForLaunch

\* A pass ends: promotion, launches, and the merges but the first put off.
LEMMA SchedulePreserves ==
  ASSUME NEW on \in BOOLEAN, Inv(on), Schedule
  PROVE  Inv(on)' /\ RoomForLaunch
<1>. USE DEF Inv
<1>. DEFINE promoted == Promoted(item)
            going    == Launchable(promoted)
            launched == [i \in Items |-> IF i \in going THEN Moved(promoted[i], "launching") ELSE promoted[i]]
            starting == Filtered(Order, going)
            launches == [n \in DOMAIN starting |->
                           [Action("launch", starting[n]) EXCEPT !.base = launched[starting[n]].base]]
            late     == Deferred(launched)
            records  == [i \in Items |-> IF i \in late THEN Moved(launched[i], "ci-passed") ELSE launched[i]]
            asked    == plan \o launches
            kept     == {a \in {asked[n] : n \in DOMAIN asked} : ~(a.type = "merge" /\ a.item \in late)}
            later    == {a \in kept : Queued(a)}
<1>1. /\ phase = "schedule" /\ Commit(records)
      /\ plan' = Filtered(asked, kept \ later) \o Filtered(asked, later)
      /\ phase' = IF Threw(records) THEN "crashed" ELSE IF plan' = <<>> THEN "idle" ELSE "act"
      /\ snaps' = [i \in Items |-> NoSnapshot] /\ readyIds' = {}
      /\ UNCHANGED <<config, todo, quiet, world>>
  BY Zenon DEF Schedule
<1>2. plan' = Reordered(plan \o launches, late)
  <2>1. kept = Remaining(asked, late) /\ later = InQueue(kept)
    BY Zenon DEF Remaining, InQueue
  <2>. QED
    BY <1>1, <2>1, Zenon DEF Reordered
<1>3. launches = LaunchesOf(starting, launched)
  BY Zenon DEF LaunchesOf
<1>4. launched = LaunchedFrom(going)
  BY Zenon DEF LaunchedFrom
<1>5. records = ScheduledFrom(going, late)
  BY <1>4, Zenon DEF ScheduledFrom
<1>6. Goes(going)
  BY DEF Launchable, Goes
<1>7. late \subseteq Merging(plan) /\ going = Launchable(Promoted(item))
  BY DEF Deferred
<1>. HIDE DEF promoted, going, launched, starting, launches, late, records, asked, kept, later
<1>12. plan \in Seq(Actions) /\ MergesPlanned(on) /\ \A i \in Items : ~item[i].illegal
  BY <1>1 DEF PlanOK, MergesPlanned
<1>13. \A n \in DOMAIN plan : plan[n] \in Actions /\ plan[n].item \in Items
  <2>1. \A n \in DOMAIN plan : plan[n] \in Actions
    BY <1>12, LenProperties
  <2>. QED
    BY <2>1 DEF Actions
<1>14. PutOff(late)
  <2>1. ASSUME NEW j \in late
        PROVE  j \in Items /\ item[j].state = "merging"
    <3>1. PICK n \in DOMAIN plan : plan[n].type = "merge" /\ plan[n].item = j
      BY <1>7 DEF Merging
    <3>2. j \in Items /\ IsMerge(plan[n], j)
      BY <1>13, <3>1 DEF IsMerge
    <3>3. MergePlanned(on, j)
      BY <1>12, <3>2 DEF MergesPlanned
    <3>. QED
      BY <1>1, <3>2, <3>3 DEF MergePlanned
  <2>. QED
    BY <2>1 DEF PutOff
<1>15. ASSUME NEW j \in Items
       PROVE  /\ Fit(Earned(on, j), TRUE, records[j])
              /\ item[j].state = "merging" /\ j \notin late => records[j] = item[j]
              /\ records[j].state = IF j \in going THEN "launching"
                                    ELSE IF j \in late THEN "ci-passed" ELSE Promoted(item)[j].state
  <2>1. Scheduling(on, going, late, j, ScheduledFrom(going, late)[j])
    BY <1>6, <1>14, ScheduledFits
  <2>2. Scheduling(on, going, late, j, records[j])
    BY <1>5, <2>1, Zenon
  <2>. QED
    BY <2>2 DEF Scheduling
<1>16. ASSUME NEW j \in Items
       PROVE  /\ item' = [k \in Items |-> item'[k]]
              /\ Fit(Earned(on, j), TRUE, item'[j]) /\ Alike(records[j], item'[j])
  <2>1. Earned(on, j) \in BOOLEAN
    BY FitNow
  <2>. QED
    BY <1>1, <1>15, <2>1, CommitFits, WorldTyped
<1>17. UNCHANGED judged /\ Approvals
  BY <1>1 DEF Approvals, world
<1>18. ItemsFit(on)'
  <2>1. item' = [k \in Items |-> item'[k]]
    BY <1>16, ItemsAssumption
  <2>. QED
    BY <1>16, <1>17, <2>1, FitsAfter
<1>19. SeenOK(on)' /\ ConfigOK' /\ WorldOK'
  BY <1>1, <1>17, NothingSeen DEF ConfigOK, WorldOK, WorldTypeOK, world
<1>20. TodoOK' /\ phase' \in {"crashed", "idle", "act"}
  BY <1>1 DEF TodoOK, Phases
<1>21. launches \in Seq(Actions) /\ OnlyLaunches(launches)
  <2>1. starting \in Seq(Items \cap going)
    BY OrderLists, FilteredPlaces, Zenon DEF starting
  <2>2. starting \in Seq(Items)
    BY <2>1, SharedElements, Zenon
  <2>3. ASSUME NEW j \in Items
        PROVE  launched[j].base \in Items \cup {NoItem}
    <3>1. launched[j] = ScheduledFrom(going, {})[j]
      BY <1>4 DEF ScheduledFrom, LaunchedFrom
    <3>2. Fit(Earned(on, j), TRUE, launched[j])
      <4>1. PutOff({})
        BY DEF PutOff
      <4>2. Fit(Earned(on, j), TRUE, ScheduledFrom(going, {})[j])
        BY <1>6, <4>1, ScheduledFits DEF Scheduling
      <4>. QED
        BY <3>1, <4>2, Zenon
    <3>. QED
      BY <3>2 DEF Fit, Typed
  <2>4. BasesKnown(launched)
    BY <2>3 DEF BasesKnown
  <2>. QED
    BY <1>3, <2>2, <2>4, LaunchesPlanned
<1>22. /\ plan' \in Seq(Actions)
       /\ \A i \in Items, m \in DOMAIN plan' : IsMerge(plan'[m], i) =>
            /\ i \notin late /\ \E n \in DOMAIN plan : IsMerge(plan[n], i)
            /\ \A n \in DOMAIN plan' : IsMerge(plan'[n], i) => n = m
  BY <1>2, <1>12, <1>21, MergesKept
<1>23. PlanOK(on)'
  <2>1. /\ phase' = "idle" => plan' = <<>>
        /\ phase' = "act" => plan' # <<>>
    BY <1>1
  <2>2. phase' # "crashed" => \A j \in Items : ~item'[j].illegal
    BY <1>1, <1>16 DEF Threw, Alike
  <2>3. ASSUME phase' # "crashed", NEW i \in Items, NEW m \in DOMAIN plan', IsMerge(plan'[m], i)
        PROVE  MergePlanned(on, i)' /\ \A n \in DOMAIN plan' : IsMerge(plan'[n], i) => n = m
    <3>1. i \notin late /\ MergePlanned(on, i)
      BY <1>12, <1>22, <2>3 DEF MergesPlanned
    <3>2. records[i] = item[i]
      BY <1>1, <1>15, <3>1 DEF MergePlanned
    <3>3. Alike(item[i], item'[i])
      BY <1>16, <3>2
    <3>4. MergePlanned(on, i)'
      BY <1>17, <1>20, <3>1, <3>3 DEF MergePlanned, Earned, Alike, SameMail, Quiet, AwaitsHandoff
    <3>. QED
      BY <1>22, <2>3, <3>4
  <2>. QED
    BY <1>20, <1>22, <2>1, <2>2, <2>3 DEF PlanOK
<1>24. RoomForLaunch
  <2>1. Standing(going, late)
    <3>1. \A j \in Items : item'[j].state = records[j].state
      BY <1>16 DEF Alike
    <3>2. item' = [k \in Items |-> item'[k]]
      BY <1>16, ItemsAssumption
    <3>. QED
      BY <1>15, <3>1, <3>2 DEF Standing
  <2>. QED
    BY <1>7, <1>14, <2>1, LaunchesFit
<1>. QED
  BY <1>18, <1>19, <1>20, <1>23, <1>24

---------------------------------------------------------------------------
(* What the loop lands *)

\* What the loop lands was planned as a merge: it is earned, and nobody waits for an answer.
LEMMA LandsWhatIsPlanned ==
  ASSUME NEW on \in BOOLEAN, Inv(on), Next, NEW i \in Items, LoopMerges(i)
  PROVE  Earned(on, i) /\ Quiet(item[i])
<1>. USE DEF Inv
<1>1. plan' # plan /\ gh' # gh
  BY DEF LoopMerges
<1>2. Act
  <2>1. ~StartCycle /\ ~Poll /\ ~Reevaluate /\ ~Schedule
    BY <1>1 DEF StartCycle, Poll, Reevaluate, Schedule, world
  <2>2. ~Operator
    BY <1>1 DEF Operator, SetMergeStrategy, SetSkipReview, ToggleAcceptingWork, SetMaxInflight
  <2>3. ASSUME NEW j \in Items, BatchComesDue(j) \/ World(j)
        PROVE  FALSE
    BY <1>1, <2>3 DEF BatchComesDue, World, control
  <2>. QED
    BY <2>1, <2>2, <2>3 DEF Next, Cycle
<1>. PICK a : a = Head(plan)
  OBVIOUS
<1>3. phase = "act" /\ Execute(a) /\ plan \in Seq(Actions) /\ plan # <<>>
  BY <1>2 DEF Act, PlanOK
<1>4. a \in Actions /\ a = plan[1] /\ 1 \in DOMAIN plan
  BY <1>3
<1>5. IsMerge(a, i)
  <2>1. gh[i].pr # "merged" /\ gh'[i].pr = "merged" /\ WorldTypeOK
    BY WorldTyped DEF LoopMerges
  <2>2. a.type = "merge"
    BY <1>3, <1>4, <2>1, OthersLandless DEF Landless
  <2>3. ExecuteMerge(a)
    BY <1>3, <2>2 DEF Execute, ExecuteLaunch, ExecuteRetry, ExecuteWorkspaceClose, ExecuteClean,
       ExecuteDaemonRebase, ExecuteNotifyCi, ExecuteSend, ExecutePostReview, ExecuteClearSignal,
       ClearedSignal, SignalNames, ExecuteLaunchReview, ExecuteLaunchForwardFixer, ExecuteCleanHelper
  <2>. QED
    BY <1>4, <2>1, <2>2, <2>3, MergeLandsOwn DEF IsMerge
<1>6. MergePlanned(on, i)
  BY <1>3, <1>4, <1>5 DEF PlanOK
<1>. QED
  BY <1>6 DEF MergePlanned

---------------------------------------------------------------------------
(* The invariant, and the theorems *)

\* The loop starts with no item touched and nothing planned.
LEMMA InitOK ==
  ASSUME NEW on \in BOOLEAN, Init
  PROVE  Inv(on)
<1>2. ASSUME NEW G \in BOOLEAN
      PROVE  Fit(G, TRUE, NewItem)
  <2>1. Shape(NewItem)
    BY DEF Shape, Fields, NewItem
  <2>2. Typed(NewItem)
    BY ZeroCommit DEF Typed, NewItem, States
  <2>. QED
    BY <2>1, <2>2, Limits0 DEF Fit, NewItem
<1>3. ItemsFit(on)
  BY <1>2 DEF Init, ItemsFit, Earned
<1>4. ConfigOK
  <2>1. (CHOOSE n \in Limits : \A m \in Limits : m <= n) \in Limits
    BY OrchestratorAssumption
  <2>. QED
    BY <2>1, OrchestratorAssumption DEF Init, ConfigOK
<1>5. SeenOK(on)
  BY ZeroCommit, HandlersAssumption DEF Init, SeenOK, Legible, NoSnapshot
<1>6. WorldOK
  BY ZeroCommit, FaultsAssumption DEF Init, WorldInit, WorldOK, WorldTypeOK, NoPullRequest
<1>7. TodoOK /\ PlanOK(on)
  BY DEF Init, TodoOK, PlanOK, Phases, Distinct, IsMerge, NewItem
<1>. QED
  BY <1>3, <1>4, <1>5, <1>6, <1>7 DEF Inv

\* A step of the whole program.
LEMMA NextOK ==
  ASSUME NEW on \in BOOLEAN, Inv(on), ReviewsOn(on), ReviewsOn(on)', Next
  PROVE  Inv(on)' /\ RoomForLaunch
<1>1. NoneLaunches => RoomForLaunch
  BY DEF NoneLaunches, RoomForLaunch
<1>2. CASE StartCycle
  BY <1>1, <1>2, StartCyclePreserves
<1>3. CASE Poll
  BY <1>1, <1>3, PollPreserves
<1>4. CASE Reevaluate
  BY <1>1, <1>4, ReevaluatePreserves
<1>5. CASE Schedule
  BY <1>5, SchedulePreserves
<1>6. CASE Act
  BY <1>1, <1>6, ActPreserves
<1>7. CASE Operator
  BY <1>1, <1>7, OperatorPreserves
<1>8. ASSUME NEW i \in Items, BatchComesDue(i)
      PROVE  Inv(on)' /\ RoomForLaunch
  BY <1>1, <1>8, BatchComesDuePreserves
<1>9. ASSUME NEW i \in Items, World(i)
      PROVE  Inv(on)' /\ RoomForLaunch
  BY <1>1, <1>9, WorldPreserves
<1>. QED
  BY <1>2, <1>3, <1>4, <1>5, <1>6, <1>7, <1>8, <1>9 DEF Next, Cycle

\* A step that changes nothing.
LEMMA StutterOK ==
  ASSUME NEW on \in BOOLEAN, Inv(on), UNCHANGED vars
  PROVE  Inv(on)'
<1>. USE DEF vars, control, world, Inv
<1>1. ItemsFit(on)'
  BY DEF ItemsFit, Earned
<1>2. ConfigOK' /\ TodoOK'
  BY DEF ConfigOK, TodoOK
<1>3. SeenOK(on)'
  BY DEF SeenOK, Earned
<1>4. WorldOK'
  BY DEF WorldOK, WorldTypeOK
<1>5. PlanOK(on)'
  BY DEF PlanOK, MergePlanned, Earned
<1>. QED
  BY <1>1, <1>2, <1>3, <1>4, <1>5

\* The invariant holds the types and the budgets.
LEMMA InvTyped == ASSUME NEW on \in BOOLEAN, Inv(on) PROVE TypeOK
<1>. USE DEF Inv
<1>1. item \in [Items -> ItemRecord]
  <2>1. \A i \in Items : item[i] \in ItemRecord
    BY RecordFits DEF ItemsFit, Fit
  <2>. QED
    BY <2>1 DEF ItemsFit
<1>2. \A n \in DOMAIN todo : todo[n] \in Items
  BY LenProperties DEF TodoOK
<1>3. \A n \in DOMAIN plan : plan[n] \in Actions
  BY LenProperties DEF PlanOK
<1>4. \A i \in Items : /\ item[i].retries <= MaxRetries
                       /\ item[i].round <= MaxReviewRounds
                       /\ item[i].mergeFails <= MaxMergeRetries
                       /\ item[i].rebaseAttempts <= MaxRebaseAttempts
  BY DEF ItemsFit, Fit
<1>. QED
  BY <1>1, <1>2, <1>3, <1>4 DEF TypeOK, ConfigOK, TodoOK, SeenOK, WorldOK

\* Whatever the operator does about reviews, the records, the plan and the world stay in order.
LEMMA InvAlways == Spec => []Inv(FALSE)
<1>1. Init => Inv(FALSE)
  BY InitOK
<1>2. Inv(FALSE) /\ [Next]_vars => Inv(FALSE)'
  <2>1. ReviewsOn(FALSE) /\ ReviewsOn(FALSE)'
    BY DEF ReviewsOn
  <2>. QED
    BY <2>1, NextOK, StutterOK
<1>. QED
  BY <1>1, <1>2, PTL DEF Spec

\* While reviews stay on, whatever has been reviewed has an approval on record.
LEMMA InvReviewed == Spec /\ [](~config.skipReview) => []Inv(TRUE)
<1>1. Init => Inv(TRUE)
  BY InitOK
<1>2. Inv(TRUE) /\ ~config.skipReview /\ (~config.skipReview)' /\ [Next]_vars => Inv(TRUE)'
  BY NextOK, StutterOK DEF ReviewsOn
<1>. QED
  BY <1>1, <1>2, PTL DEF Spec

\* The types of the records, of the loop's own state and of the world; and no item ever spends
\* more retries, reviews, merge attempts or rebasers than the configured limits.
THEOREM TypesAndBudgets == Spec => []TypeOK
<1>1. Inv(FALSE) => TypeOK
  BY InvTyped
<1>. QED
  BY <1>1, InvAlways, PTL

\* The loop lands no pull request while a comment it has taken up waits in a batch or for its
\* delivery, however long ago the merge was planned and however often it was tried.
THEOREM NobodyWaitsAtMerge == Spec => FeedbackBeforeMerge
<1>1. Inv(FALSE) /\ [Next]_vars =>
        [\A i \in Items : LoopMerges(i) => item[i].batch = {} /\ ~AwaitsHandoff(item[i])]_vars
  <2>1. ASSUME Inv(FALSE), Next, NEW i \in Items, LoopMerges(i)
        PROVE  item[i].batch = {} /\ ~AwaitsHandoff(item[i])
    BY <2>1, LandsWhatIsPlanned DEF Quiet
  <2>. QED
    BY <2>1
<1>. QED
  BY <1>1, InvAlways, PTL DEF Spec, FeedbackBeforeMerge

\* While reviews stay on, the loop lands only what a reviewer has approved, and nobody waits.
THEOREM MergesAreEarned == Spec /\ [](~config.skipReview) => MergeEarned
<1>1. Inv(TRUE) /\ [Next]_vars =>
        [\A i \in Items : LoopMerges(i) => config.skipReview \/ judged[i] # {}]_vars
  <2>1. ASSUME Inv(TRUE), Next, NEW i \in Items, LoopMerges(i)
        PROVE  judged[i] # {}
    BY <2>1, LandsWhatIsPlanned DEF Earned
  <2>. QED
    BY <2>1
<1>2. Spec /\ [](~config.skipReview) => ReviewedBeforeMerge
  BY <1>1, InvReviewed, PTL DEF Spec, ReviewedBeforeMerge
<1>. QED
  BY <1>2, NobodyWaitsAtMerge, PTL DEF MergeEarned

\* However items are promoted, put off and relaunched, and whatever limit the operator sets, a
\* pass launches no more than the limit of the moment leaves room for.
THEOREM LaunchesWithinLimit == Spec => LaunchWithinLimit
<1>1. Inv(FALSE) /\ [Next]_vars => [RoomForLaunch]_vars
  <2>1. ReviewsOn(FALSE) /\ ReviewsOn(FALSE)'
    BY DEF ReviewsOn
  <2>. QED
    BY <2>1, NextOK
<1>. QED
  BY <1>1, InvAlways, PTL DEF Spec, LaunchWithinLimit, RoomForLaunch

---------------------------------------------------------------------------
(* Who works on an item, and who is about to *)

\* An action of the plan, by its place; and whether there is one.
Is(n, t, i)   == plan[n].type = t /\ plan[n].item = i
Planned(t, i) == \E n \in DOMAIN plan : Is(n, t, i)

\* No session works on the item but the one set aside for its retry, or the one it refers to.
Freed(i)  == live[i] \subseteq {item[i].retryWs}
Backed(i) == live[i] \subseteq {Ref(i)}

\* A session set aside has its retry planned, and until the actions run its item waits.
Retiring(i) ==
  item[i].retryWs # 0 =>
    Planned("retry", i) /\ (phase # "act" => item[i].state \in {"ready", "queued"})

\* A launch is planned while actions run, for an item that is freed and waits for nothing else.
Hiring(i) ==
  Planned("launch", i) =>
    /\ phase = "act" /\ Freed(i) /\ item[i].state \notin {"ready", "queued"}
    /\ ~Planned("notify-ci-failure", i)

\* It is planned once, and behind the retry.
HiresOnce(i) == \A m, n \in DOMAIN plan : Is(m, "launch", i) /\ Is(n, "launch", i) => m = n
RetiresFirst(i) ==
  item[i].retryWs # 0 =>
    \A n \in DOMAIN plan : Is(n, "launch", i) => \E m \in DOMAIN plan : m < n /\ Is(m, "retry", i)

\* Where an item is ready, or has no worktree, nobody works.
Vacant(i) == item[i].state = "ready" \/ ~tree[i] => Freed(i)

\* Word of red CI is planned where CI is red.
Told(i) == Planned("notify-ci-failure", i) /\ phase # "act" => item[i].state = "ci-failed"

\* A queued item whose session was not set aside has been taken back from a stuck item.
Waiting(i) == item[i].state = "queued" => Freed(i) \/ \E d \in Deps[i] : item[d].state = "stuck"
Stacked(i) == item[i].base \in Deps[i] \cup {NoItem}

\* What is promoted at the end of the pass has its dependencies.
ReadyNow(i) == i \in readyIds => phase \notin {"idle", "act"} /\ \A d \in Deps[i] : Satisfied(item[d])

Staffed(i) ==
  /\ Backed(i) /\ Retiring(i) /\ Hiring(i) /\ HiresOnce(i) /\ RetiresFirst(i)
  /\ Vacant(i) /\ Told(i) /\ ParkedRightly(item[i]) /\ Waiting(i) /\ Stacked(i) /\ ReadyNow(i)

Sole(i)  == \A m, n \in live[i] : m = n
Staffing == (\A i \in Items : Sole(i)) /\ (phase # "crashed" => \A i \in Items : Staffed(i))

\* An item that is freed is backed, and has no session if none is set aside.
LEMMA FreedMeans ==
  ASSUME WorldOK, NEW i \in Items, Freed(i)
  PROVE  Backed(i) /\ (item[i].retryWs = 0 => live[i] = {})
<1>1. live[i] \subseteq Sessions /\ 0 \notin Sessions
  BY WorldTyped, BoundsAssumption DEF Sessions
<1>. QED
  BY <1>1 DEF Freed, Backed, Ref

\* The same after a step.
LEMMA FreedNext ==
  ASSUME WorldOK', NEW i \in Items, Freed(i)'
  PROVE  Backed(i)' /\ (item'[i].retryWs = 0 => live'[i] = {}) /\ Sole(i)'
<1>1. live'[i] \subseteq Sessions /\ 0 \notin Sessions
  BY BoundsAssumption DEF WorldOK, WorldTypeOK, Sessions
<1>. QED
  BY <1>1 DEF Freed, Backed, Ref, Sole

\* A record that keeps its session, and the number of its pull request.
SameStation(x, y) ==
  /\ y.state = x.state /\ y.ws = x.ws /\ y.retryWs = x.retryWs /\ y.base = x.base
  /\ y.parked = x.parked /\ y.pr = x.pr

\* Nothing changes for the sessions of the items: at most a session dies.
Idles ==
  /\ UNCHANGED <<tree, plan, phase, readyIds>>
  /\ \A j \in Items : live'[j] \subseteq live[j] /\ SameStation(item[j], item'[j])

\* Then all stay staffed.
LEMMA IdlesStaffs ==
  ASSUME Staffing, Idles
  PROVE  Staffing'
<1>1. ASSUME NEW j \in Items
      PROVE  /\ (Freed(j) => Freed(j)') /\ (Backed(j) => Backed(j)')
             /\ Sole(j) => Sole(j)'
             /\ item'[j].state = item[j].state /\ item'[j].retryWs = item[j].retryWs
             /\ item'[j].base = item[j].base /\ item'[j].parked = item[j].parked
             /\ Satisfied(item[j]) => Satisfied(item'[j])
  BY DEF Idles, SameStation, Freed, Backed, Ref, Sole, Satisfied
<1>2. UNCHANGED <<tree, plan, phase, readyIds>>
  BY DEF Idles
<1>3. \A t, j : Planned(t, j)' <=> Planned(t, j)
  BY <1>2 DEF Planned, Is
<1>4. \A j \in Items : Deps[j] \subseteq Items
  BY ExecutorAssumption
<1>5. ASSUME NEW j \in Items, Staffed(j)
      PROVE  Staffed(j)'
  <2>. USE DEF Staffed
  <2>1. Backed(j)' /\ Retiring(j)' /\ Hiring(j)'
    BY <1>1, <1>2, <1>3, <1>5 DEF Retiring, Hiring
  <2>2. HiresOnce(j)' /\ RetiresFirst(j)'
    BY <1>1, <1>2, <1>5 DEF HiresOnce, RetiresFirst, Is
  <2>3. Vacant(j)' /\ Told(j)' /\ ParkedRightly(item'[j])
    BY <1>1, <1>2, <1>3, <1>5 DEF Vacant, Told, ParkedRightly
  <2>4. Waiting(j)' /\ Stacked(j)' /\ ReadyNow(j)'
    BY <1>1, <1>2, <1>4, <1>5 DEF Waiting, Stacked, ReadyNow
  <2>. QED
    BY <2>1, <2>2, <2>3, <2>4
<1>. QED
  BY <1>1, <1>2, <1>5 DEF Staffing

---------------------------------------------------------------------------
(* The pass over the items keeps them staffed *)

\* What the plan holds after an item has been passed: what it held, and what its handler asks.
PlansFor(i, acts) ==
  /\ \A t, j : Planned(t, j) => Planned(t, j)'
  /\ \A t, j : Planned(t, j)' => Planned(t, j) \/ (j = i /\ Holds(acts, t))
  /\ \A t : Holds(acts, t) => Planned(t, i)'
  /\ ~Holds(acts, "launch")
  /\ acts \in Hushed(i) => ~Holds(acts, "notify-ci-failure")

\* The actions of a handler come after the plan.
LEMMA PlansGrow ==
  ASSUME NEW i \in Items, plan \in Seq(Actions), NEW acts \in Unlaunched(i), plan' = plan \o acts
  PROVE  PlansFor(i, acts)
<1>1. acts \in Seq({a \in Actions : a.item = i /\ a.type # "launch"})
  BY DEF Unlaunched
<1>2. /\ Len(acts) \in Nat /\ DOMAIN acts = 1 .. Len(acts)
      /\ \A k \in DOMAIN acts : acts[k] \in Actions /\ acts[k].item = i /\ acts[k].type # "launch"
  BY <1>1, LenProperties
<1>3. acts \in Seq(Actions)
  BY <1>2, <1>1, LenProperties
<1>4. /\ Len(plan) \in Nat /\ DOMAIN plan = 1 .. Len(plan)
      /\ plan' \in Seq(Actions) /\ Len(plan') = Len(plan) + Len(acts)
      /\ \A m \in 1 .. Len(plan) + Len(acts) :
            plan'[m] = IF m <= Len(plan) THEN plan[m] ELSE acts[m - Len(plan)]
  BY <1>3, ConcatProperties, LenProperties
<1>5. DOMAIN plan' = 1 .. Len(plan) + Len(acts)
  BY <1>4, LenProperties
<1>6. \A m \in DOMAIN plan : m \in DOMAIN plan' /\ plan'[m] = plan[m]
  BY <1>2, <1>4, <1>5
<1>7. \A k \in DOMAIN acts : Len(plan) + k \in DOMAIN plan' /\ plan'[Len(plan) + k] = acts[k]
  BY <1>2, <1>4, <1>5
<1>8. ASSUME NEW m \in DOMAIN plan'
      PROVE  \/ m \in DOMAIN plan /\ plan'[m] = plan[m]
             \/ \E k \in DOMAIN acts : plan'[m] = acts[k]
  <2>1. CASE m <= Len(plan)
    BY <1>2, <1>4, <1>5, <2>1
  <2>2. CASE ~(m <= Len(plan))
    <3>1. m - Len(plan) \in DOMAIN acts /\ plan'[m] = acts[m - Len(plan)]
      BY <1>2, <1>4, <1>5, <2>2
    <3>. QED
      BY <3>1
  <2>. QED
    BY <2>1, <2>2
<1>9. \A t, j : Planned(t, j) => Planned(t, j)'
  BY <1>6 DEF Planned, Is
<1>10. \A t, j : Planned(t, j)' => Planned(t, j) \/ (j = i /\ Holds(acts, t))
  BY <1>2, <1>8 DEF Planned, Is, Holds
<1>11. \A t : Holds(acts, t) => Planned(t, i)'
  BY <1>2, <1>7 DEF Planned, Is, Holds
<1>12. ~Holds(acts, "launch")
  BY <1>2 DEF Holds
<1>13. acts \in Hushed(i) => ~Holds(acts, "notify-ci-failure")
  <2>1. ASSUME acts \in Hushed(i)
        PROVE  \A k \in DOMAIN acts : acts[k].type # "notify-ci-failure"
    BY <1>2, <2>1, LenProperties DEF Hushed
  <2>. QED
    BY <2>1 DEF Holds
<1>. QED
  BY <1>9, <1>10, <1>11, <1>12, <1>13 DEF PlansFor

\* The pass goes on, for the item i.
Passing(i, acts) ==
  /\ phase \in {"poll", "reevaluate"} /\ phase' \in {"poll", "reevaluate", "schedule"}
  /\ UNCHANGED <<live, tree, readyIds>>
  /\ PlansFor(i, acts)

\* What others wait for does not come undone.
NothingUndone ==
  \A d \in Items : /\ item[d].state = "stuck" => item'[d].state = "stuck"
                   /\ Satisfied(item[d]) => Satisfied(item'[d])

\* What is ready to be promoted stays so, and nothing is launched during the pass.
LEMMA PassingOthers ==
  ASSUME NEW i \in Items, NEW acts, Passing(i, acts), NothingUndone, NEW j \in Items, Staffed(j)
  PROVE  /\ Hiring(j)' /\ HiresOnce(j)' /\ RetiresFirst(j)' /\ ReadyNow(j)'
         /\ (\E d \in Deps[j] : item[d].state = "stuck") => \E d \in Deps[j] : item'[d].state = "stuck"
<1>1. ~Planned("launch", j)'
  BY DEF Passing, PlansFor, Staffed, Hiring
<1>2. \A n \in DOMAIN plan' : ~Is(n, "launch", j)'
  BY <1>1 DEF Planned
<1>3. Hiring(j)' /\ HiresOnce(j)' /\ RetiresFirst(j)'
  BY <1>1, <1>2 DEF Hiring, HiresOnce, RetiresFirst
<1>4. Deps[j] \subseteq Items
  BY ExecutorAssumption
<1>5. ReadyNow(j)'
  BY <1>4 DEF Passing, NothingUndone, Staffed, ReadyNow
<1>. QED
  BY <1>3, <1>4, <1>5 DEF NothingUndone

\* The item that is passed.
LEMMA PassedStaffed ==
  ASSUME WorldOK, WorldOK', NEW i \in Items, NEW o, Passable(i, item[i], o), ~o.it.illegal,
         Passing(i, o.acts), NothingUndone, Staffed(i), SameStation(o.it, item'[i]),
         item[i].retryWs = 0, ~Planned("notify-ci-failure", i)
  PROVE  Staffed(i)'
<1>1. /\ Hiring(i)' /\ HiresOnce(i)' /\ RetiresFirst(i)' /\ ReadyNow(i)'
      /\ (\E d \in Deps[i] : item[d].state = "stuck") => \E d \in Deps[i] : item'[d].state = "stuck"
  BY PassingOthers
<1>2. /\ live' = live /\ tree' = tree
      /\ \A t, j : Planned(t, j) => Planned(t, j)'
      /\ \A t, j : Planned(t, j)' => Planned(t, j) \/ (j = i /\ Holds(o.acts, t))
      /\ \A t : Holds(o.acts, t) => Planned(t, i)'
      /\ o.acts \in Hushed(i) => ~Holds(o.acts, "notify-ci-failure")
  BY DEF Passing, PlansFor
<1>3. /\ item'[i].state = o.it.state /\ item'[i].ws = o.it.ws /\ item'[i].retryWs = o.it.retryWs
      /\ item'[i].base = o.it.base /\ item'[i].parked = o.it.parked
  BY DEF SameStation
<1>4. Told(i)'
  <2>1. Planned("notify-ci-failure", i)' => o.acts \notin Hushed(i)
    BY <1>2
  <2>. QED
    BY <1>3, <2>1 DEF Told, Passable
<1>5. CASE Carries(item[i], o.it)
  <2>1. /\ item'[i].ws = item[i].ws /\ item'[i].retryWs = 0 /\ item'[i].base = item[i].base
        /\ item[i].state \in Resting \/ item'[i].state \in {"ready", "queued"}
              => item'[i].state = item[i].state
        /\ ParkedRightly(item'[i])
    BY <1>3, <1>5 DEF Carries, Resting, ParkedRightly, Staffed
  <2>2. (Freed(i) => Freed(i)') /\ Backed(i)'
    BY <1>2, <2>1 DEF Freed, Backed, Ref, Staffed
  <2>3. Retiring(i)' /\ Vacant(i)'
    BY <1>2, <2>1, <2>2 DEF Retiring, Vacant, Staffed
  <2>4. Waiting(i)' /\ Stacked(i)'
    BY <1>1, <2>1, <2>2 DEF Waiting, Stacked, Staffed
  <2>. QED
    BY <1>1, <1>4, <2>1, <2>2, <2>3, <2>4 DEF Staffed
<1>6. CASE Renewed(item[i], o.it) /\ Holds(o.acts, "retry")
  <2>1. /\ item'[i].ws = 0 /\ item'[i].retryWs = item[i].ws /\ item'[i].base = item[i].base
        /\ item'[i].state = "ready" /\ ~item'[i].parked
    BY <1>3, <1>6 DEF Renewed
  <2>2. Freed(i)'
    BY <1>2, <2>1 DEF Freed, Backed, Ref, Staffed
  <2>3. Backed(i)'
    BY <2>2, FreedNext
  <2>4. Planned("retry", i)'
    BY <1>2, <1>6
  <2>5. Retiring(i)' /\ Vacant(i)' /\ ParkedRightly(item'[i])
    BY <2>1, <2>2, <2>4 DEF Retiring, Vacant, ParkedRightly
  <2>6. Waiting(i)' /\ Stacked(i)'
    BY <2>1, <2>2 DEF Waiting, Stacked, Staffed
  <2>. QED
    BY <1>1, <1>4, <2>3, <2>5, <2>6 DEF Staffed
<1>. QED
  BY <1>5, <1>6 DEF Passable, Held

\* An item that is not passed.
LEMMA PassedByStaffed ==
  ASSUME NEW i \in Items, NEW acts, Passing(i, acts), NothingUndone,
         NEW j \in Items, j # i \/ acts = <<>>, Staffed(j), SameStation(item[j], item'[j])
  PROVE  Staffed(j)'
<1>1. /\ Hiring(j)' /\ HiresOnce(j)' /\ RetiresFirst(j)' /\ ReadyNow(j)'
      /\ (\E d \in Deps[j] : item[d].state = "stuck") => \E d \in Deps[j] : item'[d].state = "stuck"
  BY PassingOthers
<1>2. /\ live' = live /\ tree' = tree /\ phase # "act" /\ phase' # "act"
      /\ \A t : Planned(t, j)' <=> Planned(t, j)
  BY DEF Passing, PlansFor, Holds
<1>3. /\ item'[j].state = item[j].state /\ item'[j].ws = item[j].ws
      /\ item'[j].retryWs = item[j].retryWs
      /\ item'[j].base = item[j].base /\ item'[j].parked = item[j].parked
  BY DEF SameStation
<1>4. (Freed(j) => Freed(j)') /\ Backed(j)'
  BY <1>2, <1>3 DEF Freed, Backed, Ref, Staffed
<1>5. Retiring(j)' /\ Vacant(j)' /\ Told(j)' /\ ParkedRightly(item'[j])
  BY <1>2, <1>3, <1>4 DEF Retiring, Vacant, Told, ParkedRightly, Staffed
<1>6. Waiting(j)' /\ Stacked(j)'
  BY <1>1, <1>3, <1>4 DEF Waiting, Stacked, Staffed
<1>. QED
  BY <1>1, <1>4, <1>5, <1>6 DEF Staffed

\* An item taken back, that was to be stacked on i: it is queued, on no base.
TakenBack(i, x, y) ==
  /\ x.base = i /\ x.state \in {"ready", "launching"}
  /\ y.state = "queued" /\ y.base = NoItem /\ ~y.parked
  /\ y.ws = x.ws /\ y.retryWs = x.retryWs /\ y.pr = x.pr

\* Such an item is staffed: it waits for what is stuck.
LEMMA TakenBackStaffed ==
  ASSUME NEW i \in Items, NEW acts, Passing(i, acts), NothingUndone, item'[i].state = "stuck",
         NEW j \in Items, j # i, Staffed(j), TakenBack(i, item[j], item'[j])
  PROVE  Staffed(j)'
<1>1. Hiring(j)' /\ HiresOnce(j)' /\ RetiresFirst(j)' /\ ReadyNow(j)'
  BY PassingOthers
<1>2. /\ live' = live /\ tree' = tree /\ phase # "act" /\ phase' # "act"
      /\ \A t : Planned(t, j)' <=> Planned(t, j)
  BY DEF Passing, PlansFor
<1>3. /\ item[j].base = i /\ item[j].state \in {"ready", "launching"}
      /\ item'[j].state = "queued" /\ item'[j].base = NoItem /\ ~item'[j].parked
      /\ item'[j].ws = item[j].ws /\ item'[j].retryWs = item[j].retryWs
  BY DEF TakenBack
<1>4. (Freed(j) => Freed(j)') /\ Backed(j)'
  BY <1>2, <1>3 DEF Freed, Backed, Ref, Staffed
<1>5. Retiring(j)' /\ Vacant(j)'
  BY <1>2, <1>3, <1>4 DEF Retiring, Vacant, Staffed
<1>6. Told(j)' /\ ParkedRightly(item'[j])
  BY <1>2, <1>3 DEF Told, ParkedRightly, Staffed
<1>7. i \in Deps[j]
  BY <1>3, ItemsAssumption DEF Stacked, Staffed
<1>8. Waiting(j)' /\ Stacked(j)'
  BY <1>3, <1>7 DEF Waiting, Stacked
<1>. QED
  BY <1>1, <1>4, <1>5, <1>6, <1>8 DEF Staffed

\* A record taken back from a stuck item.
LEMMA QueuedBack ==
  ASSUME NEW it, Shape(it), it.state \in {"ready", "launching"}
  PROVE  LET y == WithBase(Moved(it, "queued"), NoItem)
         IN  /\ Shape(y) /\ y.state = "queued" /\ y.base = NoItem /\ ~y.parked /\ y.pr = it.pr
             /\ SameSession(it, y) /\ SameHelpers(it, y)
<1>. PICK x : x = Moved(it, "queued")
  OBVIOUS
<1>. PICK y : y = WithBase(x, NoItem)
  OBVIOUS
<1>1. it.state # "queued" /\ "queued" \in Successors(it.state)
  BY DEF Successors
<1>2. Shape(x)
  BY ZenonT(40) DEF Moved, Shape
<1>3. /\ x.state = "queued" /\ x.parked = FALSE /\ x.ws = it.ws /\ x.retryWs = it.retryWs
      /\ x.pr = it.pr
      /\ x.reviewWs = it.reviewWs /\ x.rebaserWs = it.rebaserWs /\ x.fixWs = it.fixWs
  BY <1>1 DEF Moved, Shape, Fields
<1>4. Shape(y)
  BY <1>2, Zenon DEF WithBase, Shape
<1>5. /\ y.state = "queued" /\ y.base = NoItem /\ ~y.parked /\ y.ws = x.ws /\ y.retryWs = x.retryWs
      /\ y.pr = x.pr
      /\ y.reviewWs = x.reviewWs /\ y.rebaserWs = x.rebaserWs /\ y.fixWs = x.fixWs
  BY <1>2, <1>3 DEF WithBase, Shape, Fields
<1>. QED
  BY <1>3, <1>4, <1>5 DEF SameSession, SameHelpers

\* The records after the item i has been passed: its own, and those taken back from it.
PassedRecords(i, it, records) ==
  /\ records[i] = it
  /\ \A j \in Items \ {i} :
       \/ records[j] = item[j]
       \/ /\ records[j] = WithBase(Moved(item[j], "queued"), NoItem)
          /\ item[j].state \in {"ready", "launching"} /\ item[j].base = i
          /\ it.state = "stuck"

\* What becomes of the record of an item that is not passed.
LEMMA PassedOthers ==
  ASSUME NEW on \in BOOLEAN, ItemsFit(on), NEW i \in Items, NEW it, NEW records,
         PassedRecords(i, it, records), Commit(records), NEW j \in Items \ {i}
  PROVE  /\ SameHelpers(item[j], item'[j])
         /\ \/ SameStation(item[j], item'[j])
            \/ TakenBack(i, item[j], item'[j]) /\ it.state = "stuck"
<1>1. Shape(item[j])
  BY DEF ItemsFit, Fit
<1>2. CASE records[j] = item[j]
  <2>1. Spared(item[j], item'[j])
    BY <1>1, <1>2, CommitSpares
  <2>. QED
    BY <2>1 DEF Spared, SameStation, SameHelpers
<1>3. CASE /\ records[j] = WithBase(Moved(item[j], "queued"), NoItem)
           /\ item[j].state \in {"ready", "launching"} /\ item[j].base = i /\ it.state = "stuck"
  <2>. PICK y : y = WithBase(Moved(item[j], "queued"), NoItem)
    OBVIOUS
  <2>1. /\ Shape(y) /\ y.state = "queued" /\ y.base = NoItem /\ ~y.parked /\ y.pr = item[j].pr
        /\ SameSession(item[j], y) /\ SameHelpers(item[j], y)
    BY <1>1, <1>3, QueuedBack
  <2>2. Spared(y, item'[j])
    BY <1>3, <2>1, CommitSpares
  <2>. QED
    BY <1>3, <2>1, <2>2 DEF Spared, TakenBack, SameSession, SameHelpers
<1>. QED
  BY <1>2, <1>3 DEF PassedRecords

\* Passing an item makes nothing come undone that others wait for.
LEMMA PassUndoesNothing ==
  ASSUME NEW on \in BOOLEAN, ItemsFit(on), NEW i \in Items, NEW o, Passable(i, item[i], o),
         ~o.it.illegal, NEW records, PassedRecords(i, o.it, records), Commit(records)
  PROVE  NothingUndone /\ SameStation(o.it, item'[i])
<1>1. Shape(o.it)
  BY DEF Passable, Held, Renewed, Sequel
<1>2. Spared(o.it, item'[i])
  BY <1>1, CommitSpares DEF PassedRecords
<1>3. ASSUME NEW d \in Items \ {i}
      PROVE  /\ item[d].state = "stuck" => item'[d].state = "stuck"
             /\ Satisfied(item[d]) => Satisfied(item'[d])
  <2>1. \/ SameStation(item[d], item'[d])
        \/ TakenBack(i, item[d], item'[d])
    BY PassedOthers
  <2>. QED
    BY <2>1 DEF SameStation, TakenBack, Satisfied
<1>4. /\ item[i].state = "stuck" => o.it.state = "stuck"
      /\ Satisfied(item[i]) => Satisfied(o.it)
  BY DEF Passable, Held, Renewed, Carries, Resting, Satisfied
<1>5. /\ item[i].state = "stuck" => item'[i].state = "stuck"
      /\ Satisfied(item[i]) => Satisfied(item'[i])
  BY <1>2, <1>4 DEF Spared, Satisfied
<1>. QED
  BY <1>2, <1>3, <1>5 DEF NothingUndone, Spared, SameStation

\* A step of the pass: the item i goes through its handler, or is reconsidered.
Passes(i, o, records, next) ==
  /\ phase \in {"poll", "reevaluate"}
  /\ phase' = IF Threw(records) THEN "crashed" ELSE next
  /\ Passable(i, item[i], o) /\ (Tended(i, item[i], o) \/ snaps[i].pr = "merged")
  /\ Unopened(item[i]) /\ snaps[i].num = "none" /\ snaps[i].pr # "merged" => Unopening(i, o)
  /\ PassedRecords(i, o.it, records) /\ Commit(records)
  /\ plan \in Seq(Actions) /\ plan' = plan \o o.acts
  /\ UNCHANGED <<readyIds, snaps, world>>
  /\ \/ \A t : ~Planned(t, i)
     \/ item[i].state = "review-pending"
     \/ o.acts = <<>> /\ o.it = item[i]

\* One item is passed: all stay staffed, and helpers in reach.
LEMMA PassStaffs ==
  ASSUME NEW on \in BOOLEAN, ItemsFit(on), WorldOK, WorldOK', Staffing, HelpersInReach,
         NEW i \in Items, NEW o, NEW records, NEW next \in {"poll", "reevaluate", "schedule"},
         Passes(i, o, records, next)
  PROVE  Staffing' /\ HelpersInReach'
<1>. USE DEF Passes
<1>0. UNCHANGED <<live, tree, helper, readyIds>>
  BY DEF world
<1>1. Sequel(item[i], o.it) /\ Shape(o.it) /\ o.acts \in Unlaunched(i)
  BY DEF Passable, Held, Renewed, Sequel
<1>2. Spared(o.it, item'[i])
  BY <1>1, CommitSpares DEF PassedRecords
<1>3. \A j \in Items : HelpersStay(j)
  <2>1. SameHelpers(item[i], item'[i])
    BY <1>1, <1>2 DEF Sequel, Spared, SameHelpers
  <2>. QED
    BY <1>0, <2>1, PassedOthers DEF HelpersStay
<1>4. HelpersInReach'
  BY <1>3, StayInReach
<1>5. \A j \in Items : Sole(j)'
  BY <1>0 DEF Staffing, Sole
<1>6. ASSUME phase' # "crashed"
      PROVE  \A j \in Items : Staffed(j)'
  <2>1. phase' = next /\ ~o.it.illegal
    BY <1>6 DEF Threw, PassedRecords
  <2>2. \A j \in Items : Staffed(j)
    BY DEF Staffing
  <2>3. PlansFor(i, o.acts)
    BY <1>1, PlansGrow
  <2>4. Passing(i, o.acts)
    BY <1>0, <2>1, <2>3 DEF Passing
  <2>5. NothingUndone /\ SameStation(o.it, item'[i])
    BY <2>1, PassUndoesNothing
  <2>7. Staffed(i)'
    <3>1. CASE (\A t : ~Planned(t, i)) \/ item[i].state = "review-pending"
      <4>1. item[i].retryWs = 0 /\ ~Planned("notify-ci-failure", i)
        BY <2>2, <3>1 DEF Staffed, Retiring, Told
      <4>. QED
        BY <2>1, <2>2, <2>4, <2>5, <4>1, PassedStaffed
    <3>2. CASE o.acts = <<>> /\ o.it = item[i]
      BY <2>2, <2>4, <2>5, <3>2, PassedByStaffed
    <3>. QED
      BY <3>1, <3>2
  <2>8. ASSUME NEW j \in Items \ {i}
        PROVE  Staffed(j)'
    <3>1. CASE SameStation(item[j], item'[j])
      BY <2>2, <2>4, <2>5, <3>1, PassedByStaffed
    <3>2. CASE TakenBack(i, item[j], item'[j]) /\ o.it.state = "stuck"
      <4>1. item'[i].state = "stuck"
        BY <2>5, <3>2 DEF SameStation
      <4>. QED
        BY <2>2, <2>4, <2>5, <3>2, <4>1, TakenBackStaffed
    <3>. QED
      BY <3>1, <3>2, PassedOthers
  <2>. QED
    BY <2>7, <2>8
<1>. QED
  BY <1>4, <1>5, <1>6 DEF Staffing

\* The record of an item in a pass is one the state machine works on.
LEMMA ItemRightful ==
  ASSUME NEW on \in BOOLEAN, ItemsFit(on), NEW i \in Items, ParkedRightly(item[i])
  PROVE  Rightful(item[i])
<1>1. Shape(item[i]) /\ Typed(item[i])
  BY DEF ItemsFit, Fit
<1>2. Sayable(item[i])
  BY <1>1 DEF Typed, Sayable, Feedback
<1>. QED
  BY <1>1, <1>2 DEF Rightful

\* One item goes through its handler.
LEMMA PollPasses ==
  ASSUME NEW on \in BOOLEAN, Inv(on), \A j \in Items : ParkedRightly(item[j]), Poll
  PROVE  \E i \in Items, next \in {"poll", "reevaluate", "schedule"} :
           \E o, records : Passes(i, o, records, next)
<1>. USE DEF Inv
<1>. PICK i : i = Head(todo)
  OBVIOUS
<1>. PICK last : last = IF config.reevaluate THEN "reevaluate" ELSE "schedule"
  OBVIOUS
<1>1. PICK o \in Transitioned(config, i, item[i], snaps[i]) :
        LET records == PassedOn(i, o.it)
        IN  /\ Commit(records)
            /\ plan' = plan \o o.acts
            /\ Advance(records, last)
  BY Zenon DEF Poll, PassedOn
<1>2. PICK records : records = PassedOn(i, o.it)
  OBVIOUS
<1>. PICK next : next = IF Len(todo) > 1 THEN phase ELSE last
  OBVIOUS
<1>3. /\ Commit(records) /\ plan' = plan \o o.acts
      /\ phase' = IF Threw(records) THEN "crashed" ELSE next
  BY <1>1, <1>2 DEF Advance
<1>4. phase = "poll" /\ UNCHANGED <<readyIds, snaps, world>>
  BY DEF Poll
<1>5. todo \in Seq(Items) /\ todo # <<>> /\ i \in Items /\ i = todo[1] /\ 1 \in DOMAIN todo
  BY <1>4, HeadTailProperties, LenProperties DEF TodoOK
<1>6. Passable(i, item[i], o) /\ (Tended(i, item[i], o) \/ snaps[i].pr = "merged")
  <2>1. snaps[i].new \in SUBSET Feedback
    BY <1>5 DEF SeenOK, Legible, Feedback
  <2>2. Rightful(item[i])
    BY <1>4, <1>5, ItemRightful
  <2>. QED
    BY <1>5, <2>1, <2>2, TransitionedTended
<1>11. Unopened(item[i]) /\ snaps[i].num = "none" /\ snaps[i].pr # "merged" => Unopening(i, o)
  <2>1. snaps[i].new \in SUBSET Feedback
    BY <1>5 DEF SeenOK, Legible, Feedback
  <2>2. Rightful(item[i])
    BY <1>4, <1>5, ItemRightful
  <2>. QED
    BY <1>5, <2>1, <2>2, TransitionedUnopened
<1>7. PassedRecords(i, o.it, records)
  <2>. PICK first : first = [item EXCEPT ![i] = o.it]
    OBVIOUS
  <2>1. \A j \in Items : first[j] = IF j = i THEN o.it ELSE item[j]
    BY <1>5 DEF ItemsFit
  <2>2. records = RolledBack(first, i)
    BY <1>2 DEF PassedOn
  <2>3. CASE ~(Stacking /\ first[i].state = "stuck" /\ item[i].state # "stuck")
    <3>1. records = first
      BY <2>2, <2>3 DEF RolledBack
    <3>. QED
      BY <1>5, <2>1, <3>1 DEF PassedRecords
  <2>4. CASE Stacking /\ first[i].state = "stuck" /\ item[i].state # "stuck"
    <3>1. \A j \in Items : records[j] = IF first[j].base = i /\ first[j].state \in {"ready", "launching"}
                                        THEN WithBase(Moved(first[j], "queued"), NoItem)
                                        ELSE first[j]
      BY <2>2, <2>4 DEF RolledBack, WithBase
    <3>2. o.it.state = "stuck"
      BY <1>5, <2>1, <2>4
    <3>3. records[i] = o.it
      BY <1>5, <2>1, <3>1, <3>2
    <3>. QED
      BY <2>1, <3>1, <3>2, <3>3 DEF PassedRecords
  <2>. QED
    BY <2>3, <2>4
<1>8. plan \in Seq(Actions) /\ next \in {"poll", "reevaluate", "schedule"}
  BY <1>4 DEF PlanOK
<1>9. \A t : ~Planned(t, i)
  <2>1. \A n \in DOMAIN plan : plan[n].item # i
    BY <1>4, <1>5 DEF PlanOK
  <2>. QED
    BY <2>1 DEF Planned, Is
<1>10. Passes(i, o, records, next)
  BY <1>3, <1>4, <1>6, <1>7, <1>8, <1>9, <1>11 DEF Passes
<1>. QED
  BY <1>5, <1>8, <1>10

\* One item is reconsidered after the operator changed the merge strategy.
LEMMA ReevaluatePasses ==
  ASSUME NEW on \in BOOLEAN, Inv(on), \A j \in Items : ParkedRightly(item[j]), Reevaluate
  PROVE  \E i \in Items, next \in {"poll", "reevaluate", "schedule"} :
           \E o, records : Passes(i, o, records, next)
<1>. USE DEF Inv
<1>. PICK i : i = Head(todo)
  OBVIOUS
<1>1. PICK o : o = IF item[i].state = "review-pending" /\ snaps[i].ci = "pass"
                   THEN EvaluateMerge(config, i, item[i], snaps[i]) ELSE Outcome(item[i], <<>>)
  OBVIOUS
<1>2. PICK records : records = [item EXCEPT ![i] = o.it]
  OBVIOUS
<1>. PICK next : next = IF Len(todo) > 1 THEN phase ELSE "schedule"
  OBVIOUS
<1>3. /\ Commit(records) /\ plan' = plan \o o.acts
      /\ phase' = IF Threw(records) THEN "crashed" ELSE next
  BY <1>1, <1>2 DEF Reevaluate, Advance
<1>4. phase = "reevaluate" /\ UNCHANGED <<readyIds, snaps, world>>
  BY DEF Reevaluate
<1>5. todo \in Seq(Items) /\ todo # <<>> /\ i \in Items
  BY <1>4, HeadTailProperties, LenProperties DEF TodoOK
<1>6. plan \in Seq(Actions) /\ next \in {"poll", "reevaluate", "schedule"}
  BY <1>4 DEF PlanOK
<1>7. PassedRecords(i, o.it, records)
  BY <1>2, <1>5 DEF ItemsFit, PassedRecords
<1>8. Rightful(item[i])
  BY <1>5, ItemRightful
<1>9. CASE item[i].state = "review-pending" /\ snaps[i].ci = "pass"
  <2>1. Handles(item[i])
    BY <1>8, <1>9 DEF Handles
  <2>2. Passable(i, item[i], o) /\ Tended(i, item[i], o)
    BY <1>1, <1>5, <1>9, <2>1, EvaluateMergeTended, TendedPassable
  <2>3. ~Unopened(item[i])
    BY <1>9 DEF Unopened, Begun
  <2>4. Passes(i, o, records, next)
    BY <1>3, <1>4, <1>6, <1>7, <1>9, <2>2, <2>3 DEF Passes
  <2>. QED
    BY <1>5, <1>6, <2>4
<1>10. CASE ~(item[i].state = "review-pending" /\ snaps[i].ci = "pass")
  <2>1. o.it = item[i] /\ o.acts = <<>> /\ o = Outcome(item[i], <<>>)
    BY <1>1, <1>10 DEF Outcome
  <2>2. Passable(i, item[i], o) /\ Tended(i, item[i], o)
    <3>1. Keeps(item[i], item[i])
      BY <1>8, KeptSelf DEF Rightful
    <3>. QED
      BY <1>5, <2>1, <3>1, OneHushed, KeptTended, TendedPassable
  <2>3. Unopened(item[i]) => Unopening(i, o)
    BY <1>5, <2>1, OneUnrebased DEF Unopening
  <2>4. Passes(i, o, records, next)
    BY <1>3, <1>4, <1>6, <1>7, <2>1, <2>2, <2>3 DEF Passes
  <2>. QED
    BY <1>5, <1>6, <2>4
<1>. QED
  BY <1>9, <1>10

\* A step of the pass keeps the items staffed.
LEMMA SurveyStaffs ==
  ASSUME NEW on \in BOOLEAN, Inv(on), WorldOK', Staffing, HelpersInReach, Poll \/ Reevaluate
  PROVE  Staffing' /\ HelpersInReach'
<1>1. ItemsFit(on) /\ WorldOK /\ phase # "crashed"
  BY DEF Inv, Poll, Reevaluate
<1>2. \A j \in Items : ParkedRightly(item[j])
  BY <1>1 DEF Staffing, Staffed
<1>3. PICK i \in Items, next \in {"poll", "reevaluate", "schedule"} :
        \E o, records : Passes(i, o, records, next)
  BY <1>2, PollPasses, ReevaluatePasses
<1>. QED
  BY <1>1, <1>3, PassStaffs

---------------------------------------------------------------------------
(* The actions keep the items staffed *)

\* What is left of the plan once its first action is executed.
Shifted ==
  /\ 1 \in DOMAIN plan
  /\ \A n \in DOMAIN plan' : n \in Nat /\ n + 1 \in DOMAIN plan /\ n + 1 # 1 /\ plan'[n] = plan[n + 1]
  /\ \A m \in DOMAIN plan : m \in Nat /\ (m # 1 => m - 1 \in DOMAIN plan' /\ plan'[m - 1] = plan[m])

\* The places of the plan move up by one.
LEMMA PlanShifts ==
  ASSUME plan \in Seq(Actions), plan # <<>>, plan' = Tail(plan)
  PROVE  Shifted
<1>1. /\ plan' \in Seq(Actions) /\ Len(plan') = Len(plan) - 1 /\ Len(plan) \in Nat /\ Len(plan) # 0
      /\ DOMAIN plan = 1 .. Len(plan) /\ DOMAIN plan' = 1 .. Len(plan')
  BY HeadTailProperties, LenProperties, EmptySeq
<1>2. \A n \in DOMAIN plan' : n + 1 \in DOMAIN plan /\ plan'[n] = plan[n + 1] /\ n \in Nat /\ n # 0
  BY TailPlaces
<1>3. ASSUME NEW m \in DOMAIN plan, m # 1
      PROVE  m - 1 \in DOMAIN plan' /\ plan'[m - 1] = plan[m]
  <2>1. m - 1 \in DOMAIN plan' /\ (m - 1) + 1 = m
    BY <1>1, <1>3
  <2>. QED
    BY <1>2, <2>1
<1>. QED
  BY <1>1, <1>2, <1>3 DEF Shifted

\* What remains planned, what was executed, and in which order the rest stands.
LEMMA PlanShrinks ==
  ASSUME Shifted, NEW j
  PROVE  /\ \A t : Planned(t, j)' => Planned(t, j)
         /\ \A t : Planned(t, j) => Planned(t, j)' \/ Is(1, t, j)
         /\ HiresOnce(j) => HiresOnce(j)' /\ (Is(1, "launch", j) => ~Planned("launch", j)')
         /\ RetiresFirst(j) /\ item[j].retryWs # 0 => ~Is(1, "launch", j)
         /\ RetiresFirst(j) /\ item[j].retryWs # 0 /\ ~Is(1, "retry", j) => RetiresFirst(j)'
<1>. USE DEF Shifted
<1>1. \A t : Planned(t, j)' => Planned(t, j)
  BY DEF Planned, Is
<1>2. \A t : Planned(t, j) => Planned(t, j)' \/ Is(1, t, j)
  BY DEF Planned, Is
<1>3. ASSUME HiresOnce(j)
      PROVE  HiresOnce(j)' /\ (Is(1, "launch", j) => ~Planned("launch", j)')
  <2>1. ASSUME NEW m \in DOMAIN plan', NEW n \in DOMAIN plan', Is(m, "launch", j)', Is(n, "launch", j)'
        PROVE  m = n
    <3>1. Is(m + 1, "launch", j) /\ Is(n + 1, "launch", j) /\ m \in Nat /\ n \in Nat
      BY <2>1 DEF Is
    <3>2. m + 1 = n + 1
      BY <1>3, <3>1 DEF HiresOnce
    <3>. QED
      BY <3>1, <3>2
  <2>2. ASSUME Is(1, "launch", j), NEW n \in DOMAIN plan', Is(n, "launch", j)'
        PROVE  FALSE
    <3>1. Is(n + 1, "launch", j) /\ n + 1 \in DOMAIN plan /\ n + 1 # 1
      BY <2>2 DEF Is
    <3>. QED
      BY <1>3, <2>2, <3>1 DEF HiresOnce
  <2>3. HiresOnce(j)'
    BY <2>1 DEF HiresOnce
  <2>4. Is(1, "launch", j) => ~Planned("launch", j)'
    BY <2>2 DEF Planned
  <2>. QED
    BY <2>3, <2>4
<1>4. ASSUME RetiresFirst(j), item[j].retryWs # 0, Is(1, "launch", j)
      PROVE  FALSE
  <2>1. PICK m \in DOMAIN plan : m < 1 /\ Is(m, "retry", j)
    BY <1>4 DEF RetiresFirst
  <2>2. m = 0
    BY <2>1
  <2>3. m - 1 \in DOMAIN plan' /\ m - 1 \in Nat
    BY <2>1, <2>2
  <2>. QED
    BY <2>2, <2>3
<1>5. ASSUME RetiresFirst(j), item[j].retryWs # 0, ~Is(1, "retry", j)
      PROVE  RetiresFirst(j)'
  <2>1. ASSUME NEW n \in DOMAIN plan', Is(n, "launch", j)'
        PROVE  \E m \in DOMAIN plan' : m < n /\ Is(m, "retry", j)'
    <3>1. Is(n + 1, "launch", j) /\ n + 1 \in DOMAIN plan /\ n \in Nat
      BY <2>1 DEF Is
    <3>2. PICK m \in DOMAIN plan : m < n + 1 /\ Is(m, "retry", j)
      BY <1>5, <3>1 DEF RetiresFirst
    <3>3. m # 1
      BY <1>5, <3>2
    <3>4. m - 1 \in DOMAIN plan' /\ Is(m - 1, "retry", j)' /\ m - 1 < n
      BY <3>1, <3>2, <3>3 DEF Is
    <3>. QED
      BY <3>4
  <2>. QED
    BY <2>1 DEF RetiresFirst
<1>6. HiresOnce(j) => HiresOnce(j)' /\ (Is(1, "launch", j) => ~Planned("launch", j)')
  BY <1>3
<1>. QED
  BY <1>1, <1>2, <1>4, <1>5, <1>6

\* An action has been executed, and the loop goes on.
Acting ==
  /\ Shifted /\ phase = "act" /\ phase' \in {"act", "idle"}
  /\ DOMAIN plan' # {} => phase' = "act"
  /\ readyIds' = readyIds

\* What has to be shown of an item after an action.
LEMMA ActedStaffed ==
  ASSUME Acting, NEW j \in Items, Staffed(j),
         item'[j].retryWs # 0 => item'[j].retryWs = item[j].retryWs /\ ~Is(1, "retry", j),
         Planned("launch", j)' => Freed(j)' /\ item'[j].state \notin {"ready", "queued"},
         Backed(j)', Vacant(j)', ParkedRightly(item'[j]), Waiting(j)', Stacked(j)'
  PROVE  Staffed(j)'
<1>1. /\ \A t : Planned(t, j)' => Planned(t, j)
      /\ \A t : Planned(t, j) => Planned(t, j)' \/ Is(1, t, j)
      /\ HiresOnce(j) => HiresOnce(j)'
      /\ RetiresFirst(j) /\ item[j].retryWs # 0 /\ ~Is(1, "retry", j) => RetiresFirst(j)'
  BY PlanShrinks DEF Acting
<1>2. \A t : Planned(t, j)' => phase' = "act"
  BY DEF Planned, Acting
<1>3. Retiring(j)'
  BY <1>1, <1>2 DEF Retiring, Staffed
<1>4. Hiring(j)'
  BY <1>1, <1>2 DEF Hiring, Staffed
<1>5. HiresOnce(j)' /\ RetiresFirst(j)'
  <2>1. CASE item'[j].retryWs = 0
    BY <1>1, <2>1 DEF RetiresFirst, Staffed
  <2>2. CASE item'[j].retryWs # 0
    BY <1>1, <2>2 DEF Staffed
  <2>. QED
    BY <2>1, <2>2
<1>6. Told(j)'
  BY <1>2 DEF Told
<1>7. ReadyNow(j)'
  BY DEF ReadyNow, Staffed, Acting
<1>. QED
  BY <1>3, <1>4, <1>5, <1>6, <1>7 DEF Staffed

\* What is stuck stays so.
StuckStays == \A d \in Items : item[d].state = "stuck" => item'[d].state = "stuck"

\* An item that is queued after an action was so before, and is freed or waits as before.
LEMMA StillWaiting ==
  ASSUME StuckStays, NEW j \in Items, Waiting(j),
         item'[j].state = "queued" => item[j].state = "queued",
         Freed(j) => Freed(j)'
  PROVE  Waiting(j)'
<1>1. Deps[j] \subseteq Items
  BY ExecutorAssumption
<1>. QED
  BY <1>1 DEF Waiting, StuckStays

\* An item goes on with the session it has, or with none.
LEMMA KeptStaffed ==
  ASSUME Acting, StuckStays, WorldOK', NEW j \in Items, Staffed(j), ~Is(1, "retry", j),
         SessionKept(j) \/ SessionLetGo(j), Proceeds(item[j], item'[j]), ~item'[j].illegal
  PROVE  Staffed(j)'
<1>1. /\ item'[j].base \in {item[j].base, NoItem} /\ item'[j].retryWs = item[j].retryWs
      /\ item'[j].state \in {"ready", "queued"} => item'[j].state = item[j].state
      /\ ParkedRightly(item'[j])
  BY DEF Proceeds, SessionKept, SessionLetGo, SameSession, Staffed
<1>2. Freed(j) => Freed(j)'
  BY <1>1 DEF Freed, SessionKept, SessionLetGo
<1>3. SessionLetGo(j) => Freed(j)'
  BY <1>1 DEF SessionLetGo, Freed, Backed, Ref, Staffed
<1>4. Backed(j)'
  <2>1. CASE SessionKept(j)
    BY <2>1 DEF SessionKept, SameSession, Backed, Ref, Staffed
  <2>2. CASE SessionLetGo(j)
    BY <1>3, <2>2, FreedNext
  <2>. QED
    BY <2>1, <2>2
<1>5. Vacant(j)'
  BY <1>1, <1>2, <1>3 DEF Vacant, SessionKept, Staffed
<1>6. Waiting(j)' /\ Stacked(j)'
  BY <1>1, <1>2, StillWaiting DEF Stacked, Staffed
<1>7. Planned("launch", j)' => Freed(j)' /\ item'[j].state \notin {"ready", "queued"}
  <2>1. Planned("launch", j)' => Planned("launch", j)
    BY PlanShrinks DEF Acting
  <2>. QED
    BY <1>1, <1>2, <2>1 DEF Hiring, Staffed
<1>. QED
  BY <1>1, <1>4, <1>5, <1>6, <1>7, ActedStaffed

\* A retry closes the session that was set aside.
LEMMA RetiredStaffed ==
  ASSUME Acting, StuckStays, WorldOK', NEW j \in Items, Staffed(j),
         SessionRetired(j), Proceeds(item[j], item'[j]), ~item'[j].illegal
  PROVE  Staffed(j)'
<1>1. /\ item'[j].base \in {item[j].base, NoItem} /\ item'[j].retryWs = 0
      /\ item'[j].state \in {"ready", "queued"} => item'[j].state = item[j].state
      /\ ParkedRightly(item'[j])
  BY DEF Proceeds, SessionRetired, Staffed
<1>2. Freed(j)'
  BY DEF SessionRetired, Backed, Freed, Staffed
<1>3. Backed(j)' /\ Vacant(j)' /\ Waiting(j)' /\ Stacked(j)'
  BY <1>1, <1>2, FreedNext DEF Vacant, Waiting, Stacked, Staffed
<1>4. Planned("launch", j)' => item'[j].state \notin {"ready", "queued"}
  <2>1. Planned("launch", j)' => Planned("launch", j)
    BY PlanShrinks DEF Acting
  <2>. QED
    BY <1>1, <2>1 DEF Hiring, Staffed
<1>. QED
  BY <1>1, <1>2, <1>3, <1>4, ActedStaffed

\* An item whose launch has come has no session at all, and no other launch is planned.
LEMMA AtLaunch ==
  ASSUME Acting, WorldOK, NEW j \in Items, Staffed(j), Is(1, "launch", j)
  PROVE  /\ item[j].retryWs = 0 /\ live[j] = {} /\ item[j].state \notin {"ready", "queued"}
         /\ ~Planned("launch", j)' /\ ~Is(1, "retry", j)
<1>1. Planned("launch", j)
  BY DEF Acting, Shifted, Planned
<1>2. Freed(j) /\ item[j].state \notin {"ready", "queued"}
  BY <1>1 DEF Hiring, Staffed
<1>3. item[j].retryWs = 0 /\ ~Planned("launch", j)'
  BY PlanShrinks DEF Staffed, Acting
<1>. QED
  BY <1>2, <1>3, FreedMeans DEF Is

\* A launch hires a worker.
LEMMA HiredStaffed ==
  ASSUME Acting, WorldOK, NEW j \in Items, Staffed(j), Is(1, "launch", j),
         SessionHired(j), Proceeds(item[j], item'[j]), ~item'[j].illegal
  PROVE  Staffed(j)'
<1>1. /\ item[j].retryWs = 0 /\ live[j] = {} /\ item[j].state \notin {"ready", "queued"}
      /\ ~Planned("launch", j)' /\ ~Is(1, "retry", j)
  BY AtLaunch
<1>2. /\ item'[j].base \in {item[j].base, NoItem} /\ item'[j].retryWs = 0
      /\ item'[j].state \notin {"ready", "queued"}
      /\ ParkedRightly(item'[j]) /\ tree'[j]
  BY <1>1 DEF Proceeds, SessionHired, Staffed
<1>3. Backed(j)' /\ Vacant(j)' /\ Waiting(j)' /\ Stacked(j)'
  BY <1>1, <1>2 DEF SessionHired, Backed, Ref, Vacant, Waiting, Stacked, Staffed
<1>. QED
  BY <1>1, <1>2, <1>3, ActedStaffed

\* A launch that fails sends its item back to ready.
LEMMA SentBackStaffed ==
  ASSUME Acting, WorldOK, WorldOK', NEW j \in Items, Staffed(j), Is(1, "launch", j),
         SessionKept(j), GoesBack(item[j], item'[j]), ~item'[j].illegal
  PROVE  Staffed(j)'
<1>1. /\ item[j].retryWs = 0 /\ live[j] = {} /\ ~Planned("launch", j)' /\ ~Is(1, "retry", j)
  BY AtLaunch
<1>2. /\ item'[j].base \in {item[j].base, NoItem} /\ item'[j].retryWs = 0
      /\ item'[j].state = "ready" /\ ~item'[j].parked /\ live'[j] = {}
  BY <1>1 DEF GoesBack, SessionKept, SameSession
<1>3. Freed(j)'
  BY <1>2 DEF Freed
<1>4. Backed(j)' /\ Vacant(j)' /\ Waiting(j)' /\ Stacked(j)' /\ ParkedRightly(item'[j])
  BY <1>2, <1>3, FreedNext DEF Vacant, Waiting, Stacked, ParkedRightly, Staffed
<1>. QED
  BY <1>1, <1>2, <1>4, ActedStaffed

\* Nobody is there to be told of red CI: the item goes on without a session.
LEMMA UntoldStaffed ==
  ASSUME Acting, StuckStays, WorldOK', NEW j \in Items, Staffed(j), Is(1, "notify-ci-failure", j),
         ~tree[j], live'[j] = live[j], item'[j].retryWs = item[j].retryWs,
         Proceeds(item[j], item'[j]) \/ GoesBack(item[j], item'[j]), ~item'[j].illegal
  PROVE  Staffed(j)'
<1>1. Planned("notify-ci-failure", j) /\ ~Is(1, "retry", j)
  BY DEF Acting, Shifted, Planned, Is
<1>2. Freed(j)'
  BY DEF Vacant, Freed, Staffed
<1>3. ~Planned("launch", j)'
  <2>1. ~Planned("launch", j)
    BY <1>1 DEF Hiring, Staffed
  <2>. QED
    BY <2>1, PlanShrinks DEF Acting
<1>4. /\ item'[j].base \in {item[j].base, NoItem}
      /\ ParkedRightly(item'[j])
  BY DEF Proceeds, GoesBack, ParkedRightly, Staffed
<1>5. Backed(j)' /\ Vacant(j)' /\ Waiting(j)' /\ Stacked(j)'
  BY <1>2, <1>4, FreedNext DEF Vacant, Waiting, Stacked, Staffed
<1>. QED
  BY <1>1, <1>3, <1>4, <1>5, ActedStaffed

\* One action is executed: the items stay staffed, and helpers in reach.
LEMMA ActStaffs ==
  ASSUME "close-failure" \notin Events, NEW on \in BOOLEAN, Inv(on), WorldOK', Staffing,
         HelpersInReach, Act
  PROVE  Staffing' /\ HelpersInReach'
<1>. USE DEF Inv
<1>. PICK a : a = Head(plan)
  OBVIOUS
<1>1. /\ phase = "act" /\ Execute(a) /\ plan' = Tail(plan) /\ readyIds' = readyIds
      /\ phase' = IF Threw(item') THEN "crashed" ELSE IF Len(plan) = 1 THEN "idle" ELSE "act"
  BY DEF Act
<1>2. plan \in Seq(Actions) /\ plan # <<>>
  BY <1>1 DEF PlanOK
<1>3. a \in Actions /\ a = plan[1] /\ 1 \in DOMAIN plan /\ a.item \in Items
  BY <1>2, ActionTyped
<1>4. Attended(a) /\ HelpersInReach'
  BY <1>1, <1>3, ExecuteAttends DEF InReachStays
<1>. PICK i : i = a.item
  OBVIOUS
<1>5. i \in Items /\ \A t : Is(1, t, i) <=> a.type = t
  BY <1>3 DEF Is
<1>6. \A j \in Items : Staffed(j) /\ Sole(j)
  BY <1>1 DEF Staffing
<1>7. Shifted
  BY <1>1, <1>2, PlanShifts
<1>8. (\A j \in Items \ {i} : Bystands(j))
  BY <1>4 DEF Attended
<1>9. \/ /\ Proceeds(item[i], item'[i])
         /\ \/ a.type # "retry" /\ (SessionKept(i) \/ SessionLetGo(i))
            \/ a.type = "retry" /\ SessionRetired(i)
            \/ a.type = "launch" /\ SessionHired(i)
      \/ a.type = "launch" /\ GoesBack(item[i], item'[i]) /\ SessionKept(i)
      \/ /\ a.type = "notify-ci-failure" /\ ~tree[i] /\ ~tree'[i] /\ live'[i] = live[i]
         /\ Proceeds(item[i], item'[i]) \/ GoesBack(item[i], item'[i])
         /\ item'[i].ws = 0 /\ item'[i].retryWs = item[i].retryWs
  BY <1>4 DEF Attended
<1>10. \A j \in Items : Sole(j)'
  <2>1. ASSUME NEW j \in Items \ {i}
        PROVE  Sole(j)'
    BY <1>6, <1>8 DEF Bystands, SessionKept, Sole
  <2>2. live'[i] \subseteq live[i] => Sole(i)'
    BY <1>5, <1>6 DEF Sole
  <2>3. ASSUME a.type = "launch", SessionHired(i)
        PROVE  Sole(i)'
    <3>1. item[i].retryWs = 0
      <4>1. RetiresFirst(i) /\ Is(1, "launch", i)
        BY <1>5, <1>6, <2>3 DEF Staffed
      <4>. QED
        BY <1>7, <4>1, PlanShrinks
    <3>2. Planned("launch", i)
      BY <1>3, <1>5, <2>3 DEF Planned
    <3>3. Freed(i)
      BY <1>5, <1>6, <3>2 DEF Staffed, Hiring
    <3>4. live[i] = {}
      BY <1>5, <3>1, <3>3, FreedMeans
    <3>. QED
      BY <2>3, <3>4 DEF SessionHired, Sole
  <2>4. live'[i] \subseteq live[i] \/ (a.type = "launch" /\ SessionHired(i))
    BY <1>9 DEF SessionKept, SessionLetGo, SessionRetired
  <2>. QED
    BY <1>5, <2>1, <2>2, <2>3, <2>4
<1>11. ASSUME phase' # "crashed"
       PROVE  \A j \in Items : Staffed(j)'
  <2>1. \A j \in Items : ~item'[j].illegal
    BY <1>1, <1>11 DEF Threw
  <2>2. Acting
    <3>1. DOMAIN plan' # {} => Len(plan) # 1
      BY <1>1, <1>2, TailPlaces
    <3>2. phase' \in {"act", "idle"} /\ (Len(plan) # 1 => phase' = "act")
      BY <1>1, <1>11
    <3>. QED
      BY <1>1, <1>7, <3>1, <3>2 DEF Acting
  <2>3. StuckStays
    <3>1. ASSUME NEW d \in Items \ {i}
          PROVE  item'[d].state = item[d].state
      BY <1>8 DEF Bystands
    <3>2. item[i].state = "stuck" => item'[i].state = "stuck"
      <4>1. ~item'[i].illegal
        BY <1>5, <2>1
      <4>. QED
        BY <1>9, <4>1 DEF Proceeds, GoesBack
    <3>. QED
      BY <3>1, <3>2 DEF StuckStays
  <2>4. ASSUME NEW j \in Items \ {i}
        PROVE  Staffed(j)'
    <3>1. ~Is(1, "retry", j)
      BY <1>3 DEF Is
    <3>2. SessionKept(j) /\ Proceeds(item[j], item'[j]) /\ ~item'[j].illegal
      BY <1>8, <2>1 DEF Bystands
    <3>. QED
      BY <1>6, <2>2, <2>3, <3>1, <3>2, KeptStaffed
  <2>5. Staffed(i) /\ ~item'[i].illegal
    BY <1>5, <1>6, <2>1
  <2>6. Staffed(i)'
    <3>1. CASE a.type # "retry" /\ (SessionKept(i) \/ SessionLetGo(i)) /\ Proceeds(item[i], item'[i])
      BY <1>5, <2>2, <2>3, <2>5, <3>1, KeptStaffed
    <3>2. CASE a.type = "retry" /\ SessionRetired(i) /\ Proceeds(item[i], item'[i])
      BY <1>5, <2>2, <2>3, <2>5, <3>2, RetiredStaffed
    <3>3. CASE a.type = "launch" /\ SessionHired(i) /\ Proceeds(item[i], item'[i])
      BY <1>5, <2>2, <2>5, <3>3, HiredStaffed
    <3>4. CASE a.type = "launch" /\ GoesBack(item[i], item'[i]) /\ SessionKept(i)
      BY <1>5, <2>2, <2>5, <3>4, SentBackStaffed
    <3>5. CASE /\ a.type = "notify-ci-failure" /\ ~tree[i] /\ live'[i] = live[i]
               /\ Proceeds(item[i], item'[i]) \/ GoesBack(item[i], item'[i])
               /\ item'[i].retryWs = item[i].retryWs
      BY <1>5, <2>2, <2>3, <2>5, <3>5, UntoldStaffed
    <3>. QED
      BY <1>9, <3>1, <3>2, <3>3, <3>4, <3>5
  <2>. QED
    BY <1>5, <2>4, <2>6
<1>. QED
  BY <1>4, <1>10, <1>11 DEF Staffing

---------------------------------------------------------------------------
(* The plan of a pass, in the order its actions run *)

\* Actions that run in the order they were asked for, before those that are queued.
Prompt(a) == a.type \in {"retry", "launch", "notify-ci-failure"}

\* The prompt actions of asked stand in next in their order, and there are no others.
PromptPlaces(next, asked) ==
  \E D \in SUBSET (DOMAIN next \cap Nat) : \E f \in [D -> DOMAIN asked] :
    /\ \A k \in D : next[k] = asked[f[k]]
    /\ \A k \in DOMAIN next : Prompt(next[k]) => k \in D
    /\ \A k, l \in D : k < l => f[k] < f[l]
    /\ \A n \in DOMAIN asked : Prompt(asked[n]) => \E k \in D : f[k] = n

\* Merges that are put off and actions that are queued are not prompt.
LEMMA PromptsStay ==
  ASSUME NEW asked \in Seq(Actions), NEW late, NEW next, next = Reordered(asked, late)
  PROVE  next \in Seq(Actions) /\ PromptPlaces(next, asked)
<1>. PICK kept : kept = Remaining(asked, late)
  OBVIOUS
<1>. PICK later : later = InQueue(kept)
  OBVIOUS
<1>. PICK rest : rest = kept \ later
  OBVIOUS
<1>1. PICK first : first = Filtered(asked, rest)
  OBVIOUS
<1>2. PICK second : second = Filtered(asked, later)
  OBVIOUS
<1>3. first \in Seq(Actions \cap rest) /\ InOrder(first, asked, rest)
  BY <1>1, FilteredPlaces, Zenon
<1>4. second \in Seq(Actions \cap later)
  BY <1>2, FilteredPlaces, Zenon
<1>5. /\ Len(first) \in Nat /\ DOMAIN first = 1 .. Len(first) /\ first \in Seq(Actions)
  BY <1>3, SharedElements, Zenon
<1>6. /\ Len(second) \in Nat /\ DOMAIN second = 1 .. Len(second) /\ second \in Seq(Actions)
      /\ \A k \in DOMAIN second : second[k] \in later
  BY <1>4, SharedElements, Zenon
<1>7. /\ next \in Seq(Actions) /\ Len(next) = Len(first) + Len(second)
      /\ \A m \in 1 .. Len(first) + Len(second) :
            next[m] = IF m <= Len(first) THEN first[m] ELSE second[m - Len(first)]
  <2>1. next = first \o second
    BY <1>1, <1>2 DEF Reordered
  <2>. QED
    BY <1>5, <1>6, <2>1, ConcatProperties
<1>8. DOMAIN next = 1 .. Len(next)
  BY <1>7, LenProperties
<1>9. PICK f \in [DOMAIN first -> DOMAIN asked] :
        /\ \A k \in DOMAIN first : first[k] = asked[f[k]]
        /\ \A k, l \in DOMAIN first : k < l => f[k] < f[l]
        /\ \A n \in DOMAIN asked : asked[n] \in rest => \E k \in DOMAIN first : f[k] = n
  BY <1>3, Zenon DEF InOrder
<1>. PICK D : D = DOMAIN first
  OBVIOUS
<1>10. D \in SUBSET (DOMAIN next \cap Nat)
  BY <1>5, <1>6, <1>7, <1>8
<1>11. \A k \in D : next[k] = first[k]
  BY <1>5, <1>6, <1>7
<1>12. \A k \in D : next[k] = asked[f[k]]
  BY <1>9, <1>11
<1>13. ASSUME NEW k \in DOMAIN next, Prompt(next[k])
       PROVE  k \in D
  <2>1. CASE k <= Len(first)
    BY <1>5, <1>6, <1>7, <1>8, <2>1
  <2>2. CASE ~(k <= Len(first))
    <3>1. k - Len(first) \in DOMAIN second /\ next[k] = second[k - Len(first)]
      BY <1>5, <1>6, <1>7, <1>8, <2>2
    <3>2. Queued(next[k])
      BY <1>6, <3>1 DEF InQueue
    <3>. QED
      BY <1>13, <3>2 DEF Prompt, Queued
  <2>. QED
    BY <2>1, <2>2
<1>14. \A n \in DOMAIN asked : Prompt(asked[n]) => \E k \in D : f[k] = n
  <2>1. ASSUME NEW n \in DOMAIN asked, Prompt(asked[n])
        PROVE  asked[n] \in rest
    BY <2>1 DEF Remaining, InQueue, Queued, Prompt
  <2>. QED
    BY <1>9, <2>1
<1>15. f \in [D -> DOMAIN asked] /\ \A k, l \in D : k < l => f[k] < f[l]
  BY <1>9
<1>16. PromptPlaces(next, asked)
  BY <1>10, <1>12, <1>13, <1>14, <1>15, Zenon DEF PromptPlaces
<1>. QED
  BY <1>7, <1>16

\* What the plan of a pass holds: the retries asked for, each before the launch of its item;
\* word of red CI that was asked for; one launch of each item that goes.
PlansToRun(going) ==
  /\ \A j : Planned("retry", j) =>
       /\ Planned("retry", j)'
       /\ \A n \in DOMAIN plan' : Is(n, "launch", j)' => \E m \in DOMAIN plan' : m < n /\ Is(m, "retry", j)'
  /\ \A j : Planned("notify-ci-failure", j)' => Planned("notify-ci-failure", j)
  /\ \A j : Planned("launch", j)' => j \in going
  /\ \A j : HiresOnce(j)'

\* The launches of a pass are planned behind everything else that is prompt.
LEMMA PassPlans ==
  ASSUME plan \in Seq(Actions), \A j : ~Planned("launch", j), NEW going, going \subseteq Items,
         NEW records, BasesKnown(records), NEW late,
         plan' = Reordered(plan \o LaunchesOf(Filtered(Order, going), records), late)
  PROVE  PlansToRun(going)
<1>1. PICK starting : starting = Filtered(Order, going)
  OBVIOUS
<1>2. PICK launches : launches = LaunchesOf(starting, records)
  OBVIOUS
<1>3. PICK asked : asked = plan \o launches
  OBVIOUS
<1>4. starting \in Seq(Items \cap going) /\ TakenFrom(starting, Order)
  BY <1>1, OrderLists, FilteredPlaces, Zenon
<1>5. /\ starting \in Seq(Items) /\ DOMAIN starting = 1 .. Len(starting)
      /\ \A k \in DOMAIN starting : starting[k] \in going
  BY <1>4, SharedElements, Zenon
<1>6. \A k, l \in DOMAIN starting : starting[k] = starting[l] => k = l
  BY <1>4, OrderLists DEF TakenFrom, Distinct
<1>7. launches \in Seq(Actions)
  BY <1>2, <1>5, LaunchesPlanned
<1>8. /\ DOMAIN launches = DOMAIN starting
      /\ \A k \in DOMAIN launches : launches[k].type = "launch" /\ launches[k].item = starting[k]
  BY <1>2 DEF LaunchesOf, Action
<1>9. /\ asked \in Seq(Actions) /\ Len(asked) = Len(plan) + Len(launches)
      /\ \A m \in 1 .. Len(plan) + Len(launches) :
            asked[m] = IF m <= Len(plan) THEN plan[m] ELSE launches[m - Len(plan)]
  BY <1>3, <1>7, ConcatProperties
<1>10. /\ Len(plan) \in Nat /\ Len(launches) \in Nat /\ DOMAIN plan = 1 .. Len(plan)
       /\ DOMAIN launches = 1 .. Len(launches) /\ DOMAIN asked = 1 .. Len(asked)
  BY <1>7, <1>9, LenProperties
<1>11. \A m \in DOMAIN plan : m \in DOMAIN asked /\ asked[m] = plan[m] /\ m <= Len(plan) /\ m \in Nat
  BY <1>9, <1>10
<1>12. ASSUME NEW m \in DOMAIN asked, m \notin DOMAIN plan
       PROVE  /\ m - Len(plan) \in DOMAIN launches /\ asked[m] = launches[m - Len(plan)]
              /\ m \in Nat /\ ~(m <= Len(plan))
  BY <1>9, <1>10, <1>12
<1>13. PromptPlaces(plan', asked)
  BY <1>1, <1>2, <1>3, <1>9, PromptsStay
<1>14. PICK D \in SUBSET (DOMAIN plan' \cap Nat) : \E f \in [D -> DOMAIN asked] :
         /\ \A k \in D : plan'[k] = asked[f[k]]
         /\ \A k \in DOMAIN plan' : Prompt(plan'[k]) => k \in D
         /\ \A k, l \in D : k < l => f[k] < f[l]
         /\ \A n \in DOMAIN asked : Prompt(asked[n]) => \E k \in D : f[k] = n
  BY <1>13, Zenon DEF PromptPlaces
<1>15. PICK f \in [D -> DOMAIN asked] :
         /\ \A k \in D : plan'[k] = asked[f[k]]
         /\ \A k \in DOMAIN plan' : Prompt(plan'[k]) => k \in D
         /\ \A k, l \in D : k < l => f[k] < f[l]
         /\ \A n \in DOMAIN asked : Prompt(asked[n]) => \E k \in D : f[k] = n
  BY <1>14
<1>16. ASSUME NEW n \in DOMAIN plan', NEW j, Is(n, "launch", j)'
       PROVE  /\ n \in D /\ f[n] \in DOMAIN asked /\ f[n] \notin DOMAIN plan
              /\ f[n] - Len(plan) \in DOMAIN starting /\ starting[f[n] - Len(plan)] = j
              /\ j \in going
  <2>1. n \in D /\ plan'[n] = asked[f[n]] /\ f[n] \in DOMAIN asked
    BY <1>15, <1>16 DEF Is, Prompt
  <2>2. f[n] \notin DOMAIN plan
    BY <1>11, <1>16, <2>1 DEF Planned, Is
  <2>. QED
    BY <1>5, <1>8, <1>12, <1>16, <2>1, <2>2 DEF Is
<1>17. \A j : Planned("launch", j)' => j \in going
  BY <1>16 DEF Planned
<1>18. ASSUME NEW j, NEW m \in DOMAIN plan', NEW n \in DOMAIN plan', Is(m, "launch", j)', Is(n, "launch", j)'
       PROVE  m = n
  <2>1. /\ m \in D /\ n \in D /\ f[m] \in DOMAIN asked /\ f[n] \in DOMAIN asked
        /\ f[m] - Len(plan) = f[n] - Len(plan)
    BY <1>6, <1>16, <1>18
  <2>2. f[m] = f[n] /\ f[m] \in Int
    BY <1>10, <2>1
  <2>3. m \in Int /\ n \in Int
    BY <2>1
  <2>. QED
    BY <1>15, <2>1, <2>2, <2>3
<1>19. \A j : HiresOnce(j)'
  BY <1>18 DEF HiresOnce
<1>20. \A j : Planned("notify-ci-failure", j)' => Planned("notify-ci-failure", j)
  <2>1. ASSUME NEW j, NEW n \in DOMAIN plan', Is(n, "notify-ci-failure", j)'
        PROVE  Planned("notify-ci-failure", j)
    <3>1. n \in D /\ plan'[n] = asked[f[n]] /\ f[n] \in DOMAIN asked
      BY <1>15, <2>1 DEF Is, Prompt
    <3>2. f[n] \in DOMAIN plan
      BY <1>8, <1>12, <2>1, <3>1 DEF Is
    <3>. QED
      BY <1>11, <2>1, <3>1, <3>2 DEF Is, Planned
  <2>. QED
    BY <2>1 DEF Planned
<1>21. ASSUME NEW j, Planned("retry", j)
       PROVE  /\ Planned("retry", j)'
              /\ \A n \in DOMAIN plan' : Is(n, "launch", j)' => \E m \in DOMAIN plan' : m < n /\ Is(m, "retry", j)'
  <2>1. PICK p \in DOMAIN plan : Is(p, "retry", j)
    BY <1>21 DEF Planned
  <2>2. p \in DOMAIN asked /\ asked[p] = plan[p] /\ Prompt(asked[p])
    BY <1>11, <2>1 DEF Is, Prompt
  <2>3. PICK k \in D : f[k] = p
    BY <1>15, <2>2
  <2>4. k \in DOMAIN plan' /\ Is(k, "retry", j)' /\ k \in Int
    BY <1>15, <2>1, <2>2, <2>3 DEF Is
  <2>5. ASSUME NEW n \in DOMAIN plan', Is(n, "launch", j)'
        PROVE  k < n
    <3>1. n \in D /\ f[n] \in DOMAIN asked /\ f[n] \notin DOMAIN plan /\ n \in Int
      BY <1>16, <2>5
    <3>2. p < f[n]
      BY <1>10, <1>11, <1>12, <3>1
    <3>3. k # n /\ ~(n < k)
      <4>1. k # n
        BY <2>3, <3>1
      <4>2. n < k => f[n] < p
        BY <1>15, <2>3, <3>1
      <4>3. p \in Int /\ f[n] \in Int
        BY <1>10, <2>2, <3>1
      <4>. QED
        BY <3>2, <4>1, <4>2, <4>3
    <3>. QED
      BY <2>4, <3>1, <3>3
  <2>6. Planned("retry", j)'
    BY <2>4 DEF Planned
  <2>. QED
    BY <2>4, <2>5, <2>6
<1>. QED
  BY <1>17, <1>19, <1>20, <1>21 DEF PlansToRun

\* Where no item has a launch planned, none is planned at all.
LEMMA NoneLaunched ==
  ASSUME plan \in Seq(Actions), \A j \in Items : ~Planned("launch", j)
  PROVE  \A j : ~Planned("launch", j)
<1>1. \A n \in DOMAIN plan : plan[n].item \in Items
  <2>1. \A n \in DOMAIN plan : plan[n] \in Actions
    BY LenProperties
  <2>. QED
    BY <2>1 DEF Actions
<1>. QED
  BY <1>1 DEF Planned, Is

\* Each action of the plan of a pass was asked for, or launches an item that goes, on the base
\* its record names.
LEMMA PassAsks ==
  ASSUME plan \in Seq(Actions), NEW going, going \subseteq Items,
         NEW records, BasesKnown(records), NEW late,
         plan' = Reordered(plan \o LaunchesOf(Filtered(Order, going), records), late)
  PROVE  \A n \in DOMAIN plan' :
           \/ \E m \in DOMAIN plan : plan'[n] = plan[m]
           \/ \E j \in going : /\ plan'[n].type = "launch" /\ plan'[n].item = j
                               /\ plan'[n].base = records[j].base
<1>. PICK starting : starting = Filtered(Order, going)
  OBVIOUS
<1>. PICK launches : launches = LaunchesOf(starting, records)
  OBVIOUS
<1>. PICK asked : asked = plan \o launches
  OBVIOUS
<1>. PICK rest : rest = Remaining(asked, late) \ InQueue(Remaining(asked, late))
  OBVIOUS
<1>. PICK later : later = InQueue(Remaining(asked, late))
  OBVIOUS
<1>1. PICK first : first = Filtered(asked, rest)
  OBVIOUS
<1>2. PICK second : second = Filtered(asked, later)
  OBVIOUS
<1>3. starting \in Seq(Items) /\ \A k \in DOMAIN starting : starting[k] \in going
  BY OrderLists, FilteredPlaces, SharedElements, Zenon
<1>4. launches \in Seq(Actions)
  BY <1>3, LaunchesPlanned
<1>5. \A k \in DOMAIN launches : \E j \in going :
        launches[k].type = "launch" /\ launches[k].item = j /\ launches[k].base = records[j].base
  BY <1>3 DEF LaunchesOf, Action
<1>6. /\ asked \in Seq(Actions) /\ Len(asked) = Len(plan) + Len(launches)
      /\ \A m \in 1 .. Len(plan) + Len(launches) :
            asked[m] = IF m <= Len(plan) THEN plan[m] ELSE launches[m - Len(plan)]
  BY <1>4, ConcatProperties
<1>7. /\ Len(plan) \in Nat /\ Len(launches) \in Nat /\ DOMAIN plan = 1 .. Len(plan)
      /\ DOMAIN launches = 1 .. Len(launches) /\ DOMAIN asked = 1 .. Len(asked)
  BY <1>4, <1>6, LenProperties
<1>8. ASSUME NEW m \in DOMAIN asked
      PROVE  \/ \E k \in DOMAIN plan : asked[m] = plan[k]
             \/ \E k \in DOMAIN launches : asked[m] = launches[k]
  <2>1. CASE m <= Len(plan)
    BY <1>6, <1>7, <2>1
  <2>2. CASE ~(m <= Len(plan))
    <3>1. m - Len(plan) \in DOMAIN launches /\ asked[m] = launches[m - Len(plan)]
      BY <1>6, <1>7, <2>2
    <3>. QED
      BY <3>1
  <2>. QED
    BY <2>1, <2>2
<1>9. TakenFrom(first, asked) /\ TakenFrom(second, asked)
  BY <1>1, <1>2, <1>6, FilteredPlaces
<1>10. /\ \A k \in DOMAIN first : \E m \in DOMAIN asked : first[k] = asked[m]
       /\ \A k \in DOMAIN second : \E m \in DOMAIN asked : second[k] = asked[m]
  BY <1>9 DEF TakenFrom
<1>11. first \in Seq(Actions) /\ second \in Seq(Actions)
  <2>1. first \in Seq(Actions \cap rest) /\ second \in Seq(Actions \cap later)
    BY <1>1, <1>2, <1>6, FilteredPlaces
  <2>. QED
    BY <2>1, SharedElements, Zenon
<1>12. /\ plan' \in Seq(Actions) /\ Len(plan') = Len(first) + Len(second)
       /\ \A m \in 1 .. Len(first) + Len(second) :
             plan'[m] = IF m <= Len(first) THEN first[m] ELSE second[m - Len(first)]
  <2>1. plan' = first \o second
    BY <1>1, <1>2, Zenon DEF Reordered
  <2>. QED
    BY <1>11, <2>1, ConcatProperties
<1>13. /\ Len(first) \in Nat /\ Len(second) \in Nat /\ DOMAIN first = 1 .. Len(first)
       /\ DOMAIN second = 1 .. Len(second) /\ DOMAIN plan' = 1 .. Len(plan')
  BY <1>11, <1>12, LenProperties
<1>14. ASSUME NEW n \in DOMAIN plan'
       PROVE  \E m \in DOMAIN asked : plan'[n] = asked[m]
  <2>1. CASE n <= Len(first)
    BY <1>10, <1>12, <1>13, <2>1
  <2>2. CASE ~(n <= Len(first))
    <3>1. n - Len(first) \in DOMAIN second /\ plan'[n] = second[n - Len(first)]
      BY <1>12, <1>13, <2>2
    <3>. QED
      BY <1>10, <3>1
  <2>. QED
    BY <2>1, <2>2
<1>15. ASSUME NEW n \in DOMAIN plan'
       PROVE  \/ \E k \in DOMAIN plan : plan'[n] = plan[k]
              \/ \E k \in DOMAIN launches : plan'[n] = launches[k]
  BY <1>8, <1>14
<1>. QED
  BY <1>5, <1>15

---------------------------------------------------------------------------
(* The end of a pass keeps the items staffed *)

\* A record that keeps its sessions and its helpers.
Retains(x, y) == Shape(y) /\ y.pr = x.pr /\ SameSession(x, y) /\ SameHelpers(x, y)

\* A move keeps them, and parks nobody.
LEMMA MovedStays ==
  ASSUME NEW it, Shape(it), NEW to, to \in Successors(it.state)
  PROVE  /\ Retains(it, Moved(it, to)) /\ Moved(it, to).base = it.base
         /\ Moved(it, to).state = to /\ (Moved(it, to).parked => it.parked /\ it.state = to)
<1>. PICK y : y = Moved(it, to)
  OBVIOUS
<1>1. Shape(y)
  BY ZenonT(40) DEF Moved, Shape
<1>2. CASE it.state = to
  BY <1>1, <1>2 DEF Moved, Retains, SameSession, SameHelpers
<1>3. CASE it.state # to
  <2>1. /\ y.state = to /\ y.parked = FALSE /\ y.ws = it.ws /\ y.retryWs = it.retryWs
        /\ y.base = it.base /\ y.pr = it.pr
        /\ y.reviewWs = it.reviewWs /\ y.rebaserWs = it.rebaserWs /\ y.fixWs = it.fixWs
    BY <1>3 DEF Moved, Shape, Fields
  <2>. QED
    BY <1>1, <2>1 DEF Retains, SameSession, SameHelpers
<1>. QED
  BY <1>2, <1>3

\* What may be promoted.
Promotable(j) == j \in readyIds \/ StackBases(item, j) # {}

\* Nobody is left to work on it: it waits for nothing that is stuck.
LEMMA PromotableFreed ==
  ASSUME NEW j \in Items, Staffed(j), item[j].state = "queued", Promotable(j)
  PROVE  Freed(j)
<1>1. ASSUME NEW d \in Deps[j], item[d].state = "stuck"
      PROVE  FALSE
  <2>1. ~Satisfied(item[d])
    BY <1>1 DEF Satisfied
  <2>2. j \notin readyIds
    BY <2>1 DEF ReadyNow, Staffed
  <2>3. PICK b \in StackBases(item, j) : TRUE
    BY <2>2 DEF Promotable
  <2>4. Unfinished(item, j) = {b} /\ item[b].state \in StackableStates
    BY <2>3 DEF StackBases
  <2>5. d = b
    BY <2>1, <2>4 DEF Unfinished
  <2>. QED
    BY <1>1, <2>4, <2>5 DEF StackableStates
<1>. QED
  BY <1>1 DEF Waiting, Staffed

\* A record with another base is one of its shape.
LEMMA BasedShape == ASSUME NEW it, Shape(it), NEW b PROVE Shape(WithBase(it, b))
  BY Zenon DEF Shape, WithBase

\* The base a pass gives an item: the one it had, or one to be stacked on.
BasedTo(j, x) ==
  \/ /\ x.base = item[j].base
     /\ item[j].state = "queued" /\ x.state # "queued" => j \in readyIds
  \/ item[j].state = "queued" /\ x.state # "queued" /\ x.base \in StackBases(item, j)

\* The record a pass promotes.
LEMMA PromotedStays ==
  ASSUME NEW j \in Items, Shape(item[j]), NEW p, p = Promoted(item)[j]
  PROVE  /\ Retains(item[j], p) /\ BasedTo(j, p)
         /\ \/ p = item[j]
            \/ item[j].state = "queued" /\ Promotable(j) /\ p.state = "ready" /\ ~p.parked
<1>. PICK it : it = item[j]
  OBVIOUS
<1>. PICK x : x = Moved(it, "ready")
  OBVIOUS
<1>. PICK d : d = CHOOSE b \in StackBases(item, j) : TRUE
  OBVIOUS
<1>. PICK y : y = WithBase(x, d)
  OBVIOUS
<1>1. \/ p = it
      \/ it.state = "queued" /\ j \in readyIds /\ p = x
      \/ it.state = "queued" /\ StackBases(item, j) # {} /\ p = y
  BY DEF Promoted, WithBase
<1>2. CASE p = it
  BY <1>2 DEF Retains, SameSession, SameHelpers, BasedTo
<1>3. CASE it.state = "queued"
  <2>1. "ready" \in Successors(it.state)
    BY <1>3 DEF Successors
  <2>2. /\ Retains(it, x) /\ x.base = it.base /\ x.state = "ready"
        /\ (x.parked => it.parked /\ it.state = "ready")
    BY <2>1, MovedStays
  <2>3. ~x.parked
    BY <1>3, <2>2
  <2>4. Shape(y)
    BY <2>2, BasedShape DEF Retains
  <2>5. /\ y.state = "ready" /\ ~y.parked /\ y.base = d /\ Retains(it, y)
    BY <2>2, <2>3, <2>4 DEF WithBase, Shape, Fields, Retains, SameSession, SameHelpers
  <2>6. StackBases(item, j) # {} => d \in StackBases(item, j)
    OBVIOUS
  <2>7. CASE j \in readyIds /\ p = x
    BY <1>3, <2>2, <2>3, <2>7 DEF Promotable, BasedTo
  <2>8. CASE StackBases(item, j) # {} /\ p = y
    BY <1>3, <2>5, <2>6, <2>8 DEF Promotable, BasedTo
  <2>. QED
    BY <1>1, <1>2, <2>7, <2>8
<1>. QED
  BY <1>1, <1>2, <1>3

\* Such a base is one of its dependencies, or the one it had.
LEMMA BasedOnDeps ==
  ASSUME NEW j, NEW x, BasedTo(j, x)
  PROVE  x.base \in {item[j].base} \cup Deps[j]
  BY DEF BasedTo, StackBases

\* What a pass makes of a record.
ScheduledTo(j, going, x) ==
  /\ Retains(item[j], x) /\ BasedTo(j, x)
  /\ \/ x.state = item[j].state
     \/ item[j].state \in {"queued", "ready"} /\ x.state \in {"ready", "launching"}
     \/ item[j].state = "merging" /\ x.state = "ci-passed"
  /\ ParkedRightly(item[j]) => ParkedRightly(x)
  /\ IF j \in going
     THEN x.state = "launching" /\ (item[j].state = "ready" \/ (item[j].state = "queued" /\ Promotable(j)))
     ELSE /\ x.state = "queued" => item[j].state = "queued"
          /\ x.state = "ready" => \/ item[j].state = "ready"
                                  \/ item[j].state = "queued" /\ Promotable(j)

\* Promotion, launch or the merge put off.
LEMMA ScheduledStays ==
  ASSUME NEW going, Goes(going), NEW late, PutOff(late), NEW j \in Items, Shape(item[j]), NEW x,
         x = ScheduledFrom(going, late)[j]
  PROVE  ScheduledTo(j, going, x)
<1>. USE DEF Goes, PutOff
<1>. PICK p : p = Promoted(item)[j]
  OBVIOUS
<1>. PICK l : l = LaunchedFrom(going)[j]
  OBVIOUS
<1>1. /\ Retains(item[j], p) /\ BasedTo(j, p)
      /\ \/ p = item[j]
         \/ item[j].state = "queued" /\ Promotable(j) /\ p.state = "ready" /\ ~p.parked
  BY PromotedStays
<1>2. l = IF j \in going THEN Moved(p, "launching") ELSE p
  BY DEF LaunchedFrom
<1>3. x = IF j \in late THEN Moved(l, "ci-passed") ELSE l
  BY DEF ScheduledFrom
<1>4. CASE j \in going
  <2>1. p.state = "ready" /\ j \notin late
    BY <1>1, <1>4
  <2>2. x = Moved(p, "launching") /\ "launching" \in Successors(p.state) /\ Shape(p)
    BY <1>1, <1>2, <1>3, <1>4, <2>1 DEF Successors, Retains
  <2>3. /\ Retains(p, x) /\ x.base = p.base /\ x.state = "launching"
        /\ (x.parked => p.parked /\ p.state = "launching")
    BY <2>2, MovedStays
  <2>4. Retains(item[j], x) /\ ~x.parked
    BY <1>1, <2>1, <2>3 DEF Retains, SameSession, SameHelpers
  <2>. QED
    BY <1>1, <1>4, <2>1, <2>3, <2>4 DEF ScheduledTo, BasedTo, ParkedRightly
<1>5. CASE j \notin going /\ j \in late
  <2>1. item[j].state = "merging" /\ p = item[j] /\ x = Moved(p, "ci-passed") /\ Shape(p)
    BY <1>1, <1>2, <1>3, <1>5
  <2>2. "ci-passed" \in Successors(p.state)
    BY <2>1 DEF Successors
  <2>3. /\ Retains(p, x) /\ x.base = p.base /\ x.state = "ci-passed"
        /\ (x.parked => p.parked /\ p.state = "ci-passed")
    BY <2>1, <2>2, MovedStays
  <2>. QED
    BY <1>5, <2>1, <2>3 DEF ScheduledTo, BasedTo, ParkedRightly
<1>6. CASE j \notin going /\ j \notin late
  <2>1. x = p
    BY <1>2, <1>3, <1>6
  <2>. QED
    BY <1>1, <1>6, <2>1 DEF ScheduledTo, BasedTo, ParkedRightly
<1>. QED
  BY <1>4, <1>5, <1>6

\* A pass ends, and the loop goes on to its actions, or to sleep.
Ending(going) ==
  /\ phase = "schedule" /\ phase' \in {"act", "idle"}
  /\ DOMAIN plan' # {} => phase' = "act"
  /\ UNCHANGED <<live, tree>> /\ readyIds' = {}
  /\ PlansToRun(going)

\* Each item stays staffed.
LEMMA EndedStaffed ==
  ASSUME NEW going, Ending(going), WorldOK', StuckStays, NEW j \in Items, Staffed(j),
         NEW x, ScheduledTo(j, going, x), SameStation(x, item'[j])
  PROVE  Staffed(j)'
<1>1. /\ item'[j].retryWs = item[j].retryWs /\ item'[j].ws = item[j].ws
      /\ item'[j].base \in {item[j].base} \cup Deps[j]
      /\ ParkedRightly(item'[j]) /\ item'[j].state = x.state
  BY BasedOnDeps DEF ScheduledTo, SameStation, Retains, SameSession, ParkedRightly, Staffed
<1>2. live' = live /\ tree' = tree /\ phase # "act"
      /\ \A t : Planned(t, j)' => phase' = "act"
  BY DEF Ending, Planned
<1>3. (Freed(j) => Freed(j)') /\ Backed(j)'
  BY <1>1, <1>2 DEF Freed, Backed, Ref, Staffed
<1>4. item[j].state = "ready" \/ (item[j].state = "queued" /\ Promotable(j)) => Freed(j)
  BY PromotableFreed DEF Vacant, Staffed
<1>5. Retiring(j)' /\ RetiresFirst(j)'
  <2>1. CASE item'[j].retryWs = 0
    BY <2>1 DEF Retiring, RetiresFirst
  <2>2. CASE item'[j].retryWs # 0
    <3>1. Planned("retry", j)
      BY <1>1, <2>2 DEF Retiring, Staffed
    <3>2. /\ Planned("retry", j)'
          /\ \A n \in DOMAIN plan' : Is(n, "launch", j)' => \E m \in DOMAIN plan' : m < n /\ Is(m, "retry", j)'
      BY <3>1 DEF Ending, PlansToRun
    <3>. QED
      BY <1>2, <3>2 DEF Retiring, RetiresFirst
  <2>. QED
    BY <2>1, <2>2
<1>6. Hiring(j)'
  <2>1. ASSUME Planned("launch", j)'
        PROVE  /\ phase' = "act" /\ Freed(j)' /\ item'[j].state \notin {"ready", "queued"}
               /\ ~Planned("notify-ci-failure", j)'
    <3>1. j \in going
      BY <2>1 DEF Ending, PlansToRun
    <3>2. /\ x.state = "launching"
          /\ item[j].state = "ready" \/ (item[j].state = "queued" /\ Promotable(j))
      BY <3>1 DEF ScheduledTo
    <3>3. ~Planned("notify-ci-failure", j)
      BY <1>2, <3>2 DEF Told, Staffed
    <3>4. ~Planned("notify-ci-failure", j)'
      BY <3>3 DEF Ending, PlansToRun
    <3>. QED
      BY <1>1, <1>2, <1>3, <1>4, <2>1, <3>2, <3>4
  <2>. QED
    BY <2>1 DEF Hiring
<1>7. HiresOnce(j)'
  BY DEF Ending, PlansToRun
<1>8. Told(j)' /\ ReadyNow(j)'
  BY <1>2 DEF Told, ReadyNow, Ending
<1>9. Vacant(j)'
  BY <1>1, <1>2, <1>3, <1>4 DEF Vacant, ScheduledTo, Staffed
<1>10. Stacked(j)'
  BY <1>1 DEF Stacked, Staffed
<1>11. Waiting(j)'
  <2>1. item'[j].state = "queued" => item[j].state = "queued"
    BY <1>1 DEF ScheduledTo
  <2>. QED
    BY <1>3, <2>1, StillWaiting DEF Staffed
<1>. QED
  BY <1>1, <1>3, <1>5, <1>6, <1>7, <1>8, <1>9, <1>10, <1>11 DEF Staffed

\* What the end of a pass makes of the records and the plan.
Ends(going, launched, late, records) ==
  /\ phase = "schedule" /\ going \subseteq Items
  /\ phase' = IF Threw(records) THEN "crashed" ELSE IF plan' = <<>> THEN "idle" ELSE "act"
  /\ BasesKnown(launched)
  /\ plan \in Seq(Actions)
  /\ plan' = Reordered(plan \o LaunchesOf(Filtered(Order, going), launched), late)
  /\ \A j \in Items : /\ ScheduledTo(j, going, records[j]) /\ records[j].base = launched[j].base
                      /\ Spared(records[j], item'[j])
  /\ snaps' = [i \in Items |-> NoSnapshot] /\ readyIds' = {} /\ UNCHANGED world

\* The end of a pass.
LEMMA ScheduleEnds ==
  ASSUME NEW on \in BOOLEAN, Inv(on), Schedule
  PROVE  \E going, launched, late, records : Ends(going, launched, late, records)
<1>. USE DEF Inv
<1>. DEFINE promoted == Promoted(item)
            going    == Launchable(promoted)
            launched == [i \in Items |-> IF i \in going THEN Moved(promoted[i], "launching") ELSE promoted[i]]
            starting == Filtered(Order, going)
            launches == [n \in DOMAIN starting |->
                           [Action("launch", starting[n]) EXCEPT !.base = launched[starting[n]].base]]
            late     == Deferred(launched)
            records  == [i \in Items |-> IF i \in late THEN Moved(launched[i], "ci-passed") ELSE launched[i]]
            asked    == plan \o launches
            kept     == {a \in {asked[n] : n \in DOMAIN asked} : ~(a.type = "merge" /\ a.item \in late)}
            later    == {a \in kept : Queued(a)}
<1>1. /\ phase = "schedule" /\ Commit(records)
      /\ plan' = Filtered(asked, kept \ later) \o Filtered(asked, later)
      /\ phase' = IF Threw(records) THEN "crashed" ELSE IF plan' = <<>> THEN "idle" ELSE "act"
      /\ snaps' = [i \in Items |-> NoSnapshot] /\ readyIds' = {}
      /\ UNCHANGED world
  BY Zenon DEF Schedule
<1>2. plan' = Reordered(plan \o launches, late)
  <2>1. kept = Remaining(asked, late) /\ later = InQueue(kept)
    BY Zenon DEF Remaining, InQueue
  <2>. QED
    BY <1>1, <2>1, Zenon DEF Reordered
<1>3. launches = LaunchesOf(starting, launched)
  BY Zenon DEF LaunchesOf
<1>4. launched = LaunchedFrom(going)
  BY Zenon DEF LaunchedFrom
<1>5. records = ScheduledFrom(going, late)
  BY <1>4, Zenon DEF ScheduledFrom
<1>6. Goes(going) /\ going \subseteq Items
  BY DEF Launchable, Goes
<1>7. late \subseteq Merging(plan)
  BY DEF Deferred
<1>8. starting = Filtered(Order, going)
  OBVIOUS
<1>. HIDE DEF promoted, going, launched, starting, launches, late, records, asked, kept, later
<1>9. /\ plan \in Seq(Actions)
      /\ \A i \in Items, n \in DOMAIN plan : IsMerge(plan[n], i) => item[i].state = "merging"
  BY <1>1 DEF PlanOK, MergePlanned
<1>10. PutOff(late)
  <2>1. \A n \in DOMAIN plan : plan[n] \in Actions
    BY <1>9, LenProperties
  <2>2. ASSUME NEW j \in late
        PROVE  j \in Items /\ item[j].state = "merging"
    <3>1. PICK n \in DOMAIN plan : plan[n].type = "merge" /\ plan[n].item = j
      BY <1>7 DEF Merging
    <3>2. j \in Items /\ IsMerge(plan[n], j)
      BY <2>1, <3>1 DEF IsMerge, Actions
    <3>. QED
      BY <1>9, <3>2
  <2>. QED
    BY <2>2 DEF PutOff
<1>11. ASSUME NEW j \in Items
       PROVE  Shape(item[j]) /\ ScheduledTo(j, going, records[j]) /\ Spared(records[j], item'[j])
  <2>1. Shape(item[j])
    BY DEF ItemsFit, Fit
  <2>2. ScheduledTo(j, going, records[j])
    BY <1>5, <1>6, <1>10, <2>1, ScheduledStays
  <2>. QED
    BY <1>1, <2>1, <2>2, CommitSpares DEF ScheduledTo, Retains
<1>12. ASSUME NEW j \in Items
       PROVE  launched[j].base \in Items \cup {NoItem} /\ records[j].base = launched[j].base
  <2>1. launched[j] = ScheduledFrom(going, {})[j]
    BY <1>4 DEF ScheduledFrom, LaunchedFrom
  <2>2. ScheduledTo(j, going, launched[j])
    BY <1>6, <1>11, <2>1, ScheduledStays DEF PutOff
  <2>3. launched[j].base \in {item[j].base} \cup Deps[j] /\ Deps[j] \subseteq Items
    BY <2>2, BasedOnDeps, ExecutorAssumption DEF ScheduledTo
  <2>4. launched[j].base \in Items \cup {NoItem}
    BY <2>3 DEF ItemsFit, Fit, Typed
  <2>5. Moved(launched[j], "ci-passed").base = launched[j].base
    BY <2>2 DEF ScheduledTo, Retains, Moved, Shape, Fields
  <2>6. records[j] = Moved(launched[j], "ci-passed") \/ records[j] = launched[j]
    BY <1>4, <1>5 DEF ScheduledFrom
  <2>. QED
    BY <2>4, <2>5, <2>6
<1>13. BasesKnown(launched)
  BY <1>12 DEF BasesKnown
<1>14. Ends(going, launched, late, records)
  BY <1>1, <1>2, <1>3, <1>6, <1>8, <1>9, <1>11, <1>12, <1>13 DEF Ends
<1>. QED
  BY <1>14

\* A pass ends: all stay staffed, and helpers in reach.
LEMMA ScheduleStaffs ==
  ASSUME NEW on \in BOOLEAN, Inv(on), WorldOK', Staffing, HelpersInReach, Schedule
  PROVE  Staffing' /\ HelpersInReach'
<1>1. PICK going, launched, late, records : Ends(going, launched, late, records)
  BY ScheduleEnds
<1>. USE DEF Ends
<1>2. UNCHANGED <<live, tree, helper>>
  BY <1>1 DEF world
<1>3. HelpersInReach'
  <2>1. \A j \in Items : HelpersStay(j)
    BY <1>1, <1>2 DEF HelpersStay, SameHelpers, ScheduledTo, Retains, Spared
  <2>. QED
    BY <2>1, StayInReach
<1>4. \A j \in Items : Sole(j)'
  BY <1>2 DEF Staffing, Sole
<1>5. \A j \in Items : Staffed(j)
  BY <1>1 DEF Staffing
<1>6. \A j \in Items : ~Planned("launch", j)
  BY <1>1, <1>5 DEF Staffed, Hiring
<1>7. PlansToRun(going)
  BY <1>1, <1>6, NoneLaunched, PassPlans
<1>8. ASSUME phase' # "crashed"
      PROVE  \A j \in Items : Staffed(j)'
  <2>1. DOMAIN plan' # {} => plan' # <<>>
    OBVIOUS
  <2>2. Ending(going)
    BY <1>1, <1>2, <1>7, <1>8, <2>1 DEF Ending
  <2>3. ASSUME NEW j \in Items
        PROVE  SameStation(records[j], item'[j]) /\ (item[j].state = "stuck" => item'[j].state = "stuck")
    BY <1>1 DEF Spared, SameStation, ScheduledTo
  <2>4. StuckStays
    BY <2>3 DEF StuckStays
  <2>. QED
    BY <1>1, <1>5, <2>2, <2>3, <2>4, EndedStaffed
<1>. QED
  BY <1>3, <1>4, <1>8 DEF Staffing

---------------------------------------------------------------------------
(* The steps that leave the items staffed as they are *)

\* What the poll writes on a record leaves it where it stands.
LEMMA PollsStay ==
  ASSUME NEW on \in BOOLEAN, ItemsFit(on), item' = [j \in Items |-> Polls(j)], NEW j \in Items
  PROVE  SameStation(item[j], item'[j]) /\ SameHelpers(item[j], item'[j])
<1>. DEFINE c == IF item[j].state \in {"launching", "implementing", "ci-failed"}
                 THEN Branch(j) ELSE item[j].lastCommit
            m == item[j].mergeSha \/ (Polled(j) /\ (item[j].state = "merged" \/ snaps'[j].pr = "merged")
                                      /\ Found(j) = "merged")
<1>1. item'[j] = Polls(j) /\ Polls(j) = PolledOn(item[j], c, m)
  BY DEF Polls, PolledOn
<1>. HIDE DEF c, m
<1>2. Shape(item[j])
  BY DEF ItemsFit, Fit
<1>. QED
  BY <1>1, <1>2 DEF PolledOn, Shape, Fields, SameStation, SameHelpers

\* The start of a cycle touches no session; what it finds to promote has its dependencies.
LEMMA StartCycleStaffs ==
  ASSUME NEW on \in BOOLEAN, Inv(on), WorldOK', Staffing, HelpersInReach, StartCycle
  PROVE  Staffing' /\ HelpersInReach'
<1>. USE DEF Inv
<1>1. /\ phase = "idle" /\ phase' = "poll" /\ plan = <<>> /\ plan' = <<>>
      /\ item' = [j \in Items |-> Polls(j)]
      /\ readyIds' = {i \in Items : item[i].state = "queued" /\ \A d \in Deps[i] : Satisfied(item[d])}
      /\ UNCHANGED <<live, helper, tree>>
  BY DEF StartCycle, PlanOK
<1>2. \A j \in Items : SameStation(item[j], item'[j]) /\ SameHelpers(item[j], item'[j])
  BY <1>1, PollsStay
<1>3. HelpersInReach'
  BY <1>1, <1>2, StayInReach DEF HelpersStay
<1>4. \A t, j : ~Planned(t, j) /\ ~Planned(t, j)'
  BY <1>1 DEF Planned
<1>5. ASSUME NEW j \in Items
      PROVE  /\ (Freed(j) => Freed(j)') /\ (Backed(j) => Backed(j)')
             /\ Sole(j) => Sole(j)'
             /\ item'[j].state = item[j].state /\ item'[j].retryWs = item[j].retryWs
             /\ item'[j].base = item[j].base /\ item'[j].parked = item[j].parked
             /\ Satisfied(item[j]) => Satisfied(item'[j])
  BY <1>1, <1>2 DEF SameStation, Freed, Backed, Ref, Sole, Satisfied
<1>6. \A j \in Items : Deps[j] \subseteq Items
  BY ExecutorAssumption
<1>7. ASSUME NEW j \in Items, Staffed(j)
      PROVE  Staffed(j)'
  <2>. USE DEF Staffed
  <2>1. item[j].retryWs = 0
    BY <1>4, <1>7 DEF Retiring
  <2>2. Backed(j)' /\ Retiring(j)' /\ Hiring(j)'
    BY <1>4, <1>5, <1>7, <2>1 DEF Retiring, Hiring
  <2>3. HiresOnce(j)' /\ RetiresFirst(j)'
    BY <1>1, <1>5, <2>1 DEF HiresOnce, RetiresFirst
  <2>4. Vacant(j)' /\ Told(j)' /\ ParkedRightly(item'[j])
    BY <1>1, <1>4, <1>5, <1>7 DEF Vacant, Told, ParkedRightly
  <2>5. Waiting(j)' /\ Stacked(j)'
    BY <1>5, <1>6, <1>7 DEF Waiting, Stacked
  <2>6. ReadyNow(j)'
    BY <1>1, <1>5, <1>6 DEF ReadyNow
  <2>. QED
    BY <2>2, <2>3, <2>4, <2>5, <2>6
<1>. QED
  BY <1>1, <1>3, <1>5, <1>7 DEF Staffing

\* What the world does beside the loop ends a session or a helper, and starts none.
LEMMA WorldStartsNone ==
  ASSUME WorldOK, NEW i \in Items, World(i)
  PROVE  /\ UNCHANGED <<item, control, tree>>
         /\ \A j \in Items : live'[j] \subseteq live[j] /\ helper'[j] \subseteq helper[j]
<1>1. UNCHANGED <<item, control>> /\ WorldStep(i)
  BY DEF World
<1>2. UNCHANGED tree /\ \A j \in Items : live'[j] \subseteq live[j] /\ helper'[j] \subseteq helper[j]
  <2>1. CASE SessionDies(i)
    <3>1. UNCHANGED <<tree, helper>> /\ \E s \in live[i] : live' = [live EXCEPT ![i] = @ \ {s}]
      BY <2>1 DEF SessionDies
    <3>. QED
      BY <3>1 DEF WorldOK, WorldTypeOK
  <2>2. CASE HelperDies(i)
    <3>1. UNCHANGED <<tree, live>> /\ \E h \in helper[i] : helper' = [helper EXCEPT ![i] = @ \ {h}]
      BY <2>2 DEF HelperDies
    <3>. QED
      BY <3>1 DEF WorldOK, WorldTypeOK
  <2>3. CASE \/ WorkerPushes(i, item[i].base) \/ WorkerReads(i) \/ WorkerSignals(i)
             \/ ReviewerDecides(i) \/ RebaserPushes(i) \/ FixerOpensPullRequest(i)
             \/ PriorPullRequest(i) \/ GithubRetargets(i) \/ CiPasses(i) \/ CiFails(i)
             \/ MainCiPasses(i) \/ MainCiFails(i) \/ Conflicts(i)
             \/ HumanApproves(i) \/ HumanMerges(i) \/ HumanComments(i)
    <3>1. UNCHANGED <<tree, live, helper>>
      BY <2>3, Zenon DEF WorkerPushes, WorkerReads, WorkerSignals, ReviewerDecides, RebaserPushes,
         FixerOpensPullRequest, PriorPullRequest, GithubRetargets, CiPasses, CiFails, MainCiPasses,
         MainCiFails, Conflicts, HumanApproves, HumanMerges, HumanComments
    <3>. QED
      BY <3>1
  <2>. QED
    BY <1>1, <2>1, <2>2, <2>3 DEF WorldStep
<1>. QED
  BY <1>1, <1>2

\* So all stay staffed, and helpers in reach.
LEMMA WorldStaffs ==
  ASSUME Staffing, HelpersInReach, WorldOK, NEW i \in Items, World(i)
  PROVE  Staffing' /\ HelpersInReach'
<1>1. UNCHANGED <<item, control>>
  BY WorldStartsNone
<1>2. UNCHANGED tree /\ \A j \in Items : live'[j] \subseteq live[j] /\ helper'[j] \subseteq helper[j]
  BY WorldStartsNone
<1>3. Idles
  BY <1>1, <1>2 DEF Idles, control, SameStation
<1>4. \A j \in Items : HelpersStay(j)
  BY <1>1, <1>2 DEF HelpersStay, SameHelpers
<1>. QED
  BY <1>3, <1>4, IdlesStaffs, StayInReach

\* What the operator does, and a batch that comes due, leaves the records where they stand.
LEMMA ControlStations ==
  ASSUME NEW on \in BOOLEAN, Inv(on), Operator \/ \E i \in Items : BatchComesDue(i)
  PROVE  \A j \in Items : SameStation(item[j], item'[j]) /\ SameHelpers(item[j], item'[j])
<1>. USE DEF Inv
<1>1. \A j \in Items : Shape(item[j])
  BY DEF ItemsFit, Fit
<1>2. ASSUME NEW j \in Items
      PROVE  SameStation(item[j], item'[j]) /\ SameHelpers(item[j], item'[j])
  <2>1. CASE UNCHANGED item
    BY <2>1 DEF SameStation, SameHelpers
  <2>2. CASE SetSkipReview
    <3>1. \E b : item'[j] = [item[j] EXCEPT !.reviewed = b]
      BY <2>2 DEF SetSkipReview
    <3>. QED
      BY <1>1, <3>1 DEF Shape, Fields, SameStation, SameHelpers
  <2>3. ASSUME NEW i \in Items, BatchComesDue(i)
        PROVE  SameStation(item[j], item'[j]) /\ SameHelpers(item[j], item'[j])
    <3>1. item' = [item EXCEPT ![i].due = TRUE]
      BY <2>3 DEF BatchComesDue
    <3>2. item \in [Items -> {item[k] : k \in Items}]
      BY DEF ItemsFit
    <3>. QED
      BY <1>1, <3>1, <3>2 DEF Shape, Fields, SameStation, SameHelpers
  <2>. QED
    BY <2>1, <2>2, <2>3 DEF Operator, SetMergeStrategy, ToggleAcceptingWork, SetMaxInflight
<1>. QED
  BY <1>2

\* Neither touches a session.
LEMMA ControlStaffs ==
  ASSUME NEW on \in BOOLEAN, Inv(on), Staffing, HelpersInReach,
         Operator \/ \E i \in Items : BatchComesDue(i)
  PROVE  Staffing' /\ HelpersInReach'
<1>1. UNCHANGED <<phase, plan, readyIds, tree, live, helper>>
  BY DEF Operator, SetMergeStrategy, SetSkipReview, ToggleAcceptingWork, SetMaxInflight, BatchComesDue,
     control, world
<1>2. \A j \in Items : SameStation(item[j], item'[j]) /\ SameHelpers(item[j], item'[j])
  BY ControlStations
<1>3. Idles
  BY <1>1, <1>2 DEF Idles
<1>4. \A j \in Items : HelpersStay(j)
  BY <1>1, <1>2 DEF HelpersStay
<1>. QED
  BY <1>3, <1>4, IdlesStaffs, StayInReach

\* Nothing changes.
LEMMA StutterStaffs ==
  ASSUME Staffing, HelpersInReach, UNCHANGED vars
  PROVE  Staffing' /\ HelpersInReach'
<1>1. Idles /\ \A j \in Items : HelpersStay(j)
  BY DEF vars, control, world, Idles, HelpersStay, SameStation, SameHelpers
<1>. QED
  BY <1>1, IdlesStaffs, StayInReach

\* Before anything runs, nobody works.
LEMMA InitStaffs ==
  ASSUME Init
  PROVE  Staffing /\ HelpersInReach
<1>1. \A i \in Items : item[i] = NewItem /\ live[i] = {} /\ helper[i] = {}
  BY DEF Init, WorldInit
<1>2. plan = <<>> /\ readyIds = {}
  BY DEF Init
<1>3. \A t, j : ~Planned(t, j)
  BY <1>2 DEF Planned
<1>4. NewItem.retryWs = 0 /\ NewItem.base = NoItem /\ NewItem.parked = FALSE
  BY DEF NewItem
<1>5. ASSUME NEW j \in Items
      PROVE  Staffed(j) /\ Sole(j)
  <2>1. Freed(j) /\ Backed(j) /\ Sole(j)
    BY <1>1 DEF Freed, Backed, Sole
  <2>2. Retiring(j) /\ Hiring(j) /\ HiresOnce(j) /\ RetiresFirst(j)
    BY <1>1, <1>2, <1>3, <1>4 DEF Retiring, Hiring, HiresOnce, RetiresFirst
  <2>3. Vacant(j) /\ Told(j) /\ ParkedRightly(item[j]) /\ Waiting(j) /\ Stacked(j) /\ ReadyNow(j)
    BY <1>1, <1>2, <1>3, <1>4, <2>1 DEF Vacant, Told, ParkedRightly, Waiting, Stacked, ReadyNow
  <2>. QED
    BY <2>1, <2>2, <2>3 DEF Staffed
<1>6. HelpersInReach
  BY <1>1 DEF HelpersInReach
<1>. QED
  BY <1>5, <1>6 DEF Staffing

---------------------------------------------------------------------------
(* Where every session that is to close does close *)

\* A step of the whole program.
LEMMA NextStaffs ==
  ASSUME "close-failure" \notin Events, Inv(FALSE), Staffing, HelpersInReach, Next, WorldOK'
  PROVE  Staffing' /\ HelpersInReach'
<1>1. CASE StartCycle
  BY <1>1, StartCycleStaffs
<1>2. CASE Poll
  BY <1>2, SurveyStaffs
<1>3. CASE Reevaluate
  BY <1>3, SurveyStaffs
<1>4. CASE Schedule
  BY <1>4, ScheduleStaffs
<1>5. CASE Act
  BY <1>5, ActStaffs
<1>6. CASE Operator
  BY <1>6, ControlStaffs
<1>7. ASSUME NEW i \in Items, BatchComesDue(i)
      PROVE  Staffing' /\ HelpersInReach'
  BY <1>7, ControlStaffs
<1>8. ASSUME NEW i \in Items, World(i)
      PROVE  Staffing' /\ HelpersInReach'
  BY <1>8, WorldStaffs DEF Inv
<1>. QED
  BY <1>1, <1>2, <1>3, <1>4, <1>5, <1>6, <1>7, <1>8 DEF Next, Cycle

\* The items stay staffed, and the helpers in reach.
LEMMA StaffedAlways ==
  ASSUME "close-failure" \notin Events
  PROVE  Spec => [](Staffing /\ HelpersInReach)
<1>1. Init => Staffing /\ HelpersInReach
  BY InitStaffs
<1>2. Inv(FALSE) => WorldOK
  BY DEF Inv
<1>3. Inv(FALSE) /\ WorldOK' /\ Staffing /\ HelpersInReach /\ [Next]_vars => (Staffing /\ HelpersInReach)'
  BY NextStaffs, StutterStaffs
<1>. QED
  BY <1>1, <1>2, <1>3, InvAlways, PTL DEF Spec

\* A session at most for each item.
LEMMA SoleCounts == ASSUME WorldOK, Staffing PROVE OneWorkerPerBranch
<1>1. ASSUME NEW i \in Items
      PROVE  Cardinality(live[i]) <= 1
  <2>1. CASE live[i] = {}
    BY <2>1, FS_EmptySet
  <2>2. CASE live[i] # {}
    <3>1. PICK s \in live[i] : TRUE
      BY <2>2
    <3>2. live[i] = {s}
      BY <3>1 DEF Staffing, Sole
    <3>. QED
      BY <3>2, FS_Singleton
  <2>. QED
    BY <2>1, <2>2
<1>. QED
  BY <1>1 DEF OneWorkerPerBranch

\* Where the multiplexer closes what it is asked to close, no two sessions ever work on the branch
\* of an item: through every failure, retry, rollback of a stack, rebase and relaunch, whatever is
\* planned and in whatever order items are passed, a launch finds the branch free.
THEOREM OneWorker ==
  ASSUME "close-failure" \notin Events
  PROVE  Spec => []OneWorkerPerBranch
<1>1. Inv(FALSE) /\ Staffing => OneWorkerPerBranch
  BY SoleCounts DEF Inv
<1>. QED
  BY <1>1, StaffedAlways, InvAlways, PTL

\* And each session is one its item refers to or has set aside, as long as the loop runs; each
\* helper is one its item refers to.
THEOREM EverySessionInReach ==
  ASSUME "close-failure" \notin Events
  PROVE  Spec => [](NoOrphanHelper /\ (phase # "crashed" => NoOrphanWorker))
<1>1. Staffing => (phase # "crashed" => NoOrphanWorker)
  BY DEF Staffing, Staffed, Backed, Ref, NoOrphanWorker
<1>2. HelpersInReach => NoOrphanHelper
  BY DEF HelpersInReach, NoOrphanHelper
<1>. QED
  BY <1>1, <1>2, StaffedAlways, PTL

---------------------------------------------------------------------------
(* What an item's branch contains, and where its pull request sits *)

\* An item waits for a dependency that is stuck.
Doomed(i) == \E d \in Deps[i] : item[d].state = "stuck"

\* Each dependency of the item has landed, or is the base.
Ground(i, base) == \A d \in Deps[i] : AlreadyMerged(d) \/ base = d

\* Where the loop takes an item for landed, it is.
LandedRightly(i) == item[i].state \in OnMain \/ snaps[i].pr = "merged" => AlreadyMerged(i)

\* An item that left the queue works on its base, with all else it depends on landed; one on a
\* base has left the queue, and the loop knows that all else has landed.
Supported(i) == item[i].state # "queued" => Ground(i, item[i].base)
StackedOn(i) ==
  item[i].base # NoItem =>
    /\ item[i].state # "queued" /\ item[i].base \in Deps[i]
    /\ \A d \in Deps[i] \ {item[i].base} : Satisfied(item[d])

\* A queued item has no session and no pull request, but for one that waits for what is stuck;
\* and any other pull request sits on a base with all else landed.
Untouched(i) == item[i].state = "queued" => Doomed(i) \/ (live[i] = {} /\ gh[i].pr = "none")
OpenedOn(i)  == gh[i].pr # "none" => (item[i].state = "queued" /\ Doomed(i)) \/ Ground(i, gh[i].base)

Footing(i) == Supported(i) /\ StackedOn(i) /\ Untouched(i) /\ OpenedOn(i)

\* What is planned for an item is planned where it stands: nothing for a queued one, no merge of
\* what has landed, and a launch on the base the item has, unless it gave it up.
Bound(i) ==
  /\ Planned("launch", i) => phase = "act" /\ item[i].state # "queued"
  /\ Told(i)
  /\ phase = "act" /\ Planned("notify-ci-failure", i) => item[i].state # "queued"
  /\ phase = "act" /\ Planned("merge", i) => item[i].state \notin OnMain \cup {"queued"}
  /\ \A n \in DOMAIN plan :
       Is(n, "launch", i) /\ plan[n].base # NoItem => item[i].base \in {plan[n].base, NoItem}

Grounded(i) == LandedRightly(i) /\ Footing(i) /\ Bound(i) /\ ReadyNow(i) /\ ParkedRightly(item[i])
Founded     == DependencyMergesFirst /\ (phase # "crashed" => \A i \in Items : Grounded(i))

\* What has landed stays so.
LandedStays == \A d \in Items : AlreadyMerged(d) => AlreadyMerged(d)'

\* The pull request of an item stays on its base, and is not opened or landed.
SamePull(i) == gh'[i].pr = gh[i].pr /\ gh'[i].kind = gh[i].kind /\ gh'[i].base = gh[i].base

\* What an item depends on is an item.
LEMMA DepsAreItems == \A i \in Items : Deps[i] \subseteq Items
  BY ExecutorAssumption

\* A dependency that is satisfied has landed.
LEMMA SatisfiedLanded ==
  ASSUME NEW d \in Items, LandedRightly(d), Satisfied(item[d])
  PROVE  AlreadyMerged(d)
  BY DEF LandedRightly, Satisfied, OnMain

\* On what the item stands stays.
LEMMA GroundStays ==
  ASSUME LandedStays, NEW i \in Items, NEW b, Ground(i, b)
  PROVE  Ground(i, b)'
  BY DepsAreItems DEF LandedStays, Ground

\* An item keeps its footing, or finds it anew on a base it opens its pull request on, or on the
\* default branch.
LEMMA FootingKept ==
  ASSUME NEW i \in Items, Footing(i), NothingUndone, LandedStays,
         item'[i].state = "queued" <=> item[i].state = "queued",
         \/ item'[i].base = item[i].base
         \/ item'[i].base = NoItem /\ Ground(i, NoItem)',
         NEW b, b = gh'[i].base,
         gh'[i].pr # "none" =>
            \/ gh[i].pr # "none" /\ b = gh[i].base
            \/ item[i].state = "queued" /\ Doomed(i)
            \/ Ground(i, b)',
         item[i].state = "queued" =>
            Doomed(i) \/ (live'[i] \subseteq live[i] /\ (gh'[i].pr # "none" => gh[i].pr # "none"))
  PROVE  Footing(i)'
<1>. USE DEF Footing
<1>1. Doomed(i) => Doomed(i)'
  BY DepsAreItems DEF Doomed, NothingUndone
<1>2. ASSUME NEW c, Ground(i, c)
      PROVE  Ground(i, c)'
  BY <1>2, GroundStays
<1>3. Supported(i)'
  BY <1>2 DEF Supported
<1>4. StackedOn(i)'
  BY DepsAreItems DEF StackedOn, NothingUndone
<1>5. Untouched(i)'
  BY <1>1 DEF Untouched
<1>6. OpenedOn(i)'
  <2>1. ASSUME gh'[i].pr # "none"
        PROVE  (item'[i].state = "queued" /\ Doomed(i)') \/ Ground(i, b)'
    BY <1>1, <1>2, <2>1 DEF OpenedOn
  <2>2. Ground(i, b)' => Ground(i, gh[i].base)'
    OBVIOUS
  <2>. QED
    BY <2>1, <2>2 DEF OpenedOn
<1>. QED
  BY <1>3, <1>4, <1>5, <1>6

\* The dependencies of what lands have landed before.
LEMMA MergesFirstKept ==
  ASSUME DependencyMergesFirst, LandedStays,
         \A i \in Items : AlreadyMerged(i)' => AlreadyMerged(i) \/ Ground(i, NoItem)
  PROVE  DependencyMergesFirst'
<1>1. ASSUME NEW i \in Items, AlreadyMerged(i)', NEW d \in Deps[i]
      PROVE  AlreadyMerged(d)'
  <2>1. d \in Items /\ d # NoItem
    BY DepsAreItems, ItemsAssumption
  <2>2. AlreadyMerged(d)
    BY <1>1, <2>1 DEF DependencyMergesFirst, Ground
  <2>. QED
    BY <2>1, <2>2 DEF LandedStays
<1>. QED
  BY <1>1 DEF DependencyMergesFirst

\* Pull requests that stay leave what has landed as it is.
LEMMA SamePulls ==
  ASSUME \A i \in Items : SamePull(i)
  PROVE  /\ LandedStays /\ (DependencyMergesFirst => DependencyMergesFirst')
         /\ \A i \in Items : AlreadyMerged(i)' <=> AlreadyMerged(i)
<1>1. \A i \in Items : AlreadyMerged(i)' <=> AlreadyMerged(i)
  BY DEF SamePull, AlreadyMerged
<1>2. LandedStays
  BY <1>1 DEF LandedStays
<1>. QED
  BY <1>1, <1>2, MergesFirstKept

---------------------------------------------------------------------------
(* The steps beside the loop *)

\* Nothing happens to what is planned or seen; records keep their stations, and at most one pull
\* request changes.
Calm ==
  /\ UNCHANGED <<phase, plan, readyIds, snaps>>
  /\ \A j \in Items : live'[j] \subseteq live[j] /\ SameStation(item[j], item'[j])

\* Then all keep their grounds, if each keeps its footing.
LEMMA CalmGrounds ==
  ASSUME Calm, LandedStays, NEW i \in Items, Grounded(i), Footing(i)'
  PROVE  Grounded(i)'
<1>. USE DEF Grounded
<1>1. /\ item'[i].state = item[i].state /\ item'[i].base = item[i].base
      /\ item'[i].parked = item[i].parked
      /\ UNCHANGED <<phase, plan, readyIds, snaps>>
  BY DEF Calm, SameStation
<1>2. \A t : Planned(t, i)' <=> Planned(t, i)
  BY <1>1 DEF Planned, Is
<1>3. LandedRightly(i)'
  BY <1>1 DEF LandedRightly, LandedStays
<1>4. Bound(i)'
  BY <1>1, <1>2 DEF Bound, Told, Is
<1>5. ReadyNow(i)'
  BY <1>1, DepsAreItems DEF ReadyNow, Satisfied, Calm, SameStation
<1>6. ParkedRightly(item'[i])
  BY <1>1 DEF ParkedRightly
<1>. QED
  BY <1>3, <1>4, <1>5, <1>6

\* Records that keep their stations leave nothing undone.
LEMMA CalmUndoesNothing == ASSUME Calm PROVE NothingUndone
  BY DEF Calm, SameStation, NothingUndone, Satisfied

\* The pull requests of the others, or of all, stay.
LEMMA CalmFooting ==
  ASSUME Calm, LandedStays, NEW j \in Items, SamePull(j), Footing(j)
  PROVE  Footing(j)'
  BY CalmUndoesNothing, FootingKept DEF Calm, SameStation, SamePull

\* A step that leaves the pull requests.
LEMMA CalmFounds ==
  ASSUME Founded, Calm, \A j \in Items : SamePull(j)
  PROVE  Founded'
<1>1. LandedStays /\ DependencyMergesFirst'
  BY SamePulls DEF Founded
<1>2. ASSUME phase' # "crashed", NEW i \in Items
      PROVE  Grounded(i)'
  <2>1. Grounded(i)
    BY <1>2 DEF Founded, Calm
  <2>2. Footing(i)'
    BY <1>1, <2>1, CalmFooting DEF Grounded
  <2>. QED
    BY <1>1, <2>1, <2>2, CalmGrounds
<1>. QED
  BY <1>1, <1>2 DEF Founded

\* A step that changes one pull request and no record.
LEMMA PullChangeFounds ==
  ASSUME Founded, Calm, NEW i \in Items, phase # "crashed", LandedStays,
         AlreadyMerged(i)' => AlreadyMerged(i),
         \A j \in Items \ {i} : SamePull(j), Footing(i)'
  PROVE  Founded'
<1>1. \A j \in Items : AlreadyMerged(j)' => AlreadyMerged(j)
  BY DEF SamePull, AlreadyMerged
<1>2. DependencyMergesFirst'
  BY <1>1, MergesFirstKept DEF Founded
<1>3. ASSUME NEW j \in Items
      PROVE  Grounded(j)'
  <2>1. Grounded(j)
    BY DEF Founded
  <2>2. Footing(j)'
    BY <2>1, CalmFooting DEF Grounded
  <2>. QED
    BY <2>1, <2>2, CalmGrounds
<1>. QED
  BY <1>2, <1>3 DEF Founded

\* What the world does: a worker opens its pull request on the base it works on, a fixer opens
\* one for what has landed, and GitHub moves one only off a branch that has landed.
LEMMA WorldFounds ==
  ASSUME "external-merge" \notin Events, "existing-pr" \notin Events,
         Founded, WorldOK, NEW i \in Items, World(i)
  PROVE  Founded'
<1>1. /\ UNCHANGED <<item, phase, plan, readyIds, snaps>> /\ WorldStep(i)
      /\ phase # "crashed"
  BY DEF World, control, Open
<1>2. gh \in [Items -> PullRecords] /\ live \in [Items -> SUBSET Sessions]
  BY WorldTyped, WorldTypes
<1>3. Grounded(i) /\ Footing(i)
  BY <1>1 DEF Founded, Grounded
<1>4. ~HumanMerges(i) /\ ~PriorPullRequest(i)
  BY DEF HumanMerges, PriorPullRequest, Fault
<1>5. \A j \in Items : SameStation(item[j], item'[j])
  BY <1>1 DEF SameStation
<1>6. UNCHANGED live => Calm
  BY <1>1, <1>5 DEF Calm
<1>7. ASSUME NEW b, b = gh'[i].base, UNCHANGED live,
             \A j \in Items \ {i} : gh'[j] = gh[j],
             AlreadyMerged(i)' <=> AlreadyMerged(i),
             gh'[i].pr # "none" =>
               \/ gh[i].pr # "none" /\ b = gh[i].base
               \/ item[i].state = "queued" /\ Doomed(i)
               \/ Ground(i, b),
             item[i].state = "queued" => Doomed(i) \/ (gh'[i].pr # "none" => gh[i].pr # "none")
      PROVE  Founded'
  <2>1. Calm /\ LandedStays /\ \A j \in Items \ {i} : SamePull(j)
    <3>1. \A j \in Items : AlreadyMerged(j) => AlreadyMerged(j)'
      BY <1>7 DEF AlreadyMerged
    <3>. QED
      BY <1>6, <1>7, <3>1 DEF LandedStays, SamePull
  <2>2. NothingUndone /\ item'[i] = item[i] /\ live'[i] = live[i]
    BY <1>1, <1>7, <2>1, CalmUndoesNothing
  <2>3. gh'[i].pr # "none" =>
          \/ gh[i].pr # "none" /\ b = gh[i].base
          \/ item[i].state = "queued" /\ Doomed(i)
          \/ Ground(i, b)'
    BY <1>7, <2>1, GroundStays
  <2>4. Footing(i)'
    BY <1>3, <1>7, <2>1, <2>2, <2>3, FootingKept
  <2>. QED
    BY <1>1, <1>7, <2>1, <2>4, PullChangeFounds
<1>8. ASSUME UNCHANGED gh, \A j \in Items : live'[j] \subseteq live[j]
      PROVE  Founded'
  <2>1. Calm /\ \A j \in Items : SamePull(j)
    BY <1>1, <1>5, <1>8 DEF Calm, SamePull
  <2>. QED
    BY <2>1, CalmFounds
<1>9. CASE SessionDies(i)
  <2>1. UNCHANGED gh /\ \E s \in live[i] : live' = [live EXCEPT ![i] = @ \ {s}]
    BY <1>9 DEF SessionDies
  <2>. QED
    BY <1>2, <1>8, <2>1
<1>10. CASE WorkerReads(i) \/ WorkerSignals(i) \/ ReviewerDecides(i) \/ HelperDies(i) \/ HumanComments(i)
  <2>1. UNCHANGED <<gh, live>>
    BY <1>10 DEF WorkerReads, WorkerSignals, ReviewerDecides, HelperDies, HumanComments
  <2>. QED
    BY <1>8, <2>1
<1>11. CASE WorkerPushes(i, item[i].base)
  <2>. PICK b : b = IF gh[i].pr = "none" THEN item[i].base ELSE gh[i].base
    OBVIOUS
  <2>1. /\ gh'[i].pr = "open" /\ gh'[i].kind = gh[i].kind /\ gh'[i].base = b
        /\ gh[i].pr # "merged" /\ live[i] # {} /\ UNCHANGED live
        /\ \A j \in Items \ {i} : gh'[j] = gh[j]
    BY <1>2, <1>11 DEF WorkerPushes, Pushed, PullRecords
  <2>2. AlreadyMerged(i)' <=> AlreadyMerged(i)
    BY <2>1 DEF AlreadyMerged
  <2>3. item[i].state = "queued" => Doomed(i)
    BY <1>3, <2>1 DEF Footing, Untouched
  <2>4. item[i].state # "queued" => Ground(i, item[i].base)
    BY <1>3 DEF Footing, Supported
  <2>. QED
    BY <1>7, <2>1, <2>2, <2>3, <2>4
<1>12. CASE FixerOpensPullRequest(i)
  <2>1. /\ gh'[i].pr = "open" /\ gh'[i].kind = "repair" /\ gh'[i].base = NoItem
        /\ gh[i].pr = "merged" /\ UNCHANGED live
        /\ \A j \in Items \ {i} : gh'[j] = gh[j]
    BY <1>2, <1>12 DEF FixerOpensPullRequest, NoPullRequest, Pushed, PullRecords
  <2>2. AlreadyMerged(i) /\ AlreadyMerged(i)'
    BY <2>1 DEF AlreadyMerged
  <2>3. Ground(i, NoItem)
    BY <2>2 DEF Founded, DependencyMergesFirst, Ground
  <2>. QED
    BY <1>7, <2>1, <2>2, <2>3
<1>13. CASE GithubRetargets(i)
  <2>1. /\ gh'[i].pr = "open" /\ gh'[i].kind = gh[i].kind /\ gh'[i].base = NoItem
        /\ gh[i].pr = "open" /\ gh[gh[i].base].pr = "merged" /\ UNCHANGED live
        /\ \A j \in Items \ {i} : gh'[j] = gh[j]
    BY <1>2, <1>13 DEF GithubRetargets, PullRecords
  <2>2. AlreadyMerged(i)' <=> AlreadyMerged(i)
    BY <2>1 DEF AlreadyMerged
  <2>3. Ground(i, gh[i].base) => Ground(i, NoItem)
    BY <2>1 DEF Ground, AlreadyMerged
  <2>4. (item[i].state = "queued" /\ Doomed(i)) \/ Ground(i, gh[i].base)
    BY <1>3, <2>1 DEF Footing, OpenedOn
  <2>. QED
    BY <1>7, <2>1, <2>2, <2>3, <2>4
<1>14. CASE \/ RebaserPushes(i) \/ CiPasses(i) \/ CiFails(i) \/ MainCiPasses(i) \/ MainCiFails(i)
            \/ Conflicts(i) \/ HumanApproves(i)
  <2>1. /\ gh'[i].pr = gh[i].pr /\ gh'[i].kind = gh[i].kind /\ gh'[i].base = gh[i].base
        /\ UNCHANGED live
        /\ \A j \in Items \ {i} : gh'[j] = gh[j]
    <3>1. CASE RebaserPushes(i)
      BY <1>2, <3>1 DEF RebaserPushes, Rebased, Pushed, PullRecords
    <3>2. CASE CiPasses(i) \/ CiFails(i)
      BY <1>2, <3>2 DEF CiPasses, CiFails, PullRecords
    <3>3. CASE MainCiPasses(i) \/ MainCiFails(i)
      BY <1>2, <3>3 DEF MainCiPasses, MainCiFails, PullRecords
    <3>4. CASE Conflicts(i) \/ HumanApproves(i)
      BY <1>2, <3>4 DEF Conflicts, HumanApproves, PullRecords
    <3>. QED
      BY <1>14, <3>1, <3>2, <3>3, <3>4
  <2>2. AlreadyMerged(i)' <=> AlreadyMerged(i)
    BY <2>1 DEF AlreadyMerged
  <2>. QED
    BY <1>7, <2>1, <2>2
<1>. QED
  BY <1>1, <1>4, <1>9, <1>10, <1>11, <1>12, <1>13, <1>14, Zenon DEF WorldStep

\* What the operator does, and a batch that comes due.
LEMMA ControlFounds ==
  ASSUME NEW on \in BOOLEAN, Inv(on), Founded, Operator \/ \E i \in Items : BatchComesDue(i)
  PROVE  Founded'
<1>1. UNCHANGED <<phase, plan, readyIds, snaps, gh, live>>
  BY DEF Operator, SetMergeStrategy, SetSkipReview, ToggleAcceptingWork, SetMaxInflight, BatchComesDue,
     control, world
<1>2. \A j \in Items : SameStation(item[j], item'[j])
  BY ControlStations
<1>3. Calm /\ \A j \in Items : SamePull(j)
  BY <1>1, <1>2 DEF Calm, SamePull
<1>. QED
  BY <1>3, CalmFounds

\* Nothing changes.
LEMMA StutterFounds == ASSUME Founded, UNCHANGED vars PROVE Founded'
<1>1. Calm /\ \A j \in Items : SamePull(j)
  BY DEF vars, control, world, Calm, SameStation, SamePull
<1>. QED
  BY <1>1, CalmFounds

\* Before anything runs, every item is queued, with no pull request.
LEMMA InitFounds == ASSUME Init PROVE Founded
<1>1. \A i \in Items : /\ item[i] = NewItem /\ live[i] = {} /\ gh[i] = NoPullRequest
                       /\ snaps[i] = NoSnapshot
  BY DEF Init, WorldInit
<1>2. plan = <<>> /\ readyIds = {}
  BY DEF Init
<1>3. \A t, j : ~Planned(t, j)
  BY <1>2 DEF Planned
<1>4. NewItem.state = "queued" /\ NewItem.base = NoItem /\ NewItem.parked = FALSE
  BY DEF NewItem
<1>5. NoPullRequest.pr = "none" /\ NoPullRequest.kind = "work" /\ NoSnapshot.pr = "unknown"
  BY DEF NoPullRequest, NoSnapshot
<1>6. ASSUME NEW i \in Items
      PROVE  Grounded(i)
  <2>1. LandedRightly(i)
    BY <1>1, <1>4, <1>5 DEF LandedRightly, OnMain
  <2>2. Footing(i)
    BY <1>1, <1>4, <1>5 DEF Footing, Supported, StackedOn, Untouched, OpenedOn
  <2>3. Bound(i) /\ ReadyNow(i)
    BY <1>2, <1>3 DEF Bound, Told, ReadyNow
  <2>4. ParkedRightly(item[i])
    BY <1>1, <1>4 DEF ParkedRightly
  <2>. QED
    BY <2>1, <2>2, <2>3, <2>4 DEF Grounded
<1>7. DependencyMergesFirst
  BY <1>1, <1>5 DEF DependencyMergesFirst, AlreadyMerged
<1>. QED
  BY <1>6, <1>7 DEF Founded

\* The poll finds merged only what has landed.
LEMMA PolledMerged ==
  ASSUME BlindPolls, NEW i \in Items, snaps'[i].pr = "merged"
  PROVE  AlreadyMerged(i)
<1>1. PICK found : /\ found = "merged" => Found(i) = "merged"
                   /\ snaps'[i] = NoSnapshot \/ snaps'[i] = Seen(i, found)
  <2>1. CASE snaps' = [j \in Items |-> IF Polled(j) THEN Seen(j, Found(j)) ELSE NoSnapshot]
    BY <2>1
  <2>2. ASSUME NEW b \in {j \in Items : Polled(j) /\ Found(j) # "none"},
               snaps' = [j \in Items |-> IF ~Polled(j) THEN NoSnapshot
                                         ELSE Seen(j, IF j = b THEN "none" ELSE Found(j))]
        PROVE  \E f : /\ f = "merged" => Found(i) = "merged"
                      /\ snaps'[i] = NoSnapshot \/ snaps'[i] = Seen(i, f)
    BY <2>2
  <2>. QED
    BY <2>1, <2>2 DEF BlindPolls
<1>2. NoSnapshot.pr = "unknown"
  BY DEF NoSnapshot
<1>3. Seen(i, found).pr = "merged" => found = "merged"
  BY <1>2, Zenon DEF Seen, NoSnapshot
<1>. QED
  BY <1>1, <1>2, <1>3 DEF Found, FoundAs, AlreadyMerged

\* The start of a cycle: what the poll finds landed is, and what it finds to promote has its
\* dependencies.
LEMMA StartCycleFounds ==
  ASSUME NEW on \in BOOLEAN, Inv(on), Founded, StartCycle
  PROVE  Founded'
<1>. USE DEF Inv
<1>1. /\ phase = "idle" /\ phase' = "poll" /\ plan = <<>> /\ plan' = <<>> /\ BlindPolls
      /\ item' = [j \in Items |-> Polls(j)]
      /\ readyIds' = {i \in Items : item[i].state = "queued" /\ \A d \in Deps[i] : Satisfied(item[d])}
      /\ UNCHANGED <<gh, live>>
  BY DEF StartCycle, PlanOK
<1>2. \A j \in Items : SameStation(item[j], item'[j])
  BY <1>1, PollsStay
<1>3. LandedStays /\ DependencyMergesFirst' /\ \A j \in Items : AlreadyMerged(j)' <=> AlreadyMerged(j)
  BY <1>1, SamePulls DEF SamePull, Founded
<1>4. \A t, j : ~Planned(t, j)'
  BY <1>1 DEF Planned
<1>5. NothingUndone
  BY <1>2 DEF NothingUndone, SameStation, Satisfied
<1>6. ASSUME NEW i \in Items
      PROVE  Grounded(i)'
  <2>1. Grounded(i)
    BY <1>1 DEF Founded
  <2>2. LandedRightly(i)'
    BY <1>1, <1>2, <1>3, <2>1, PolledMerged DEF LandedRightly, SameStation, Grounded
  <2>3. Footing(i)'
    BY <1>1, <1>2, <1>3, <1>5, <2>1, FootingKept DEF SameStation, Grounded
  <2>4. Bound(i)'
    BY <1>1, <1>4 DEF Bound, Told
  <2>5. ReadyNow(i)'
    BY <1>1, <1>5, DepsAreItems DEF ReadyNow, NothingUndone
  <2>6. ParkedRightly(item'[i])
    BY <1>2, <2>1 DEF SameStation, ParkedRightly, Grounded
  <2>. QED
    BY <2>2, <2>3, <2>4, <2>5, <2>6 DEF Grounded
<1>. QED
  BY <1>3, <1>6 DEF Founded

---------------------------------------------------------------------------
(* The pass over the items *)

\* The pass goes on, and leaves the pull requests and what was seen of them.
Surveying(i, acts) ==
  /\ Passing(i, acts) /\ NothingUndone
  /\ UNCHANGED <<gh, snaps>>

\* What the pass does not change.
LEMMA SurveyKeeps ==
  ASSUME NEW i \in Items, NEW acts, Surveying(i, acts), NEW j \in Items, Grounded(j)
  PROVE  /\ LandedStays /\ AlreadyMerged(j)' = AlreadyMerged(j)
         /\ ReadyNow(j)'
         /\ ~Planned("launch", j)' /\ (Told(j)' => Bound(j)')
<1>1. UNCHANGED <<gh, snaps, readyIds>> /\ phase \notin {"idle", "act"} /\ phase' \notin {"idle", "act"}
  BY DEF Surveying, Passing
<1>2. LandedStays /\ AlreadyMerged(j)' = AlreadyMerged(j)
  BY <1>1 DEF LandedStays, AlreadyMerged
<1>3. ReadyNow(j)'
  BY <1>1, DepsAreItems DEF ReadyNow, Grounded, Surveying, NothingUndone
<1>4. ~Planned("launch", j)'
  BY <1>1 DEF Grounded, Bound, Surveying, Passing, PlansFor
<1>5. \A n \in DOMAIN plan' : ~Is(n, "launch", j)'
  BY <1>4 DEF Planned
<1>6. Told(j)' => Bound(j)'
  BY <1>1, <1>4, <1>5 DEF Bound
<1>. QED
  BY <1>2, <1>3, <1>4, <1>6

\* An item that is not passed.
LEMMA PassedByGrounds ==
  ASSUME NEW i \in Items, NEW acts, Surveying(i, acts),
         NEW j \in Items, j # i \/ acts = <<>>, Grounded(j), SameStation(item[j], item'[j])
  PROVE  Grounded(j)'
<1>1. /\ LandedStays /\ AlreadyMerged(j)' = AlreadyMerged(j) /\ ReadyNow(j)'
      /\ (Told(j)' => Bound(j)')
  BY SurveyKeeps
<1>2. /\ item'[j].state = item[j].state /\ item'[j].base = item[j].base
      /\ item'[j].parked = item[j].parked
      /\ UNCHANGED <<gh, snaps, live>> /\ NothingUndone /\ phase # "act"
      /\ \A t : Planned(t, j)' => Planned(t, j)
  BY DEF SameStation, Surveying, Passing, PlansFor, Holds
<1>3. Footing(j)'
  BY <1>1, <1>2, FootingKept DEF Grounded
<1>4. Told(j)'
  BY <1>2 DEF Told, Grounded, Bound
<1>5. LandedRightly(j)' /\ ParkedRightly(item'[j])
  BY <1>1, <1>2 DEF LandedRightly, ParkedRightly, Grounded
<1>. QED
  BY <1>1, <1>3, <1>4, <1>5 DEF Grounded

\* An item taken back waits for what is stuck.
LEMMA TakenBackGrounds ==
  ASSUME NEW i \in Items, NEW acts, Surveying(i, acts), item'[i].state = "stuck",
         NEW j \in Items, j # i, Grounded(j), TakenBack(i, item[j], item'[j])
  PROVE  Grounded(j)'
<1>1. /\ LandedStays /\ AlreadyMerged(j)' = AlreadyMerged(j) /\ ReadyNow(j)'
      /\ (Told(j)' => Bound(j)')
  BY SurveyKeeps
<1>2. /\ item[j].base = i /\ item[j].state \in {"ready", "launching"}
      /\ item'[j].state = "queued" /\ item'[j].base = NoItem /\ ~item'[j].parked
      /\ UNCHANGED <<gh, snaps, live>> /\ phase # "act"
      /\ \A t : Planned(t, j)' => Planned(t, j)
  BY DEF TakenBack, Surveying, Passing, PlansFor
<1>3. Doomed(j)'
  <2>1. i \in Deps[j]
    BY <1>2, ItemsAssumption DEF Grounded, Footing, StackedOn
  <2>. QED
    BY <2>1 DEF Doomed
<1>4. Footing(j)'
  BY <1>2, <1>3 DEF Footing, Supported, StackedOn, Untouched, OpenedOn
<1>5. Told(j)'
  BY <1>2 DEF Told, Grounded, Bound
<1>6. LandedRightly(j)' /\ ParkedRightly(item'[j])
  BY <1>1, <1>2 DEF LandedRightly, OnMain, ParkedRightly, Grounded
<1>. QED
  BY <1>1, <1>4, <1>5, <1>6 DEF Grounded

\* The item that is passed: its handler takes it for landed only where the poll found it so.
LEMMA PassedGrounds ==
  ASSUME NEW i \in Items, NEW o, Passable(i, item[i], o), ~o.it.illegal,
         Tended(i, item[i], o) \/ snaps[i].pr = "merged",
         Surveying(i, o.acts), Grounded(i), SameStation(o.it, item'[i]),
         ~Planned("notify-ci-failure", i)
  PROVE  Grounded(i)'
<1>1. /\ LandedStays /\ AlreadyMerged(i)' = AlreadyMerged(i) /\ ReadyNow(i)'
      /\ (Told(i)' => Bound(i)')
  BY SurveyKeeps
<1>2. /\ item'[i].state = o.it.state /\ item'[i].base = o.it.base /\ item'[i].parked = o.it.parked
      /\ UNCHANGED <<gh, snaps, live>> /\ NothingUndone /\ phase' # "act"
      /\ \A t : Planned(t, i)' => Planned(t, i) \/ Holds(o.acts, t)
      /\ o.acts \in Hushed(i) => ~Holds(o.acts, "notify-ci-failure")
  BY DEF SameStation, Surveying, Passing, PlansFor
<1>3. Told(i)'
  <2>1. Planned("notify-ci-failure", i)' => o.acts \notin Hushed(i)
    BY <1>2
  <2>. QED
    BY <1>2, <2>1 DEF Told, Passable
<1>4. /\ item'[i].base = item[i].base
      /\ item'[i].state = "queued" <=> item[i].state = "queued"
      /\ ParkedRightly(item'[i])
  <2>1. CASE Carries(item[i], o.it)
    BY <1>2, <2>1 DEF Carries, Resting, ParkedRightly, Grounded
  <2>2. CASE Renewed(item[i], o.it)
    BY <1>2, <2>2 DEF Renewed, Resting, ParkedRightly
  <2>. QED
    BY <2>1, <2>2 DEF Passable, Held
<1>5. LandedRightly(i)'
  <2>1. item'[i].state \in OnMain => item[i].state \in OnMain \/ snaps[i].pr = "merged"
    BY <1>2 DEF Tended, Keeps, Ashore, Renewed, OnMain
  <2>. QED
    BY <1>1, <1>2, <2>1 DEF LandedRightly, Grounded
<1>6. Footing(i)'
  BY <1>1, <1>2, <1>4, FootingKept DEF Grounded
<1>. QED
  BY <1>1, <1>3, <1>4, <1>5, <1>6 DEF Grounded

\* One item is passed: all keep their grounds.
LEMMA PassFounds ==
  ASSUME NEW on \in BOOLEAN, ItemsFit(on), Founded, NEW i \in Items, NEW o, NEW records,
         NEW next \in {"poll", "reevaluate", "schedule"}, Passes(i, o, records, next)
  PROVE  Founded'
<1>. USE DEF Passes
<1>0. UNCHANGED <<live, tree, gh, snaps, readyIds>>
  BY DEF world
<1>1. DependencyMergesFirst'
  BY <1>0, SamePulls DEF SamePull, Founded
<1>2. ASSUME phase' # "crashed"
      PROVE  \A j \in Items : Grounded(j)'
  <2>1. phase' = next /\ ~o.it.illegal
    BY <1>2 DEF Threw, PassedRecords
  <2>2. \A j \in Items : Grounded(j)
    BY DEF Founded
  <2>3. PlansFor(i, o.acts)
    BY PlansGrow DEF Passable
  <2>4. NothingUndone /\ SameStation(o.it, item'[i])
    BY <2>1, PassUndoesNothing
  <2>5. Surveying(i, o.acts)
    BY <1>0, <2>1, <2>3, <2>4 DEF Surveying, Passing
  <2>6. Grounded(i)'
    <3>1. CASE (\A t : ~Planned(t, i)) \/ item[i].state = "review-pending"
      <4>1. ~Planned("notify-ci-failure", i)
        BY <2>2, <3>1 DEF Grounded, Bound, Told
      <4>. QED
        BY <2>1, <2>2, <2>4, <2>5, <4>1, PassedGrounds
    <3>2. CASE o.acts = <<>> /\ o.it = item[i]
      BY <2>2, <2>4, <2>5, <3>2, PassedByGrounds
    <3>. QED
      BY <3>1, <3>2
  <2>7. ASSUME NEW j \in Items \ {i}
        PROVE  Grounded(j)'
    <3>1. TakenBack(i, item[j], item'[j]) /\ o.it.state = "stuck" => item'[i].state = "stuck"
      BY <2>4 DEF SameStation
    <3>. QED
      BY <2>2, <2>5, <3>1, PassedOthers, PassedByGrounds, TakenBackGrounds
  <2>. QED
    BY <2>6, <2>7
<1>. QED
  BY <1>1, <1>2 DEF Founded

\* A step of the pass.
LEMMA SurveyFounds ==
  ASSUME NEW on \in BOOLEAN, Inv(on), Founded, Poll \/ Reevaluate
  PROVE  Founded'
<1>1. ItemsFit(on) /\ phase # "crashed"
  BY DEF Inv, Poll, Reevaluate
<1>2. \A j \in Items : ParkedRightly(item[j])
  BY <1>1 DEF Founded, Grounded
<1>3. PICK i \in Items, next \in {"poll", "reevaluate", "schedule"} :
        \E o, records : Passes(i, o, records, next)
  BY <1>2, PollPasses, ReevaluatePasses
<1>. QED
  BY <1>1, <1>3, PassFounds

---------------------------------------------------------------------------
(* The end of a pass *)

\* What is promoted waits for nothing that is stuck, and stands on what has landed and the base
\* it is given.
LEMMA PromotedFooting ==
  ASSUME \A d \in Items : LandedRightly(d), NEW j \in Items, ReadyNow(j), StackedOn(j),
         NEW x, BasedTo(j, x), item[j].state = "queued", x.state # "queued"
  PROVE  /\ ~Doomed(j) /\ Ground(j, x.base)
         /\ x.base # NoItem => x.base \in Deps[j]
         /\ \A d \in Deps[j] \ {x.base} : Satisfied(item[d])
<1>1. ASSUME NEW b, \A d \in Deps[j] \ {b} : Satisfied(item[d])
      PROVE  Ground(j, b)
  BY <1>1, DepsAreItems, SatisfiedLanded DEF Ground
<1>2. CASE j \in readyIds /\ x.base = item[j].base
  <2>1. \A d \in Deps[j] : Satisfied(item[d])
    BY <1>2 DEF ReadyNow
  <2>2. ~Doomed(j)
    BY <2>1 DEF Doomed, Satisfied
  <2>3. x.base = NoItem
    BY <1>2 DEF StackedOn
  <2>. QED
    BY <1>1, <2>1, <2>2, <2>3
<1>3. CASE x.base \in StackBases(item, j)
  <2>1. Unfinished(item, j) = {x.base} /\ item[x.base].state \in StackableStates /\ x.base \in Deps[j]
    BY <1>3 DEF StackBases
  <2>2. \A d \in Deps[j] \ {x.base} : Satisfied(item[d])
    BY <2>1 DEF Unfinished
  <2>3. ~Doomed(j)
    BY <2>1, <2>2 DEF Doomed, Satisfied, StackableStates
  <2>. QED
    BY <1>1, <2>1, <2>2, <2>3
<1>. QED
  BY <1>2, <1>3 DEF BasedTo

\* An item that is promoted finds its footing, and any other keeps it.
LEMMA ScheduledFooting ==
  ASSUME \A d \in Items : LandedRightly(d), LandedStays, NothingUndone, UNCHANGED <<gh, live>>,
         NEW j \in Items, Grounded(j),
         NEW going, NEW x, ScheduledTo(j, going, x), SameStation(x, item'[j])
  PROVE  Footing(j)'
<1>1. /\ item'[j].state = x.state /\ item'[j].base = x.base /\ BasedTo(j, x)
      /\ x.state = "queued" => item[j].state = "queued"
  BY DEF SameStation, ScheduledTo
<1>2. Footing(j) /\ ReadyNow(j)
  BY DEF Grounded
<1>3. CASE item[j].state = "queued" /\ x.state # "queued"
  <2>1. /\ ~Doomed(j) /\ Ground(j, x.base)
        /\ x.base # NoItem => x.base \in Deps[j]
        /\ \A d \in Deps[j] \ {x.base} : Satisfied(item[d])
    BY <1>1, <1>2, <1>3, PromotedFooting DEF Footing
  <2>2. Ground(j, x.base)'
    BY <2>1, GroundStays
  <2>3. gh[j].pr # "none" => Ground(j, gh[j].base)'
    BY <1>2, <2>1, GroundStays DEF Footing, OpenedOn
  <2>4. Supported(j)' /\ OpenedOn(j)' /\ Untouched(j)'
    BY <1>1, <1>3, <2>2, <2>3 DEF Supported, OpenedOn, Untouched
  <2>5. StackedOn(j)'
    BY <1>1, <1>3, <2>1, DepsAreItems DEF StackedOn, NothingUndone
  <2>. QED
    BY <2>4, <2>5 DEF Footing
<1>4. CASE item[j].state = "queued" <=> x.state = "queued"
  <2>1. item'[j].base = item[j].base
    BY <1>1, <1>4 DEF BasedTo
  <2>. QED
    BY <1>1, <1>2, <1>4, <2>1, FootingKept
<1>. QED
  BY <1>1, <1>3, <1>4

\* A pass ends: what it promotes, launches and plans is grounded.
LEMMA ScheduleFounds ==
  ASSUME NEW on \in BOOLEAN, Inv(on), Founded, Schedule
  PROVE  Founded'
<1>1. PICK going, launched, late, records : Ends(going, launched, late, records)
  BY ScheduleEnds
<1>. USE DEF Ends
<1>2. UNCHANGED <<gh, live>>
  BY <1>1 DEF world
<1>3. LandedStays /\ DependencyMergesFirst' /\ \A j \in Items : AlreadyMerged(j)' <=> AlreadyMerged(j)
  BY <1>2, SamePulls DEF SamePull, Founded
<1>4. \A j \in Items : Grounded(j) /\ LandedRightly(j)
  BY <1>1 DEF Founded, Grounded
<1>5. \A j \in Items : SameStation(records[j], item'[j]) /\ ScheduledTo(j, going, records[j])
  BY <1>1 DEF Spared, SameStation
<1>6. NothingUndone
  BY <1>5 DEF NothingUndone, SameStation, ScheduledTo, Satisfied
<1>7. \A n \in DOMAIN plan' :
        \/ \E m \in DOMAIN plan : plan'[n] = plan[m]
        \/ \E j \in going : /\ plan'[n].type = "launch" /\ plan'[n].item = j
                            /\ plan'[n].base = launched[j].base
  BY <1>1, PassAsks
<1>8. ASSUME phase' # "crashed", NEW j \in Items
      PROVE  Grounded(j)'
  <2>1. /\ item'[j].state = records[j].state /\ item'[j].base = launched[j].base
        /\ ParkedRightly(item'[j])
    BY <1>1, <1>4, <1>5 DEF SameStation, ScheduledTo, ParkedRightly, Grounded
  <2>2. LandedRightly(j)'
    <3>1. snaps'[j].pr # "merged"
      BY <1>1 DEF NoSnapshot
    <3>2. item'[j].state \in OnMain => item[j].state \in OnMain
      BY <1>5, <2>1 DEF ScheduledTo, OnMain
    <3>. QED
      BY <1>3, <1>4, <3>1, <3>2 DEF LandedRightly
  <2>3. Footing(j)'
    BY <1>2, <1>3, <1>4, <1>5, <1>6, ScheduledFooting
  <2>4. \A t : Planned(t, j)' => phase' = "act"
    <3>1. DOMAIN plan' # {} => plan' # <<>>
      OBVIOUS
    <3>. QED
      BY <1>1, <1>8, <3>1 DEF Planned
  <2>5. \A m \in DOMAIN plan : ~Is(m, "launch", j)
    BY <1>1, <1>4 DEF Grounded, Bound, Planned
  <2>6. ASSUME NEW n \in DOMAIN plan', Is(n, "launch", j)'
        PROVE  j \in going /\ plan'[n].base = launched[j].base
    BY <1>7, <2>5, <2>6 DEF Is
  <2>7. \A t : t # "launch" /\ Planned(t, j)' => Planned(t, j)
    BY <1>7 DEF Planned, Is
  <2>8. Planned("launch", j)' => item'[j].state # "queued"
    <3>1. j \in going => records[j].state = "launching"
      BY <1>5 DEF ScheduledTo
    <3>. QED
      BY <2>1, <2>6, <3>1 DEF Planned
  <2>9. Planned("notify-ci-failure", j)' => item'[j].state # "queued"
    <3>1. Planned("notify-ci-failure", j)' => item[j].state = "ci-failed"
      BY <1>1, <1>4, <2>7 DEF Grounded, Bound, Told
    <3>. QED
      BY <1>5, <2>1, <3>1 DEF ScheduledTo
  <2>10. Planned("merge", j)' => item'[j].state \notin OnMain \cup {"queued"}
    <3>1. Planned("merge", j)' => item[j].state = "merging"
      <4>1. \A m \in DOMAIN plan : IsMerge(plan[m], j) => item[j].state = "merging"
        BY <1>1 DEF Inv, PlanOK, MergePlanned
      <4>. QED
        BY <2>7, <4>1 DEF Planned, Is, IsMerge
    <3>. QED
      BY <1>5, <2>1, <3>1 DEF ScheduledTo, OnMain
  <2>11. Bound(j)'
    BY <2>1, <2>4, <2>6, <2>8, <2>9, <2>10 DEF Bound, Told
  <2>12. ReadyNow(j)'
    BY <1>1 DEF ReadyNow
  <2>. QED
    BY <2>1, <2>2, <2>3, <2>11, <2>12 DEF Grounded
<1>. QED
  BY <1>3, <1>8 DEF Founded

---------------------------------------------------------------------------
(* The actions: what they make of a record *)

\* From x to y: what is stuck or satisfied stays so, nobody joins or leaves the queue, and
\* nobody is parked who must not be.
Orderly(x, y) ==
  /\ Shape(y) /\ (x.illegal => y.illegal)
  /\ \/ y.illegal
     \/ /\ x.state = "stuck" => y.state = "stuck"
        /\ Satisfied(x) => Satisfied(y)
        /\ y.state = "queued" <=> x.state = "queued"
        /\ ParkedRightly(x) => ParkedRightly(y)

\* And nobody is taken for landed who was not.
Remains(x, y) == Orderly(x, y) /\ (y.illegal \/ Ashore(x, y))

\* One change after the other.
LEMMA OrderlyTwice ==
  ASSUME NEW x, NEW y, NEW z, Orderly(x, y), Orderly(y, z)
  PROVE  Orderly(x, z)
<1>1. CASE z.illegal
  BY <1>1 DEF Orderly
<1>2. CASE ~z.illegal
  <2>1. ~y.illegal /\ ~x.illegal
    BY <1>2 DEF Orderly
  <2>. QED
    BY <1>2, <2>1, Zenon DEF Orderly
<1>. QED
  BY <1>1, <1>2

\* The same of an item that is not landed.
LEMMA RemainsTwice ==
  ASSUME NEW x, NEW y, NEW z, Remains(x, y), Remains(y, z)
  PROVE  Remains(x, z)
<1>1. Orderly(x, z)
  BY OrderlyTwice DEF Remains
<1>. QED
  BY <1>1 DEF Remains, Orderly, Ashore

\* A change of other fields.
Stands(x, y) ==
  Shape(y) /\ y.state = x.state /\ y.illegal = x.illegal /\ y.parked = x.parked

\* Such a change leaves an item where it is.
LEMMA StandsRemains == ASSUME NEW x, NEW y, Stands(x, y) PROVE Remains(x, y)
  BY DEF Stands, Remains, Orderly, Ashore, Satisfied, ParkedRightly

\* The same, as of what a step commits.
LEMMA SparedRemains ==
  ASSUME NEW x, NEW y, Spared(x, y) \/ Renumbered(x, y)
  PROVE  Remains(x, y) /\ y.base = x.base
<1>1. Renumbered(x, y)
  BY Zenon DEF Spared, Renumbered
<1>. QED
  BY <1>1, StandsRemains DEF Renumbered, Stands

\* A move: only to ready does it take an item off the queue, and only to merged ashore.
LEMMA MovedOrderly ==
  ASSUME NEW x, Shape(x), NEW to \in {"ready", "ci-pending", "ci-passed", "stuck", "blocked",
                                      "rebasing", "merged"},
         to = "ready" => x.state # "queued", NEW y, y = Moved(x, to)
  PROVE  Orderly(x, y) /\ y.base = x.base /\ (to # "merged" => Remains(x, y))
<1>1. CASE x.state = to
  <2>1. y = x
    BY <1>1 DEF Moved
  <2>. QED
    BY <2>1, StandsRemains DEF Stands, Remains
<1>2. CASE x.state # to /\ to \notin Successors(x.state)
  <2>1. y = [x EXCEPT !.illegal = TRUE]
    BY <1>2 DEF Moved
  <2>2. Shape(y)
    BY <2>1, Zenon DEF Shape
  <2>3. y.illegal /\ y.base = x.base
    BY <2>1 DEF Shape, Fields
  <2>. QED
    BY <2>2, <2>3 DEF Remains, Orderly
<1>3. CASE x.state # to /\ to \in Successors(x.state)
  <2>1. Shape(y)
    BY ZenonT(40) DEF Moved, Shape
  <2>2. y.state = to /\ y.illegal = x.illegal /\ y.parked = FALSE /\ y.base = x.base
    BY <1>3 DEF Moved, Shape, Fields
  <2>3. x.state \notin {"stuck", "done", "merged"} /\ (x.state = "queued" => to = "ready")
    BY <1>3 DEF Successors
  <2>4. Orderly(x, y)
    BY <2>1, <2>2, <2>3 DEF Orderly, Satisfied, ParkedRightly
  <2>5. to # "merged" => Ashore(x, y)
    BY <2>2 DEF Ashore, OnMain
  <2>. QED
    BY <2>2, <2>4, <2>5 DEF Remains
<1>. QED
  BY <1>1, <1>2, <1>3

\* The moves that leave an item off the default branch, of a record that remains.
LEMMA MovedRemains ==
  ASSUME NEW x, NEW it, Remains(x, it),
         NEW to \in {"ready", "ci-pending", "ci-passed", "stuck", "blocked", "rebasing"},
         to = "ready" => x.state # "queued", NEW y, y = Moved(it, to)
  PROVE  Remains(x, y) /\ y.base = it.base
<1>1. Shape(it) /\ (x.illegal => it.illegal)
  BY DEF Remains, Orderly
<1>2. CASE to = "ready" /\ it.state = "queued"
  <2>1. it.illegal
    BY <1>2 DEF Remains, Orderly
  <2>2. Shape(y)
    BY <1>1, ZenonT(40) DEF Moved, Shape
  <2>3. y.illegal /\ y.base = it.base
    BY <1>1, <2>1 DEF Moved, Shape, Fields
  <2>. QED
    BY <2>2, <2>3 DEF Remains, Orderly
<1>3. CASE to = "ready" => it.state # "queued"
  <2>1. Orderly(it, y) /\ Remains(it, y) /\ y.base = it.base
    BY <1>1, <1>3, MovedOrderly
  <2>. QED
    BY <2>1, RemainsTwice
<1>. QED
  BY <1>2, <1>3

\* The fields an action sets.
LEMMA FieldsRemain ==
  ASSUME NEW it, Shape(it)
  PROVE  /\ Remains(it, it)
         /\ \A w : Remains(it, WithWs(it, w)) /\ WithWs(it, w).base = it.base
         /\ Remains(it, Dropped(it)) /\ Dropped(it).base = it.base
         /\ \A p : Remains(it, WithPr(it, p)) /\ WithPr(it, p).base = it.base
         /\ \A b : Remains(it, WithBase(it, b)) /\ WithBase(it, b).base = b
         /\ \A b : Remains(it, Released(it, b)) /\ Released(it, b).base = b
         /\ Remains(it, HandedOver(it)) /\ HandedOver(it).base = it.base
         /\ \A w, m : Remains(it, Unheld(it, w, m)) /\ Unheld(it, w, m).base = it.base
         /\ Remains(it, Unnoticed(it)) /\ Unnoticed(it).base = it.base
         /\ Remains(it, Spent(it)) /\ Spent(it).base = it.base
<1>0. Remains(it, it)
  BY StandsRemains DEF Stands
<1>1. \A w : Remains(it, WithWs(it, w)) /\ WithWs(it, w).base = it.base
  <2>. SUFFICES ASSUME NEW w PROVE Remains(it, WithWs(it, w)) /\ WithWs(it, w).base = it.base
    OBVIOUS
  <2>1. Shape(WithWs(it, w))
    BY Zenon DEF Shape, WithWs
  <2>2. Stands(it, WithWs(it, w)) /\ WithWs(it, w).base = it.base
    BY <2>1 DEF Shape, Fields, Stands, WithWs
  <2>. QED
    BY <2>2, StandsRemains
<1>2. Remains(it, Dropped(it)) /\ Dropped(it).base = it.base
  <2>1. Shape(Dropped(it))
    BY Zenon DEF Shape, Dropped
  <2>2. Stands(it, Dropped(it)) /\ Dropped(it).base = it.base
    BY <2>1 DEF Shape, Fields, Stands, Dropped
  <2>. QED
    BY <2>2, StandsRemains
<1>3. \A p : Remains(it, WithPr(it, p)) /\ WithPr(it, p).base = it.base
  BY FieldsProceed, SparedRemains
<1>4. \A b : Remains(it, WithBase(it, b)) /\ WithBase(it, b).base = b
  <2>. SUFFICES ASSUME NEW b PROVE Remains(it, WithBase(it, b)) /\ WithBase(it, b).base = b
    OBVIOUS
  <2>1. Shape(WithBase(it, b))
    BY Zenon DEF Shape, WithBase
  <2>2. Stands(it, WithBase(it, b)) /\ WithBase(it, b).base = b
    BY <2>1 DEF Shape, Fields, Stands, WithBase
  <2>. QED
    BY <2>2, StandsRemains
<1>5. \A b : Remains(it, Released(it, b)) /\ Released(it, b).base = b
  <2>. SUFFICES ASSUME NEW b PROVE Remains(it, Released(it, b)) /\ Released(it, b).base = b
    OBVIOUS
  <2>1. Shape(Released(it, b))
    BY Zenon DEF Shape, Released
  <2>2. Stands(it, Released(it, b)) /\ Released(it, b).base = b
    BY <2>1 DEF Shape, Fields, Stands, Released
  <2>. QED
    BY <2>2, StandsRemains
<1>6. Remains(it, HandedOver(it)) /\ HandedOver(it).base = it.base
  BY FieldsProceed, SparedRemains
<1>7. \A w, m : Remains(it, Unheld(it, w, m)) /\ Unheld(it, w, m).base = it.base
  <2>. SUFFICES ASSUME NEW w, NEW m
                PROVE  Remains(it, Unheld(it, w, m)) /\ Unheld(it, w, m).base = it.base
    OBVIOUS
  <2>1. Shape(Unheld(it, w, m))
    BY Zenon DEF Shape, Unheld
  <2>2. Stands(it, Unheld(it, w, m)) /\ Unheld(it, w, m).base = it.base
    BY <2>1 DEF Shape, Fields, Stands, Unheld
  <2>. QED
    BY <2>2, StandsRemains
<1>8. Remains(it, Unnoticed(it)) /\ Unnoticed(it).base = it.base
  <2>1. Shape(Unnoticed(it))
    BY Zenon DEF Shape, Unnoticed
  <2>2. Stands(it, Unnoticed(it)) /\ Unnoticed(it).base = it.base
    BY <2>1 DEF Shape, Fields, Stands, Unnoticed
  <2>. QED
    BY <2>2, StandsRemains
<1>9. Remains(it, Spent(it)) /\ Spent(it).base = it.base
  <2>1. Shape(Spent(it))
    BY Zenon DEF Shape, Spent
  <2>2. Stands(it, Spent(it)) /\ Spent(it).base = it.base
    BY <2>1 DEF Shape, Fields, Stands, Spent
  <2>. QED
    BY <2>2, StandsRemains
<1>. QED
  BY <1>0, <1>1, <1>2, <1>3, <1>4, <1>5, <1>6, <1>7, <1>8, <1>9

\* The other fields an action sets.
WithRetries(it, n)  == [it EXCEPT !.retries = n]
WithAttempts(it, n) == [it EXCEPT !.rebaserWs = TRUE, !.rebaseAttempts = n]
Unstacked(it)       == [it EXCEPT !.mergeFails = 0, !.base = NoItem]

\* The references to helpers, and the attempts to launch and to rebase.
LEMMA FlagsRemain ==
  ASSUME NEW it, Shape(it), NEW b
  PROVE  /\ Remains(it, WithReviewer(it, b)) /\ WithReviewer(it, b).base = it.base
         /\ Remains(it, WithRebaser(it, b)) /\ WithRebaser(it, b).base = it.base
         /\ Remains(it, WithFixer(it, b)) /\ WithFixer(it, b).base = it.base
         /\ Remains(it, WithRetries(it, b)) /\ WithRetries(it, b).base = it.base
         /\ Remains(it, WithAttempts(it, b)) /\ WithAttempts(it, b).base = it.base
         /\ Remains(it, Unstacked(it)) /\ Unstacked(it).base = NoItem
<1>1. Stands(it, WithReviewer(it, b)) /\ WithReviewer(it, b).base = it.base
  <2>1. Shape(WithReviewer(it, b))
    BY Zenon DEF Shape, WithReviewer
  <2>. QED
    BY <2>1 DEF Shape, Fields, Stands, WithReviewer
<1>2. Stands(it, WithRebaser(it, b)) /\ WithRebaser(it, b).base = it.base
  <2>1. Shape(WithRebaser(it, b))
    BY Zenon DEF Shape, WithRebaser
  <2>. QED
    BY <2>1 DEF Shape, Fields, Stands, WithRebaser
<1>3. Stands(it, WithFixer(it, b)) /\ WithFixer(it, b).base = it.base
  <2>1. Shape(WithFixer(it, b))
    BY Zenon DEF Shape, WithFixer
  <2>. QED
    BY <2>1 DEF Shape, Fields, Stands, WithFixer
<1>4. Stands(it, WithRetries(it, b)) /\ WithRetries(it, b).base = it.base
  <2>1. Shape(WithRetries(it, b))
    BY Zenon DEF Shape, WithRetries
  <2>. QED
    BY <2>1 DEF Shape, Fields, Stands, WithRetries
<1>5. Stands(it, WithAttempts(it, b)) /\ WithAttempts(it, b).base = it.base
  <2>1. Shape(WithAttempts(it, b))
    BY Zenon DEF Shape, WithAttempts
  <2>. QED
    BY <2>1 DEF Shape, Fields, Stands, WithAttempts
<1>6. Stands(it, Unstacked(it)) /\ Unstacked(it).base = NoItem
  <2>1. Shape(Unstacked(it))
    BY Zenon DEF Shape, Unstacked
  <2>. QED
    BY <2>1 DEF Shape, Fields, Stands, Unstacked
<1>. QED
  BY <1>1, <1>2, <1>3, <1>4, <1>5, <1>6, StandsRemains

\* An update of one record, prepared in z.
LEMMA UpdateOrderly ==
  ASSUME NEW on \in BOOLEAN, ItemsFit(on), NEW i \in Items, NEW z, Update(i, z),
         Orderly(item[i], z)
  PROVE  /\ Orderly(item[i], item'[i]) /\ item'[i].base = z.base
         /\ item'[i].illegal <=> z.illegal
         /\ Remains(item[i], z) => Remains(item[i], item'[i])
         /\ \A j \in Items \ {i} : Remains(item[j], item'[j]) /\ item'[j].base = item[j].base
<1>1. Shape(z)
  BY DEF Orderly
<1>2. Spared(z, item'[i]) /\ \A j \in Items \ {i} : Spared(item[j], item'[j])
  BY <1>1, UpdateSpares
<1>3. Remains(z, item'[i]) /\ item'[i].base = z.base /\ item'[i].illegal = z.illegal
  BY <1>2, SparedRemains DEF Spared
<1>4. Orderly(item[i], item'[i])
  BY <1>2, <1>3, Zenon DEF Orderly, Spared, Satisfied, ParkedRightly
<1>5. Remains(item[i], z) => Remains(item[i], item'[i])
  BY <1>3, RemainsTwice
<1>. QED
  BY <1>2, <1>3, <1>4, <1>5, SparedRemains

---------------------------------------------------------------------------
(* The actions: what they do to pull requests and sessions *)

\* An item stays as it is; nobody starts to work on it.
Unmoved(j) ==
  /\ Remains(item[j], item'[j]) /\ item'[j].base = item[j].base
  /\ SamePull(j) /\ live'[j] \subseteq live[j]

\* After an action an item is where it was, but for one a merge has landed; on its base, or on
\* none as what it depends on has landed; and so is its pull request.
Sails(a, j) ==
  /\ Orderly(item[j], item'[j])
  /\ \/ item'[j].illegal \/ Ashore(item[j], item'[j])
     \/ a.type = "merge" /\ j = a.item /\ AlreadyMerged(j)'
  /\ item'[j].base = item[j].base \/ (item'[j].base = NoItem /\ Ground(j, NoItem)')
  /\ gh'[j].pr = "none" <=> gh[j].pr = "none"
  /\ gh'[j].pr # "none" => gh'[j].base = gh[j].base \/ Ground(j, gh[j].base)'
  /\ item[j].state = "queued" => live'[j] \subseteq live[j]

\* What lands stays, and has what it depends on landed before.
Lands ==
  /\ LandedStays
  /\ \A j \in Items : AlreadyMerged(j)' => AlreadyMerged(j) \/ Ground(j, NoItem)

\* An item that is unmoved sails with any action.
LEMMA UnmovedSails == ASSUME NEW a, NEW j, Unmoved(j) PROVE Sails(a, j)
  BY DEF Unmoved, Sails, Remains, SamePull

\* Nothing lands where the pull requests stay.
LEMMA SamePullsLand ==
  ASSUME \A j \in Items : gh'[j].pr = gh[j].pr /\ gh'[j].kind = gh[j].kind
  PROVE  Lands
  BY DEF Lands, LandedStays, AlreadyMerged

\* An action that moves nobody.
LEMMA AllUnmoved ==
  ASSUME NEW a, \A j \in Items : Unmoved(j)
  PROVE  Lands /\ \A j \in Items : Sails(a, j)
  BY UnmovedSails, SamePullsLand DEF Unmoved, SamePull

\* The ways in which most actions change a pull request.
LEMMA PullsStay ==
  ASSUME WorldOK, NEW i \in Items
  PROVE  /\ UNCHANGED gh => \A j \in Items : SamePull(j)
         /\ \A b : gh' = [gh EXCEPT ![i].fresh = b] => \A j \in Items : SamePull(j)
         /\ \A w : gh' = [gh EXCEPT ![i].agents = @ \cup {w}] => \A j \in Items : SamePull(j)
         /\ \A r \in Rebases(i) : Rebase(i, r) => \A j \in Items : SamePull(j)
<1>. USE DEF SamePull
<1>1. gh \in [Items -> PullRecords]
  BY WorldTyped
<1>2. UNCHANGED gh => \A j \in Items : SamePull(j)
  OBVIOUS
<1>3. \A b : gh' = [gh EXCEPT ![i].fresh = b] => \A j \in Items : SamePull(j)
  BY <1>1 DEF PullRecords
<1>4. \A w : gh' = [gh EXCEPT ![i].agents = @ \cup {w}] => \A j \in Items : SamePull(j)
  BY <1>1 DEF PullRecords
<1>5. ASSUME NEW r \in Rebases(i), Rebase(i, r)
      PROVE  \A j \in Items : SamePull(j)
  <2>1. r.pull = gh[i] \/ (r.pull = Rebased(gh[i]) /\ gh[i].pr = "open")
    BY DEF Rebases
  <2>2. gh[i].pr = "open" => /\ Rebased(gh[i]).pr = gh[i].pr /\ Rebased(gh[i]).kind = gh[i].kind
                             /\ Rebased(gh[i]).base = gh[i].base
    BY <1>1 DEF Rebased, Pushed, PullRecords
  <2>3. \A o \in Items : gh'[o] = IF o = i THEN r.pull ELSE gh[o]
    BY <1>1, <1>5 DEF Rebase
  <2>. QED
    BY <2>1, <2>2, <2>3
<1>. QED
  BY <1>2, <1>3, <1>4, <1>5

\* Closing a session starts none.
LEMMA ClosingStartsNone ==
  ASSUME WorldOK, NEW i \in Items, NEW closed \in BOOLEAN,
         CloseOwn(i, closed) \/ (\E ref : Close(i, ref, closed))
  PROVE  \A j \in Items : live'[j] \subseteq live[j]
<1>1. live \in [Items -> SUBSET Sessions]
  BY WorldTyped
<1>2. ASSUME NEW ref, Close(i, ref, closed)
      PROVE  \A j \in Items : live'[j] \subseteq live[j]
  BY <1>1, <1>2 DEF Close, CloseDone, CloseRefused
<1>3. CASE UNCHANGED live
  BY <1>3
<1>. QED
  BY <1>2, <1>3 DEF CloseOwn

\* An action that updates its item, prepared in z, or none.
LEMMA UpdateUnmoved ==
  ASSUME NEW on \in BOOLEAN, ItemsFit(on), NEW i \in Items, NEW z, Remains(item[i], z),
         z.base = item[i].base, Update(i, z) \/ UNCHANGED item,
         \A j \in Items : SamePull(j) /\ live'[j] \subseteq live[j]
  PROVE  \A j \in Items : Unmoved(j)
<1>1. CASE Update(i, z)
  BY <1>1, UpdateOrderly DEF Unmoved, Remains
<1>2. CASE UNCHANGED item
  <2>1. ASSUME NEW j \in Items
        PROVE  Remains(item[j], item'[j]) /\ item'[j].base = item[j].base
    BY <1>2, ItemShaped, FieldsRemain
  <2>. QED
    BY <2>1 DEF Unmoved
<1>. QED
  BY <1>1, <1>2

\* The actions that close sessions.
LEMMA CloseUnmoved ==
  ASSUME NEW on \in BOOLEAN, ItemsFit(on), WorldOK, NEW a \in Actions,
         ExecuteRetry(a) \/ ExecuteWorkspaceClose(a) \/ ExecuteClean(a)
  PROVE  \A j \in Items : Unmoved(j)
<1>. PICK i : i = a.item
  OBVIOUS
<1>0. i \in Items /\ Shape(item[i])
  BY ActionTyped, ItemShaped
<1>1. UNCHANGED gh
  BY DEF ExecuteRetry, ExecuteWorkspaceClose, ExecuteClean
<1>2. \A j \in Items : live'[j] \subseteq live[j]
  BY <1>0, ClosingStartsNone DEF ExecuteRetry, ExecuteWorkspaceClose, ExecuteClean
<1>3. UNCHANGED item \/ Update(i, item[i]) \/ Update(i, Dropped(item[i])) \/ Update(i, WithWs(item[i], 0))
  <2>1. ExecuteRetry(a) => UNCHANGED item \/ Update(i, Dropped(item[i]))
    BY Zenon DEF ExecuteRetry, Dropped
  <2>2. ExecuteWorkspaceClose(a) => Update(i, item[i]) \/ Update(i, WithWs(item[i], 0))
    BY Zenon DEF ExecuteWorkspaceClose, WithWs
  <2>3. ExecuteClean(a) => Update(i, WithWs(item[i], 0))
    BY Zenon DEF ExecuteClean, WithWs
  <2>. QED
    BY <2>1, <2>2, <2>3
<1>. QED
  BY <1>0, <1>1, <1>2, <1>3, PullsStay, FieldsRemain, UpdateUnmoved

\* The actions that talk to workers, and to people.
LEMMA MessageUnmoved ==
  ASSUME NEW on \in BOOLEAN, ItemsFit(on), WorldOK, NEW a \in Actions,
         ExecuteSend(a) \/ ExecutePostReview(a) \/ ExecuteClearSignal(a) \/ ExecuteNotifyCi(a),
         ExecuteNotifyCi(a) => item[a.item].state # "queued"
  PROVE  \A j \in Items : Unmoved(j)
<1>. PICK i : i = a.item
  OBVIOUS
<1>0. i \in Items /\ Shape(item[i])
  BY ActionTyped, ItemShaped
<1>1. UNCHANGED live
  BY DEF ExecuteSend, ExecutePostReview, ExecuteClearSignal, ExecuteNotifyCi
<1>2. UNCHANGED gh \/ \E w : gh' = [gh EXCEPT ![i].agents = @ \cup {w}]
  BY DEF ExecuteSend, ExecutePostReview, ExecuteClearSignal, ExecuteNotifyCi
<1>3. \A j \in Items : SamePull(j)
  BY <1>0, <1>2, PullsStay
<1>4. CASE ExecuteNotifyCi(a)
  <2>. PICK x : x = Unnoticed(item[i])
    OBVIOUS
  <2>1. UNCHANGED item \/ Update(i, Moved(x, "ready"))
    BY <1>4, Zenon DEF ExecuteNotifyCi, Unnoticed
  <2>2. Remains(item[i], x) /\ x.base = item[i].base /\ item[i].state # "queued"
    BY <1>0, <1>4, FieldsRemain
  <2>3. Remains(item[i], Moved(x, "ready")) /\ Moved(x, "ready").base = x.base
    BY <2>2, MovedRemains
  <2>. QED
    BY <1>0, <1>1, <1>3, <2>1, <2>2, <2>3, UpdateUnmoved
<1>5. CASE ~ExecuteNotifyCi(a)
  <2>1. UNCHANGED item \/ Update(i, item[i]) \/ Update(i, HandedOver(item[i]))
    BY <1>5, Zenon DEF ExecuteSend, ExecutePostReview, ExecuteClearSignal, HandedOver
  <2>. QED
    BY <1>0, <1>1, <1>3, <2>1, FieldsRemain, UpdateUnmoved
<1>. QED
  BY <1>4, <1>5

\* The actions that start helpers and dismiss them.
LEMMA HelperUnmoved ==
  ASSUME NEW on \in BOOLEAN, ItemsFit(on), WorldOK, NEW a \in Actions,
         ExecuteLaunchReview(a) \/ ExecuteLaunchForwardFixer(a) \/ ExecuteCleanHelper(a)
  PROVE  \A j \in Items : Unmoved(j)
<1>. PICK i : i = a.item
  OBVIOUS
<1>0. i \in Items /\ Shape(item[i])
  BY ActionTyped, ItemShaped
<1>1. UNCHANGED <<gh, live>>
  BY DEF ExecuteLaunchReview, ExecuteLaunchForwardFixer, ExecuteCleanHelper
<1>2. UNCHANGED item \/ \E b : \/ Update(i, WithReviewer(item[i], b))
                               \/ Update(i, WithRebaser(item[i], b))
                               \/ Update(i, WithFixer(item[i], b))
  <2>1. ExecuteLaunchReview(a) => UNCHANGED item \/ Update(i, WithReviewer(item[i], TRUE))
    BY Zenon DEF ExecuteLaunchReview, WithReviewer
  <2>2. ExecuteLaunchForwardFixer(a) => UNCHANGED item \/ Update(i, WithFixer(item[i], TRUE))
    BY Zenon DEF ExecuteLaunchForwardFixer, WithFixer
  <2>3. ExecuteCleanHelper(a) => \/ Update(i, WithReviewer(item[i], FALSE))
                                 \/ Update(i, WithRebaser(item[i], FALSE))
                                 \/ Update(i, WithFixer(item[i], FALSE))
    BY Zenon DEF ExecuteCleanHelper, WithReviewer, WithRebaser, WithFixer
  <2>. QED
    BY <2>1, <2>2, <2>3
<1>3. ASSUME NEW z, Update(i, z) \/ UNCHANGED item, Remains(item[i], z), z.base = item[i].base
      PROVE  \A j \in Items : Unmoved(j)
  BY <1>0, <1>1, <1>3, PullsStay, UpdateUnmoved
<1>4. CASE UNCHANGED item
  BY <1>0, <1>3, <1>4, FieldsRemain
<1>5. ASSUME NEW b, \/ Update(i, WithReviewer(item[i], b)) \/ Update(i, WithRebaser(item[i], b))
                    \/ Update(i, WithFixer(item[i], b))
      PROVE  \A j \in Items : Unmoved(j)
  BY <1>0, <1>3, <1>5, FlagsRemain
<1>. QED
  BY <1>2, <1>4, <1>5

\* A rebase by the daemon, or by a rebaser it starts.
LEMMA DaemonRebaseUnmoved ==
  ASSUME NEW on \in BOOLEAN, ItemsFit(on), WorldOK, NEW a \in Actions, ExecuteDaemonRebase(a)
  PROVE  \A j \in Items : Unmoved(j)
<1>. PICK i : i = a.item
  OBVIOUS
<1>0. i \in Items /\ Shape(item[i])
  BY ActionTyped, ItemShaped
<1>1. UNCHANGED live
  BY DEF ExecuteDaemonRebase, EscalateRebase, world
<1>2. \A j \in Items : SamePull(j)
  <2>. PICK b : b = (gh[i].fresh /\ "rebasing" \notin Successors(item[i].state))
    OBVIOUS
  <2>1. UNCHANGED gh \/ gh' = [gh EXCEPT ![i].fresh = b] \/ \E r \in Rebases(i) : Rebase(i, r)
    BY DEF ExecuteDaemonRebase, EscalateRebase, world
  <2>. QED
    BY <1>0, <2>1, PullsStay
<1>. PICK n : n = item[i].rebaseAttempts + 1
  OBVIOUS
<1>. PICK x : x = WithAttempts(item[i], n)
  OBVIOUS
<1>3. Remains(item[i], x) /\ x.base = item[i].base
  BY <1>0, FlagsRemain
<1>4. \/ UNCHANGED item \/ Update(i, Moved(item[i], "ci-pending")) \/ Update(i, Moved(item[i], "stuck"))
      \/ Update(i, x) \/ Update(i, Moved(x, "rebasing"))
  <2>1. EscalateRebase(i) => \/ UNCHANGED item \/ Update(i, Moved(item[i], "stuck"))
                             \/ Update(i, Tried(x, "rebasing"))
    BY Zenon DEF EscalateRebase, WithAttempts
  <2>2. Tried(x, "rebasing") \in {x, Moved(x, "rebasing")}
    BY DEF Tried
  <2>3. \/ UNCHANGED item \/ Update(i, Moved(item[i], "ci-pending")) \/ EscalateRebase(i)
    BY Zenon DEF ExecuteDaemonRebase
  <2>. QED
    BY <2>1, <2>2, <2>3
<1>5. ASSUME NEW z, Update(i, z) \/ UNCHANGED item, Remains(item[i], z), z.base = item[i].base
      PROVE  \A j \in Items : Unmoved(j)
  BY <1>0, <1>1, <1>2, <1>5, UpdateUnmoved
<1>6. Remains(item[i], item[i])
  BY <1>0, FieldsRemain
<1>7. ASSUME NEW to \in {"ci-pending", "stuck"}, Update(i, Moved(item[i], to))
      PROVE  \A j \in Items : Unmoved(j)
  BY <1>5, <1>6, <1>7, MovedRemains
<1>8. CASE Update(i, Moved(x, "rebasing"))
  BY <1>3, <1>5, <1>8, MovedRemains
<1>. QED
  BY <1>3, <1>4, <1>5, <1>6, <1>7, <1>8

\* Where the loop takes a base for finished, it has landed.
LEMMA FinishedBase ==
  ASSUME \A d \in Items : LandedRightly(d), NEW i \in Items, NEW b \in Items,
         item[b].state \in DependencyDone, NEW c \in {b, NoItem}, Ground(i, c)
  PROVE  Ground(i, NoItem)
<1>1. AlreadyMerged(b)
  BY DEF LandedRightly, DependencyDone, OnMain
<1>2. \A d \in Deps[i] : d # NoItem
  BY DepsAreItems, ItemsAssumption
<1>. QED
  BY <1>1, <1>2 DEF Ground

\* An action that leaves the pull requests, and moves its item on the base it has or off it.
LEMMA RebasedSails ==
  ASSUME NEW on \in BOOLEAN, ItemsFit(on), NEW a \in Actions, NEW z, Update(a.item, z),
         Remains(item[a.item], z),
         z.base = item[a.item].base \/ (z.base = NoItem /\ Ground(a.item, NoItem)),
         \A j \in Items : SamePull(j),
         \A j \in Items : live'[j] \subseteq live[j] \/ item[j].state # "queued"
  PROVE  Lands /\ \A j \in Items : Sails(a, j)
<1>. PICK i : i = a.item
  OBVIOUS
<1>0. i \in Items
  BY ActionTyped
<1>1. Lands
  BY SamePullsLand DEF SamePull
<1>2. /\ Remains(item[i], item'[i]) /\ item'[i].base = z.base
      /\ \A j \in Items \ {i} : Remains(item[j], item'[j]) /\ item'[j].base = item[j].base
  BY <1>0, UpdateOrderly DEF Remains
<1>3. Ground(i, NoItem) => Ground(i, NoItem)'
  BY <1>0, <1>1, GroundStays DEF Lands
<1>. QED
  BY <1>0, <1>1, <1>2, <1>3 DEF Sails, Remains, SamePull

\* executeLaunch.
LEMMA LaunchSails ==
  ASSUME NEW on \in BOOLEAN, ItemsFit(on), WorldOK, NEW a \in Actions, ExecuteLaunch(a),
         \A d \in Items : LandedRightly(d), Supported(a.item), item[a.item].state # "queued",
         a.base # NoItem => item[a.item].base \in {a.base, NoItem}
  PROVE  Lands /\ \A j \in Items : Sails(a, j)
<1>. PICK i : i = a.item
  OBVIOUS
<1>0. i \in Items /\ Shape(item[i]) /\ a.base \in Items \cup {NoItem} /\ UNCHANGED gh
  BY ActionTyped, ItemShaped DEF ExecuteLaunch, LaunchBlocked, LaunchSkipped, LaunchFailed, LaunchDone, world
<1>1. \A j \in Items : SamePull(j)
  BY <1>0, PullsStay
<1>2. \A j \in Items : live'[j] \subseteq live[j] \/ item[j].state # "queued"
  <2>1. live \in [Items -> SUBSET Sessions]
    BY WorldTyped
  <2>2. UNCHANGED live \/ \E s : live' = [live EXCEPT ![i] = @ \cup {s}]
    BY Zenon DEF ExecuteLaunch, LaunchBlocked, LaunchSkipped, LaunchFailed, LaunchDone, world
  <2>. QED
    BY <2>1, <2>2
<1>3. ASSUME NEW z, Update(i, z), Remains(item[i], z),
             z.base = item[i].base \/ (z.base = NoItem /\ Ground(i, NoItem))
      PROVE  Lands /\ \A j \in Items : Sails(a, j)
  BY <1>1, <1>2, <1>3, RebasedSails
<1>. PICK b : b = IF a.base # NoItem /\ item[a.base].state \in DependencyDone THEN NoItem ELSE item[i].base
  OBVIOUS
<1>. PICK based : based = Released(item[i], b)
  OBVIOUS
<1>4. based = Based(i, a.base)
  BY Zenon DEF Based, Released
<1>5. Remains(item[i], based) /\ based.base = b
  BY <1>0, FieldsRemain
<1>11. Shape(based)
  BY <1>5 DEF Remains, Orderly
<1>6. b = item[i].base \/ (b = NoItem /\ Ground(i, NoItem))
  <2>1. Ground(i, item[i].base)
    BY DEF Supported
  <2>. QED
    BY <1>0, <2>1, FinishedBase
<1>7. CASE LaunchBlocked(i)
  <2>1. Update(i, Moved(item[i], "blocked"))
    BY <1>7 DEF LaunchBlocked
  <2>2. Remains(item[i], Moved(item[i], "blocked")) /\ Moved(item[i], "blocked").base = item[i].base
    BY <1>0, MovedOrderly
  <2>. QED
    BY <1>3, <2>1, <2>2
<1>8. CASE LaunchSkipped(i)
  <2>. PICK x : x = WithPr(item[i], "work")
    OBVIOUS
  <2>1. Update(i, Moved(x, "ci-pending"))
    BY <1>8, Zenon DEF LaunchSkipped, WithPr
  <2>2. Remains(item[i], x) /\ x.base = item[i].base
    BY <1>0, FieldsRemain
  <2>3. Remains(item[i], Moved(x, "ci-pending")) /\ Moved(x, "ci-pending").base = x.base
    BY <2>2, MovedRemains
  <2>. QED
    BY <1>3, <2>1, <2>2, <2>3
<1>9. CASE LaunchFailed(i, a.base)
  <2>. PICK n : n = based.retries + 1
    OBVIOUS
  <2>. PICK r : r = WithRetries(based, n)
    OBVIOUS
  <2>1. Update(i, Moved(r, "ready")) \/ Update(i, Moved(based, "stuck"))
    BY <1>4, <1>9, Zenon DEF LaunchFailed, WithRetries
  <2>2. Remains(item[i], r) /\ r.base = b
    <3>1. Remains(based, r) /\ r.base = based.base
      BY <1>11, FlagsRemain
    <3>. QED
      BY <1>5, <3>1, RemainsTwice
  <2>3. Remains(item[i], Moved(r, "ready")) /\ Moved(r, "ready").base = b
    BY <2>2, MovedRemains
  <2>4. Remains(item[i], Moved(based, "stuck")) /\ Moved(based, "stuck").base = b
    BY <1>5, MovedRemains
  <2>. QED
    BY <1>3, <1>6, <2>1, <2>3, <2>4
<1>10. CASE LaunchDone(i, a.base)
  <2>. PICK session : session = CHOOSE n \in Sessions \ live[i] : \A m \in Sessions \ live[i] : n <= m
    OBVIOUS
  <2>. PICK x : x = WithWs(based, session)
    OBVIOUS
  <2>1. Update(i, x) \/ Update(i, HandedOver(x))
    BY <1>4, <1>10, Zenon DEF LaunchDone, HandedOver, WithWs
  <2>2. Remains(item[i], x) /\ x.base = b
    <3>1. Remains(based, x) /\ x.base = based.base
      BY <1>11, FieldsRemain
    <3>. QED
      BY <1>5, <3>1, RemainsTwice
  <2>3. Remains(item[i], HandedOver(x)) /\ HandedOver(x).base = b
    <3>0. Shape(x)
      BY <2>2 DEF Remains, Orderly
    <3>1. Remains(x, HandedOver(x)) /\ HandedOver(x).base = x.base
      BY <3>0, FieldsRemain
    <3>. QED
      BY <2>2, <3>1, RemainsTwice
  <2>. QED
    BY <1>3, <1>6, <2>1, <2>2, <2>3
<1>. QED
  BY <1>7, <1>8, <1>9, <1>10 DEF ExecuteLaunch

\* Where a merge is executed: its item has left the queue and has not landed.
AtMerge(i) ==
  /\ \A d \in Items : LandedRightly(d) /\ StackedOn(d) /\ Supported(d)
  /\ OpenedOn(i) /\ item[i].state \notin OnMain \cup {"queued"}

\* Then it stands on the base a merge expects, and its pull request on the base it has.
LEMMA ExpectedGround ==
  ASSUME NEW on \in BOOLEAN, ItemsFit(on), NEW i \in Items, AtMerge(i)
  PROVE  /\ ExpectedBase(i) \in {item[i].base, NoItem} /\ Ground(i, ExpectedBase(i))
         /\ gh[i].pr # "none" => Ground(i, gh[i].base)
<1>1. Ground(i, item[i].base) /\ item[i].base \in Items \cup {NoItem}
  BY ItemShaped DEF AtMerge, Supported, Typed
<1>2. CASE item[i].base # NoItem /\ item[item[i].base].state \in DependencyDone
  <2>1. Ground(i, NoItem)
    BY <1>1, <1>2, FinishedBase DEF AtMerge
  <2>. QED
    BY <1>2, <2>1 DEF ExpectedBase, AtMerge, OpenedOn
<1>3. CASE ~(item[i].base # NoItem /\ item[item[i].base].state \in DependencyDone)
  BY <1>1, <1>3 DEF ExpectedBase, AtMerge, OpenedOn
<1>. QED
  BY <1>2, <1>3

\* A merge that finds the pull request merged.
LEMMA MergeFoundSails ==
  ASSUME NEW on \in BOOLEAN, ItemsFit(on), WorldOK, NEW a \in Actions, a.type = "merge",
         MergeFound(a.item)
  PROVE  Lands /\ \A j \in Items : Sails(a, j)
<1>. PICK i : i = a.item
  OBVIOUS
<1>0. i \in Items /\ Shape(item[i]) /\ UNCHANGED gh
  BY ActionTyped, ItemShaped DEF MergeFound
<1>1. PICK closed \in BOOLEAN :
        /\ CloseOwn(i, closed)
        /\ Update(i, [Moved(item[i], "merged") EXCEPT !.ws = IF closed THEN 0 ELSE @])
  BY DEF MergeFound
<1>. PICK x : x = Moved(item[i], "merged")
  OBVIOUS
<1>. PICK w : w = IF closed THEN 0 ELSE x.ws
  OBVIOUS
<1>. PICK z : z = WithWs(x, w)
  OBVIOUS
<1>2. Update(i, z)
  BY <1>1, Zenon DEF WithWs
<1>3. Orderly(item[i], x) /\ x.base = item[i].base
  BY <1>0, MovedOrderly
<1>4. Remains(x, z) /\ z.base = x.base
  BY <1>3, FieldsRemain DEF Orderly
<1>5. Orderly(item[i], z)
  BY <1>3, <1>4, OrderlyTwice DEF Remains
<1>6. /\ Orderly(item[i], item'[i]) /\ item'[i].base = item[i].base
      /\ \A j \in Items \ {i} : Remains(item[j], item'[j]) /\ item'[j].base = item[j].base
  BY <1>0, <1>2, <1>3, <1>4, <1>5, UpdateOrderly
<1>7. \A j \in Items : SamePull(j) /\ live'[j] \subseteq live[j]
  BY <1>0, <1>1, PullsStay, ClosingStartsNone
<1>8. Lands /\ AlreadyMerged(i)'
  BY <1>0, <1>7, SamePullsLand DEF SamePull, MergeFound, AlreadyMerged
<1>. QED
  BY <1>0, <1>6, <1>7, <1>8 DEF Sails, Remains, SamePull

\* A merge that is put off: the pull request is moved to the base the item has, or the item
\* to the default branch where its pull request is.
LEMMA MergePutOffSails ==
  ASSUME NEW on \in BOOLEAN, ItemsFit(on), WorldOK, NEW a \in Actions, AtMerge(a.item),
         gh[a.item].pr = "open",
         NEW expected, expected = ExpectedBase(a.item),
         \/ MergeRetargeted(a.item, expected) \/ MergeUnstacked(a.item, expected)
         \/ MergeHeld(a.item, expected) \/ MergeRefused(a.item)
  PROVE  Lands /\ \A j \in Items : Sails(a, j)
<1>. PICK i : i = a.item
  OBVIOUS
<1>0. i \in Items /\ Shape(item[i]) /\ UNCHANGED live
  BY ActionTyped, ItemShaped DEF MergeRetargeted, MergeUnstacked, MergeHeld, MergeRefused
<1>1. /\ expected \in {item[i].base, NoItem} /\ Ground(i, expected)
      /\ Ground(i, gh[i].base)
  BY <1>0, ExpectedGround
<1>2. ASSUME NEW b, NEW to \in {"ci-pending", "ci-passed", "stuck"}, NEW z,
             z \in {item[i], WithBase(item[i], b), Spent(item[i])}
      PROVE  Remains(item[i], Moved(z, to)) /\ Moved(z, to).base = z.base
             /\ z.base \in {b, item[i].base}
  <2>1. Remains(item[i], z) /\ z.base \in {b, item[i].base}
    BY <1>0, <1>2, FieldsRemain
  <2>. QED
    BY <2>1, MovedRemains
<1>3. CASE MergeRetargeted(i, expected)
  <2>. PICK x : x = WithBase(item[i], expected)
    OBVIOUS
  <2>1. Update(i, Moved(x, "ci-pending")) /\ gh' = [gh EXCEPT ![i].base = expected]
    BY <1>3, Zenon DEF MergeRetargeted, WithBase
  <2>2. x.base = expected
    BY <1>0, FieldsRemain
  <2>3. Remains(item[i], Moved(x, "ci-pending")) /\ Moved(x, "ci-pending").base = expected
    BY <1>2, <2>2
  <2>4. /\ Remains(item[i], item'[i]) /\ item'[i].base = expected
        /\ \A j \in Items \ {i} : Remains(item[j], item'[j]) /\ item'[j].base = item[j].base
    BY <1>0, <2>1, <2>3, UpdateOrderly DEF Remains
  <2>5. /\ gh'[i].pr = gh[i].pr /\ gh'[i].kind = gh[i].kind /\ gh'[i].base = expected
        /\ \A j \in Items \ {i} : gh'[j] = gh[j]
    BY <1>0, <2>1, WorldTyped DEF PullRecords
  <2>6. Lands
    BY <2>5, SamePullsLand
  <2>7. Ground(i, expected)'
    BY <1>0, <1>1, <2>6, GroundStays DEF Lands
  <2>8. Ground(i, gh[i].base)'
    BY <2>5, <2>7
  <2>9. Sails(a, i)
    BY <1>0, <1>1, <1>3, <2>4, <2>5, <2>7, <2>8 DEF Sails, Remains
  <2>10. \A j \in Items \ {i} : Sails(a, j)
    BY <1>0, <2>4, <2>5 DEF Sails, Remains
  <2>. QED
    BY <1>0, <2>6, <2>9, <2>10
<1>4. CASE MergeUnstacked(i, expected)
  <2>. PICK x : x = WithBase(item[i], NoItem)
    OBVIOUS
  <2>1. Update(i, Moved(x, "ci-pending")) /\ (\E r \in Rebases(i) : Rebase(i, r)) /\ gh[i].base = NoItem
    BY <1>4, Zenon DEF MergeUnstacked, WithBase
  <2>2. x.base = NoItem
    BY <1>0, FieldsRemain
  <2>3. Remains(item[i], Moved(x, "ci-pending")) /\ Moved(x, "ci-pending").base = NoItem
    BY <1>2, <2>2
  <2>. QED
    BY <1>0, <1>1, <2>1, <2>3, PullsStay, RebasedSails
<1>5. CASE MergeHeld(i, expected) \/ MergeRefused(i)
  <2>. PICK to : to = IF Spent(item[i]).mergeFails >= MaxMergeRetries THEN "stuck" ELSE "ci-passed"
    OBVIOUS
  <2>1. UNCHANGED gh \/ \E r \in Rebases(i) : Rebase(i, r)
    BY <1>5 DEF MergeHeld, MergeRefused
  <2>2. \/ Update(i, Moved(item[i], "ci-passed")) \/ Update(i, Moved(item[i], "ci-pending"))
        \/ Update(i, Moved(Spent(item[i]), to))
    BY <1>5, Zenon DEF MergeHeld, MergeRefused, Spent
  <2>3. \A j \in Items : SamePull(j)
    BY <1>0, <2>1, PullsStay
  <2>4. Spent(item[i]).base = item[i].base
    BY <1>0, FieldsRemain
  <2>5. ASSUME NEW z, Update(i, z), Remains(item[i], z), z.base = item[i].base
        PROVE  Lands /\ \A j \in Items : Sails(a, j)
    BY <1>0, <2>3, <2>5, RebasedSails
  <2>6. CASE Update(i, Moved(Spent(item[i]), to))
    BY <1>2, <2>4, <2>5, <2>6
  <2>7. CASE Update(i, Moved(item[i], "ci-passed")) \/ Update(i, Moved(item[i], "ci-pending"))
    BY <1>2, <2>5, <2>7
  <2>. QED
    BY <2>2, <2>6, <2>7
<1>. QED
  BY <1>3, <1>4, <1>5

\* The record of an item that lands.
LEMMA LandedOrderly ==
  ASSUME NEW it, Shape(it), NEW m, m = Merged(it), NEW w, NEW h, NEW z, z = Unheld(m, w, h)
  PROVE  Orderly(it, z) /\ z.base = NoItem
<1>. PICK x : x = Unstacked(it)
  OBVIOUS
<1>1. Remains(it, x) /\ x.base = NoItem
  BY FlagsRemain
<1>2. Orderly(it, x) /\ Shape(x)
  BY <1>1 DEF Remains, Orderly
<1>3. m = Moved(x, "merged")
  BY Zenon DEF Merged, Unstacked
<1>4. Orderly(x, m) /\ m.base = x.base
  BY <1>2, <1>3, MovedOrderly
<1>5. Shape(m)
  BY <1>4 DEF Orderly
<1>6. Remains(m, z) /\ z.base = m.base
  BY <1>5, FieldsRemain
<1>7. Orderly(m, z)
  BY <1>6 DEF Remains
<1>. QED
  BY <1>1, <1>2, <1>4, <1>6, <1>7, OrderlyTwice

\* GitHub merges: what was stacked on the item is restacked, or stays on its branch.
LEMMA MergeDoneSails ==
  ASSUME NEW on \in BOOLEAN, ItemsFit(on), WorldOK, NEW a \in Actions, a.type = "merge",
         AtMerge(a.item), gh[a.item].pr = "open", gh[a.item].base = NoItem, MergeDone(a.item)
  PROVE  Lands /\ \A j \in Items : Sails(a, j)
<1>. PICK i : i = a.item
  OBVIOUS
<1>0. i \in Items /\ Shape(item[i])
  BY ActionTyped, ItemShaped
<1>. DEFINE active   == ActiveItems(item) \ {i}
            stacked  == {o \in active : i \in Deps[o] /\ item[o].base # NoItem}
            siblings == {o \in active \ stacked : item[o].pr # "none"}
            pushable == {o \in stacked \cup siblings : tree[o] /\ gh[o].pr = "open" /\ head[o] < MaxCommits}
            known    == IF FixForward THEN BOOLEAN ELSE {FALSE}
<1>1. MergeDone(i)
  OBVIOUS
<1>2. PICK closed \in BOOLEAN, sha \in known, restacked \in SUBSET {o \in stacked : tree[o]},
           pushed \in SUBSET pushable :
        /\ pushed \cap stacked \subseteq restacked
        /\ CloseOwn(i, closed)
        /\ gh' = [o \in Items |-> IF o = i THEN Landed(gh[i])
                                  ELSE IF o \in pushed THEN Rebased(gh[o]) ELSE gh[o]]
        /\ head' = [o \in Items |-> IF o \in pushed THEN head[o] + 1 ELSE head[o]]
        /\ Commit([o \in Items |->
              IF o = i
              THEN [Moved([item[i] EXCEPT !.mergeFails = 0, !.base = NoItem], "merged")
                      EXCEPT !.ws = IF closed THEN 0 ELSE @, !.mergeSha = @ \/ sha]
              ELSE IF o \in restacked THEN [item[o] EXCEPT !.base = NoItem] ELSE item[o]])
  BY <1>1, Zenon DEF MergeDone
<1>3. \A o \in pushed : gh[o].pr = "open"
  BY <1>2
<1>4. \A o \in restacked : o # i /\ item[o].state # "queued" /\ i \in Deps[o] /\ item[o].base # NoItem
  BY <1>2 DEF ActiveItems, ActiveStates
<1>. HIDE DEF known, active, stacked, siblings, pushable
<1>5. gh \in [Items -> PullRecords]
  BY WorldTyped
<1>6. gh'[i].pr = "merged" /\ gh'[i].kind = gh[i].kind /\ gh'[i].base = NoItem /\ AlreadyMerged(i)'
  <2>1. gh'[i] = Landed(gh[i])
    BY <1>0, <1>2
  <2>. QED
    BY <1>0, <1>5, <2>1 DEF Landed, PullRecords, AlreadyMerged
<1>7. ASSUME NEW j \in Items \ {i}
      PROVE  SamePull(j)
  <2>1. CASE j \in pushed
    <3>1. gh'[j] = Rebased(gh[j]) /\ gh[j] \in PullRecords /\ gh[j].pr = "open"
      BY <1>2, <1>3, <1>5, <2>1
    <3>. QED
      BY <3>1 DEF Rebased, Pushed, PullRecords, SamePull
  <2>2. CASE j \notin pushed
    BY <1>2, <2>2 DEF SamePull
  <2>. QED
    BY <2>1, <2>2
<1>8. Ground(i, NoItem)
  BY <1>0, ExpectedGround
<1>9. Lands
  <2>1. \A j \in Items \ {i} : AlreadyMerged(j)' <=> AlreadyMerged(j)
    BY <1>7 DEF SamePull, AlreadyMerged
  <2>. QED
    BY <1>6, <1>8, <2>1 DEF Lands, LandedStays
<1>10. \A j \in Items : live'[j] \subseteq live[j]
  BY <1>0, <1>2, ClosingStartsNone
<1>. PICK m : m = Merged(item[i])
  OBVIOUS
<1>. PICK w : w = IF closed THEN 0 ELSE m.ws
  OBVIOUS
<1>. PICK h : h = (m.mergeSha \/ sha)
  OBVIOUS
<1>. PICK z : z = Unheld(m, w, h)
  OBVIOUS
<1>. PICK records : records = [o \in Items |-> IF o = i THEN z
                               ELSE IF o \in restacked THEN WithBase(item[o], NoItem) ELSE item[o]]
  OBVIOUS
<1>11. Commit(records)
  BY <1>2, Zenon DEF Unheld, WithBase, Merged
<1>12. Orderly(item[i], z) /\ z.base = NoItem
  BY <1>0, LandedOrderly
<1>13. Orderly(item[i], item'[i]) /\ item'[i].base = NoItem
  <2>1. records[i] = z /\ Shape(z)
    BY <1>0, <1>12 DEF Orderly
  <2>2. Remains(z, item'[i]) /\ item'[i].base = z.base
    BY <1>0, <1>11, <2>1, CommitSpares, SparedRemains
  <2>. QED
    BY <1>12, <2>2, OrderlyTwice DEF Remains
<1>14. Sails(a, i)
  BY <1>0, <1>6, <1>8, <1>9, <1>10, <1>13, GroundStays DEF Sails, Lands
<1>15. ASSUME NEW j \in Items \ {i}
       PROVE  Sails(a, j)
  <2>. PICK x : x = WithBase(item[j], NoItem)
    OBVIOUS
  <2>1. Shape(item[j])
    BY ItemShaped
  <2>2. Remains(item[j], x) /\ x.base = NoItem /\ Remains(item[j], item[j])
    BY <2>1, FieldsRemain
  <2>3. Shape(x)
    BY <2>2 DEF Remains, Orderly
  <2>4. CASE j \notin restacked
    <3>1. records[j] = item[j]
      BY <2>4
    <3>2. Remains(item[j], item'[j]) /\ item'[j].base = item[j].base
      BY <1>11, <2>1, <3>1, CommitSpares, SparedRemains
    <3>3. Unmoved(j)
      BY <1>7, <1>10, <3>2 DEF Unmoved
    <3>. QED
      BY <3>3, UnmovedSails
  <2>5. CASE j \in restacked
    <3>1. records[j] = x
      BY <2>5
    <3>2. Remains(x, item'[j]) /\ item'[j].base = x.base
      BY <1>11, <2>3, <3>1, CommitSpares, SparedRemains
    <3>3. Remains(item[j], item'[j]) /\ item'[j].base = NoItem
      BY <2>2, <3>2, RemainsTwice
    <3>4. item[j].state # "queued" /\ i \in Deps[j] /\ item[j].base # NoItem
      BY <1>4, <2>5
    <3>5. item[j].base = i
      BY <1>0, <3>4 DEF AtMerge, StackedOn, Satisfied, OnMain
    <3>6. Ground(j, i)
      BY <3>4, <3>5 DEF AtMerge, Supported
    <3>7. Ground(j, NoItem)'
      BY <1>6, <1>9, <3>6, GroundStays DEF Ground, Lands
    <3>. QED
      BY <1>7, <1>10, <3>3, <3>7 DEF Sails, Remains, SamePull
  <2>. QED
    BY <2>4, <2>5
<1>. QED
  BY <1>9, <1>14, <1>15

\* executeMerge, in each of its outcomes.
LEMMA MergeSails ==
  ASSUME NEW on \in BOOLEAN, ItemsFit(on), WorldOK, NEW a \in Actions, ExecuteMerge(a),
         AtMerge(a.item)
  PROVE  Lands /\ \A j \in Items : Sails(a, j)
<1>. PICK i : i = a.item
  OBVIOUS
<1>0. i \in Items /\ Shape(item[i]) /\ a.type = "merge"
  BY ActionTyped, ItemShaped DEF ExecuteMerge
<1>1. PICK expected : expected = ExpectedBase(i)
  OBVIOUS
<1>2. \/ MergeUnreachable(i) \/ MergeFound(i)
      \/ /\ gh[i].pr = "open"
         /\ \/ MergeRetargeted(i, expected) \/ MergeUnstacked(i, expected)
            \/ MergeHeld(i, expected) \/ MergeRefused(i)
            \/ gh[i].base = NoItem /\ MergeDone(i)
  BY <1>1 DEF ExecuteMerge
<1>3. CASE MergeUnreachable(i)
  <2>1. UNCHANGED <<item, gh, live>>
    BY <1>3 DEF MergeUnreachable
  <2>2. Remains(item[i], item[i])
    BY <1>0, FieldsRemain
  <2>3. \A j \in Items : Unmoved(j)
    BY <1>0, <2>1, <2>2, PullsStay, UpdateUnmoved
  <2>. QED
    BY <2>3, AllUnmoved
<1>4. CASE MergeFound(i)
  BY <1>0, <1>4, MergeFoundSails
<1>5. CASE /\ gh[i].pr = "open"
           /\ \/ MergeRetargeted(i, expected) \/ MergeUnstacked(i, expected)
              \/ MergeHeld(i, expected) \/ MergeRefused(i)
  BY <1>1, <1>5, MergePutOffSails
<1>6. CASE gh[i].pr = "open" /\ gh[i].base = NoItem /\ MergeDone(i)
  BY <1>0, <1>6, MergeDoneSails
<1>. QED
  BY <1>2, <1>3, <1>4, <1>5, <1>6

---------------------------------------------------------------------------
(* After an action *)

\* What is planned for an item behind an action is planned where the item then stands.
LEMMA BoundStays ==
  ASSUME NEW on \in BOOLEAN, PlanOK(on), Acting, NEW a, a = plan[1], NEW j \in Items, Bound(j),
         Sails(a, j), ~item'[j].illegal
  PROVE  Bound(j)'
<1>1. /\ \A t : Planned(t, j)' => Planned(t, j) /\ phase' = "act"
      /\ \A n \in DOMAIN plan' : n + 1 \in DOMAIN plan /\ n + 1 # 1 /\ plan'[n] = plan[n + 1]
      /\ 1 \in DOMAIN plan /\ phase = "act"
  BY PlanShrinks DEF Acting, Shifted, Planned
<1>2. /\ item'[j].state = "queued" <=> item[j].state = "queued"
      /\ item'[j].base \in {item[j].base, NoItem}
      /\ Ashore(item[j], item'[j]) \/ (a.type = "merge" /\ j = a.item)
  BY DEF Sails, Orderly
<1>3. Planned("merge", j)' => ~(a.type = "merge" /\ j = a.item)
  <2>1. ASSUME NEW n \in DOMAIN plan', Is(n, "merge", j)', a.type = "merge", j = a.item
        PROVE  FALSE
    <3>1. IsMerge(plan[n + 1], j) /\ IsMerge(plan[1], j) /\ n + 1 \in DOMAIN plan /\ n + 1 # 1
      BY <1>1, <2>1 DEF Is, IsMerge
    <3>. QED
      BY <1>1, <3>1 DEF PlanOK
  <2>. QED
    BY <2>1 DEF Planned
<1>4. Planned("merge", j)' => item'[j].state \notin OnMain \cup {"queued"}
  BY <1>1, <1>2, <1>3 DEF Bound, Ashore
<1>5. ASSUME NEW n \in DOMAIN plan', Is(n, "launch", j)', plan'[n].base # NoItem
      PROVE  item'[j].base \in {plan'[n].base, NoItem}
  <2>1. Is(n + 1, "launch", j) /\ plan[n + 1].base # NoItem
    BY <1>1, <1>5 DEF Is
  <2>. QED
    BY <1>1, <1>2, <2>1 DEF Bound
<1>6. (Planned("launch", j)' \/ Planned("notify-ci-failure", j)') => item'[j].state # "queued"
  BY <1>1, <1>2 DEF Bound
<1>. QED
  BY <1>1, <1>4, <1>5, <1>6 DEF Bound, Told

\* An action after which all are where they were, or rightly elsewhere, leaves them grounded.
LEMMA SailsFounds ==
  ASSUME NEW on \in BOOLEAN, Inv(on), Founded, Act, NEW a, a = Head(plan),
         Lands, \A j \in Items : Sails(a, j)
  PROVE  Founded'
<1>. USE DEF Inv
<1>1. /\ phase = "act" /\ plan' = Tail(plan) /\ UNCHANGED <<readyIds, snaps>>
      /\ phase' = IF Threw(item') THEN "crashed" ELSE IF Len(plan) = 1 THEN "idle" ELSE "act"
  BY DEF Act
<1>2. plan \in Seq(Actions) /\ plan # <<>>
  BY <1>1 DEF PlanOK
<1>3. a = plan[1] /\ Shifted
  BY <1>1, <1>2, PlanShifts
<1>4. DependencyMergesFirst'
  BY MergesFirstKept DEF Lands, Founded
<1>5. ASSUME phase' # "crashed", NEW j \in Items
      PROVE  Grounded(j)'
  <2>1. \A d \in Items : ~item'[d].illegal
    BY <1>1, <1>5 DEF Threw
  <2>2. Acting
    <3>1. DOMAIN plan' # {} => Len(plan) # 1
      BY <1>1, <1>2, TailPlaces
    <3>2. phase' \in {"act", "idle"} /\ (Len(plan) # 1 => phase' = "act")
      BY <1>1, <1>5
    <3>. QED
      BY <1>1, <1>3, <3>1, <3>2 DEF Acting
  <2>3. Grounded(j)
    BY <1>1 DEF Founded
  <2>4. NothingUndone
    BY <2>1 DEF NothingUndone, Sails, Orderly
  <2>5. LandedRightly(j)'
    <3>1. AlreadyMerged(j) => AlreadyMerged(j)'
      BY DEF Lands, LandedStays
    <3>2. Ashore(item[j], item'[j]) \/ AlreadyMerged(j)'
      BY <2>1 DEF Sails
    <3>. QED
      BY <1>1, <2>3, <3>1, <3>2 DEF LandedRightly, Ashore, Grounded
  <2>6. Footing(j)'
    <3>. PICK b : b = gh'[j].base
      OBVIOUS
    <3>1. /\ item'[j].state = "queued" <=> item[j].state = "queued"
          /\ item'[j].base = item[j].base \/ (item'[j].base = NoItem /\ Ground(j, NoItem)')
      BY <2>1 DEF Sails, Orderly
    <3>2. gh'[j].pr # "none" => gh[j].pr # "none" /\ (b = gh[j].base \/ Ground(j, b)')
      <4>1. Ground(j, gh[j].base)' => Ground(j, b)'
        OBVIOUS
      <4>. QED
        BY <4>1 DEF Sails
    <3>3. item[j].state = "queued" => live'[j] \subseteq live[j]
      BY DEF Sails
    <3>4. Footing(j) /\ LandedStays
      BY <2>3 DEF Grounded, Lands
    <3>. QED
      BY <2>4, <3>1, <3>2, <3>3, <3>4, FootingKept
  <2>7. Bound(j)'
    BY <1>3, <2>1, <2>2, <2>3, BoundStays DEF Grounded
  <2>8. ReadyNow(j)'
    BY <1>1, <2>3 DEF ReadyNow, Grounded
  <2>9. ParkedRightly(item'[j])
    BY <2>1, <2>3 DEF Sails, Orderly, Grounded
  <2>. QED
    BY <2>5, <2>6, <2>7, <2>8, <2>9 DEF Grounded
<1>. QED
  BY <1>4, <1>5 DEF Founded

\* One action is executed.
LEMMA ActSails ==
  ASSUME NEW on \in BOOLEAN, Inv(on), Founded, Act, NEW a, a = Head(plan)
  PROVE  Lands /\ \A j \in Items : Sails(a, j)
<1>. USE DEF Inv
<1>1. phase = "act" /\ Execute(a) /\ plan \in Seq(Actions) /\ plan # <<>>
  BY DEF Act, PlanOK
<1>2. a \in Actions /\ a = plan[1] /\ 1 \in DOMAIN plan /\ a.item \in Items
  BY <1>1, ActionTyped
<1>. PICK i : i = a.item
  OBVIOUS
<1>3. i \in Items /\ \A t : a.type = t => Is(1, t, i) /\ Planned(t, i)
  BY <1>2 DEF Is, Planned
<1>4. \A j \in Items : Grounded(j)
  BY <1>1 DEF Founded
<1>6. ASSUME \A j \in Items : Unmoved(j)
      PROVE  Lands /\ \A j \in Items : Sails(a, j)
  BY <1>6, AllUnmoved
<1>7. CASE ExecuteLaunch(a)
  <2>1. Is(1, "launch", i) /\ Planned("launch", i)
    BY <1>3, <1>7 DEF ExecuteLaunch
  <2>2. item[i].state # "queued" /\ (a.base # NoItem => item[i].base \in {a.base, NoItem})
    BY <1>2, <1>3, <1>4, <2>1 DEF Grounded, Bound
  <2>3. Supported(i) /\ \A d \in Items : LandedRightly(d)
    BY <1>3, <1>4 DEF Grounded, Footing
  <2>. QED
    BY <1>2, <1>7, <2>2, <2>3, LaunchSails
<1>8. CASE ExecuteRetry(a) \/ ExecuteWorkspaceClose(a) \/ ExecuteClean(a)
  BY <1>2, <1>6, <1>8, CloseUnmoved
<1>9. CASE ExecuteDaemonRebase(a)
  BY <1>2, <1>6, <1>9, DaemonRebaseUnmoved
<1>10. CASE ExecuteSend(a) \/ ExecutePostReview(a) \/ ExecuteClearSignal(a) \/ ExecuteNotifyCi(a)
  <2>1. ExecuteNotifyCi(a) => item[i].state # "queued"
    <3>1. ExecuteNotifyCi(a) => Planned("notify-ci-failure", i)
      BY <1>3 DEF ExecuteNotifyCi
    <3>. QED
      BY <1>1, <1>3, <1>4, <3>1 DEF Grounded, Bound
  <2>. QED
    BY <1>2, <1>6, <1>10, <2>1, MessageUnmoved
<1>11. CASE ExecuteLaunchReview(a) \/ ExecuteLaunchForwardFixer(a) \/ ExecuteCleanHelper(a)
  BY <1>2, <1>6, <1>11, HelperUnmoved
<1>12. CASE ExecuteMerge(a)
  <2>1. Planned("merge", i)
    BY <1>3, <1>12 DEF ExecuteMerge
  <2>2. AtMerge(i)
    BY <1>1, <1>3, <1>4, <2>1 DEF AtMerge, Grounded, Footing, Bound
  <2>. QED
    BY <1>2, <1>12, <2>2, MergeSails
<1>. QED
  BY <1>1, <1>7, <1>8, <1>9, <1>10, <1>11, <1>12 DEF Execute

\* All stay grounded.
LEMMA ActFounds ==
  ASSUME NEW on \in BOOLEAN, Inv(on), Founded, Act
  PROVE  Founded'
<1>. PICK a : a = Head(plan)
  OBVIOUS
<1>. QED
  BY ActSails, SailsFounds

---------------------------------------------------------------------------
(* Where nobody but the daemon merges, and no pull request was there before *)

\* A step of the whole program.
LEMMA NextFounds ==
  ASSUME "external-merge" \notin Events, "existing-pr" \notin Events,
         Inv(FALSE), Founded, Next
  PROVE  Founded'
<1>1. CASE StartCycle
  BY <1>1, StartCycleFounds
<1>2. CASE Poll
  BY <1>2, SurveyFounds
<1>3. CASE Reevaluate
  BY <1>3, SurveyFounds
<1>4. CASE Schedule
  BY <1>4, ScheduleFounds
<1>5. CASE Act
  BY <1>5, ActFounds
<1>6. CASE Operator
  BY <1>6, ControlFounds
<1>7. ASSUME NEW i \in Items, BatchComesDue(i)
      PROVE  Founded'
  BY <1>7, ControlFounds
<1>8. ASSUME NEW i \in Items, World(i)
      PROVE  Founded'
  BY <1>8, WorldFounds DEF Inv
<1>. QED
  BY <1>1, <1>2, <1>3, <1>4, <1>5, <1>6, <1>7, <1>8 DEF Next, Cycle

\* What an item depends on has landed before it does: where only the daemon merges, and no item
\* is handed a pull request somebody opened before, no stack is ever merged out of order, however
\* bases are retargeted, restacked or given up, and whichever dependency is stuck.
THEOREM DependenciesLandFirst ==
  ASSUME "external-merge" \notin Events, "existing-pr" \notin Events
  PROVE  Spec => []DependencyMergesFirst
<1>1. Init => Founded
  BY InitFounds
<1>2. Inv(FALSE) /\ Founded /\ [Next]_vars => Founded'
  BY NextFounds, StutterFounds
<1>3. Founded => DependencyMergesFirst
  BY DEF Founded
<1>. QED
  BY <1>1, <1>2, <1>3, InvAlways, PTL DEF Spec
---------------------------------------------------------------------------
(* Where the pull requests are that workers stack on *)

\* An item without a pull request: no state, no record, no snapshot and no plan says it has one.
Bare(i) ==
  /\ Unopened(item[i]) /\ snaps[i].num = "none" /\ snaps[i].pr # "merged"
  /\ ~Planned("daemon-rebase", i)

\* Each item has a pull request or is bare, and what it is stacked on has one.
Anchored(i) ==
  /\ gh[i].pr # "none" \/ Bare(i)
  /\ item[i].base # NoItem => gh[item[i].base].pr # "none"

Moored == phase # "crashed" => \A i \in Items : Anchored(i)

\* No pull request is undone.
PullsRemain == \A j \in Items : gh[j].pr # "none" => gh'[j].pr # "none"

\* A bare item stays one.
LEMMA BareStays ==
  ASSUME NEW on \in BOOLEAN, ItemsFit(on)', NEW j \in Items, Bare(j),
         item'[j].state \notin Begun, item'[j].pr = item[j].pr,
         snaps'[j].num = "none", snaps'[j].pr # "merged",
         Planned("daemon-rebase", j)' => Planned("daemon-rebase", j)
  PROVE  Bare(j)'
<1>1. Shape(item'[j])
  BY DEF ItemsFit, Fit
<1>. QED
  BY <1>1 DEF Bare, Unopened

\* An item on the base it had, or on none, stays anchored.
LEMMA AnchoredStays ==
  ASSUME NEW on \in BOOLEAN, ItemsFit(on), NEW j \in Items, Anchored(j), PullsRemain,
         gh[j].pr = "none" => (Bare(j) => Bare(j)'),
         item'[j].base \in {item[j].base, NoItem}
  PROVE  Anchored(j)'
<1>1. item[j].base \in Items \cup {NoItem}
  BY DEF ItemsFit, Fit, Typed
<1>2. item'[j].base # NoItem => gh'[item'[j].base].pr # "none"
  BY <1>1 DEF Anchored, PullsRemain
<1>. QED
  BY <1>2 DEF Anchored, PullsRemain

\* Records that keep their stations, under the same plan and the same snapshots.
LEMMA CalmMoors ==
  ASSUME NEW on \in BOOLEAN, ItemsFit(on), ItemsFit(on)', Moored, Calm, PullsRemain
  PROVE  Moored'
<1>1. UNCHANGED <<phase, plan, snaps>> /\ \A j \in Items : SameStation(item[j], item'[j])
  BY DEF Calm
<1>2. \A t, j : Planned(t, j)' => Planned(t, j)
  BY <1>1 DEF Planned, Is
<1>3. ASSUME phase' # "crashed", NEW j \in Items
      PROVE  Anchored(j)'
  <2>1. Anchored(j)
    BY <1>1, <1>3 DEF Moored
  <2>2. /\ item'[j].state = item[j].state /\ item'[j].pr = item[j].pr
        /\ item'[j].base = item[j].base
    BY <1>1 DEF SameStation
  <2>3. Bare(j) => Bare(j)'
    BY <1>1, <1>2, <2>2, BareStays DEF Bare, Unopened
  <2>. QED
    BY <2>1, <2>2, <2>3, AnchoredStays
<1>. QED
  BY <1>3 DEF Moored

\* What the world does to a pull request does not undo it.
LEMMA WorldPullsRemain ==
  ASSUME WorldOK, NEW i \in Items, World(i)
  PROVE  PullsRemain
<1>1. WorldStep(i)
  BY DEF World
<1>2. gh \in [Items -> PullRecords]
  BY WorldTyped
<1>3. UNCHANGED gh => PullsRemain
  BY DEF PullsRemain
<1>4. ASSUME gh'[i].pr # "none", \A j \in Items \ {i} : gh'[j] = gh[j]
      PROVE  PullsRemain
  BY <1>4 DEF PullsRemain
<1>5. CASE SessionDies(i) \/ WorkerReads(i) \/ WorkerSignals(i) \/ ReviewerDecides(i) \/ HelperDies(i)
           \/ HumanComments(i)
  <2>1. UNCHANGED gh
    BY <1>5 DEF SessionDies, WorkerReads, WorkerSignals, ReviewerDecides, HelperDies, HumanComments
  <2>. QED
    BY <1>3, <2>1
<1>6. CASE WorkerPushes(i, item[i].base)
  <2>1. PICK m : gh' = [gh EXCEPT ![i] = [Pushed(gh[i]) EXCEPT
                          !.base = IF gh[i].pr = "none" THEN item[i].base ELSE @, !.mergeable = m]]
    BY <1>6 DEF WorkerPushes
  <2>. QED
    BY <1>2, <1>4, <2>1 DEF Pushed, PullRecords
<1>11. CASE RebaserPushes(i)
  <2>1. gh' = [gh EXCEPT ![i] = Rebased(gh[i])]
    BY <1>2, <1>11 DEF RebaserPushes
  <2>. QED
    BY <1>2, <1>4, <2>1 DEF Rebased, Pushed, PullRecords
<1>7. CASE FixerOpensPullRequest(i)
  BY <1>2, <1>4, <1>7 DEF FixerOpensPullRequest, NoPullRequest, Pushed, PullRecords
<1>8. CASE PriorPullRequest(i)
  <2>1. gh' = [gh EXCEPT ![i] = Pushed(gh[i])]
    BY <1>2, <1>8 DEF PriorPullRequest
  <2>. QED
    BY <1>2, <1>4, <2>1 DEF Pushed, PullRecords
<1>9. CASE GithubRetargets(i)
  BY <1>2, <1>4, <1>9 DEF GithubRetargets, PullRecords
<1>12. CASE HumanMerges(i)
  <2>1. gh' = [gh EXCEPT ![i] = Landed(gh[i])]
    BY <1>2, <1>12 DEF HumanMerges
  <2>. QED
    BY <1>2, <1>4, <2>1 DEF Landed, PullRecords
<1>10. CASE \/ CiPasses(i) \/ CiFails(i) \/ MainCiPasses(i) \/ MainCiFails(i)
            \/ Conflicts(i) \/ HumanApproves(i)
  <2>1. CASE CiPasses(i) \/ CiFails(i)
    BY <1>2, <1>4, <2>1 DEF CiPasses, CiFails, PullRecords
  <2>2. CASE MainCiPasses(i) \/ MainCiFails(i)
    BY <1>2, <1>4, <2>2 DEF MainCiPasses, MainCiFails, PullRecords
  <2>3. CASE Conflicts(i) \/ HumanApproves(i)
    BY <1>2, <1>4, <2>3 DEF Conflicts, HumanApproves, PullRecords
  <2>. QED
    BY <1>10, <2>1, <2>2, <2>3
<1>. QED
  BY <1>1, <1>5, <1>6, <1>7, <1>8, <1>9, <1>10, <1>11, <1>12, Zenon DEF WorldStep

\* So what the world does leaves all anchored.
LEMMA WorldMoors ==
  ASSUME NEW on \in BOOLEAN, ItemsFit(on), ItemsFit(on)', Moored, WorldOK, NEW i \in Items, World(i)
  PROVE  Moored' /\ \A j \in Items : live'[j] \subseteq live[j]
<1>1. UNCHANGED <<item, control>> /\ \A j \in Items : live'[j] \subseteq live[j]
  BY WorldStartsNone
<1>2. Calm
  BY <1>1 DEF Calm, control, SameStation
<1>. QED
  BY <1>1, <1>2, WorldPullsRemain, CalmMoors

\* What the operator does, and a batch that comes due.
LEMMA ControlMoors ==
  ASSUME NEW on \in BOOLEAN, Inv(on), ItemsFit(on)', Moored, Operator \/ \E i \in Items : BatchComesDue(i)
  PROVE  Moored' /\ \A j \in Items : live'[j] \subseteq live[j]
<1>1. UNCHANGED <<phase, plan, readyIds, snaps, gh, live>>
  BY DEF Operator, SetMergeStrategy, SetSkipReview, ToggleAcceptingWork, SetMaxInflight, BatchComesDue,
     control, world
<1>2. \A j \in Items : SameStation(item[j], item'[j])
  BY ControlStations
<1>3. Calm /\ PullsRemain
  BY <1>1, <1>2 DEF Calm, PullsRemain
<1>. QED
  BY <1>1, <1>3, CalmMoors DEF Inv

\* Nothing changes.
LEMMA StutterMoors ==
  ASSUME NEW on \in BOOLEAN, ItemsFit(on), ItemsFit(on)', Moored, UNCHANGED vars
  PROVE  Moored'
<1>1. Calm /\ PullsRemain
  BY DEF vars, control, world, Calm, SameStation, PullsRemain
<1>. QED
  BY <1>1, CalmMoors

\* Before anything runs, every item is bare.
LEMMA InitMoors ==
  ASSUME NEW on \in BOOLEAN, ItemsFit(on), Init
  PROVE  Moored
<1>1. \A i \in Items : item[i] = NewItem /\ snaps[i] = NoSnapshot /\ Shape(item[i])
  BY DEF Init, ItemsFit, Fit
<1>2. \A t, j : ~Planned(t, j)
  BY DEF Init, Planned
<1>3. NewItem.state = "queued" /\ NewItem.base = NoItem /\ NewItem.pr = "none"
  BY DEF NewItem
<1>4. NoSnapshot.num = "none" /\ NoSnapshot.pr = "unknown" /\ "queued" \notin Begun
  BY DEF NoSnapshot, Begun, OnMain
<1>. QED
  BY <1>1, <1>2, <1>3, <1>4 DEF Moored, Anchored, Bare, Unopened

\* Of an item without one the poll sees no pull request.
LEMMA PolledNone ==
  ASSUME BlindPolls, NEW i \in Items, gh[i].pr = "none", Unopened(item[i])
  PROVE  snaps'[i].num = "none" /\ snaps'[i].pr # "merged"
<1>1. Found(i) = "none"
  BY DEF Found, FoundAs
<1>2. snaps'[i] = NoSnapshot \/ snaps'[i] = Seen(i, "none")
  BY <1>1 DEF BlindPolls
<1>3. NoSnapshot.num = "none" /\ NoSnapshot.pr = "unknown"
  BY DEF NoSnapshot
<1>4. item[i].pr = "none"
  BY DEF Unopened
<1>5. item[i].state \notin OnMain
  BY DEF Unopened, Begun
<1>6. Seen(i, "none").num = "none" /\ Seen(i, "none").pr # "merged"
  BY <1>3, <1>4, Zenon DEF Seen, NoSnapshot
<1>. QED
  BY <1>2, <1>3, <1>6

\* The start of a cycle.
LEMMA StartCycleMoors ==
  ASSUME NEW on \in BOOLEAN, Inv(on), ItemsFit(on)', Moored, StartCycle
  PROVE  Moored' /\ \A j \in Items : live'[j] \subseteq live[j]
<1>. USE DEF Inv
<1>1. /\ phase = "idle" /\ plan = <<>> /\ plan' = <<>> /\ BlindPolls
      /\ item' = [j \in Items |-> Polls(j)] /\ UNCHANGED <<gh, live>>
  BY DEF StartCycle, PlanOK
<1>2. \A j \in Items : SameStation(item[j], item'[j])
  BY <1>1, PollsStay
<1>3. PullsRemain /\ \A t, j : ~Planned(t, j)'
  BY <1>1 DEF PullsRemain, Planned
<1>4. ASSUME NEW j \in Items
      PROVE  Anchored(j)'
  <2>1. Anchored(j)
    BY <1>1 DEF Moored
  <2>2. /\ item'[j].state = item[j].state /\ item'[j].pr = item[j].pr
        /\ item'[j].base = item[j].base
    BY <1>2 DEF SameStation
  <2>3. gh[j].pr = "none" => (Bare(j) => Bare(j)')
    BY <1>1, <1>3, <2>2, PolledNone, BareStays DEF Bare, Unopened
  <2>. QED
    BY <1>3, <2>1, <2>2, <2>3, AnchoredStays
<1>. QED
  BY <1>1, <1>4 DEF Moored

\* Plans that rebase nothing hold no rebase.
LEMMA UnrebasedHolds ==
  ASSUME NEW i \in Items, NEW acts \in Unrebased(i)
  PROVE  ~Holds(acts, "daemon-rebase")
<1>1. \A k \in DOMAIN acts : acts[k].type # "daemon-rebase"
  BY LenProperties DEF Unrebased
<1>. QED
  BY <1>1 DEF Holds

\* One item is passed.
LEMMA PassMoors ==
  ASSUME NEW on \in BOOLEAN, ItemsFit(on), ItemsFit(on)', Moored, NEW i \in Items, NEW o, NEW records,
         NEW next \in {"poll", "reevaluate", "schedule"}, Passes(i, o, records, next)
  PROVE  Moored' /\ \A j \in Items : live'[j] \subseteq live[j]
<1>. USE DEF Passes
<1>0. UNCHANGED <<live, gh, snaps>> /\ PullsRemain
  BY DEF world, PullsRemain
<1>1. ASSUME phase' # "crashed"
      PROVE  \A j \in Items : Anchored(j)'
  <2>1. phase' = next /\ ~o.it.illegal /\ \A j \in Items : Anchored(j)
    BY <1>1 DEF Threw, PassedRecords, Moored
  <2>2. PlansFor(i, o.acts)
    BY PlansGrow DEF Passable
  <2>3. SameStation(o.it, item'[i])
    BY <2>1, PassUndoesNothing
  <2>4. Anchored(i)'
    <3>1. item'[i].base = item[i].base
      BY <2>1, <2>3 DEF SameStation, Passable, Held, Renewed, Carries, Resting
    <3>2. Bare(i) => Bare(i)'
      <4>1. SUFFICES ASSUME Bare(i) PROVE Bare(i)'
        OBVIOUS
      <4>2. Unopened(o.it) /\ o.acts \in Unrebased(i)
        BY <4>1 DEF Bare, Unopening
      <4>3. ~Planned("daemon-rebase", i)'
        BY <2>2, <4>1, <4>2, UnrebasedHolds DEF PlansFor, Bare
      <4>4. Unopened(item'[i])
        BY <2>3, <4>2 DEF SameStation, Unopened, ItemsFit, Fit
      <4>. QED
        BY <1>0, <4>1, <4>3, <4>4 DEF Bare
    <3>. QED
      BY <1>0, <2>1, <3>1, <3>2, AnchoredStays
  <2>5. ASSUME NEW j \in Items \ {i}
        PROVE  Anchored(j)'
    <3>1. SameStation(item[j], item'[j]) \/ TakenBack(i, item[j], item'[j])
      BY PassedOthers
    <3>2. /\ item'[j].state \in {item[j].state, "queued"} /\ item'[j].pr = item[j].pr
          /\ item'[j].base \in {item[j].base, NoItem}
      BY <3>1 DEF SameStation, TakenBack
    <3>3. Planned("daemon-rebase", j)' => Planned("daemon-rebase", j)
      BY <2>2 DEF PlansFor
    <3>4. "queued" \notin Begun
      BY DEF Begun, OnMain
    <3>5. Bare(j) => Bare(j)'
      BY <1>0, <3>2, <3>3, <3>4, BareStays DEF Bare, Unopened
    <3>. QED
      BY <1>0, <2>1, <3>2, <3>5, AnchoredStays
  <2>. QED
    BY <2>4, <2>5
<1>. QED
  BY <1>0, <1>1 DEF Moored

\* A step of the pass.
LEMMA SurveyMoors ==
  ASSUME NEW on \in BOOLEAN, Inv(on), ItemsFit(on)', Founded, Moored, Poll \/ Reevaluate
  PROVE  Moored' /\ \A j \in Items : live'[j] \subseteq live[j]
<1>1. ItemsFit(on) /\ phase # "crashed"
  BY DEF Inv, Poll, Reevaluate
<1>2. \A j \in Items : ParkedRightly(item[j])
  BY <1>1 DEF Founded, Grounded
<1>3. PICK i \in Items, next \in {"poll", "reevaluate", "schedule"} :
        \E o, records : Passes(i, o, records, next)
  BY <1>2, PollPasses, ReevaluatePasses
<1>. QED
  BY <1>1, <1>3, PassMoors

\* A pass ends: what an item is stacked on has a pull request.
LEMMA ScheduleMoors ==
  ASSUME NEW on \in BOOLEAN, Inv(on), ItemsFit(on)', Moored, Schedule
  PROVE  Moored' /\ \A j \in Items : live'[j] \subseteq live[j]
<1>1. PICK going, launched, late, records : Ends(going, launched, late, records)
  BY ScheduleEnds
<1>. USE DEF Ends
<1>2. UNCHANGED <<gh, live>> /\ PullsRemain
  BY <1>1 DEF world, PullsRemain
<1>3. \A j \in Items : Anchored(j)
  BY <1>1 DEF Moored
<1>4. \A n \in DOMAIN plan' :
        \/ \E m \in DOMAIN plan : plan'[n] = plan[m]
        \/ \E j \in going : /\ plan'[n].type = "launch" /\ plan'[n].item = j
                            /\ plan'[n].base = launched[j].base
  BY <1>1, PassAsks
<1>5. NoSnapshot.num = "none" /\ NoSnapshot.pr = "unknown"
  BY DEF NoSnapshot
<1>6. ASSUME NEW j \in Items
      PROVE  Anchored(j)'
  <2>. PICK x : x = records[j]
    OBVIOUS
  <2>1. /\ item'[j].state = x.state /\ item'[j].base = x.base /\ item'[j].pr = x.pr
        /\ ScheduledTo(j, going, x) /\ BasedTo(j, x)
    BY <1>1 DEF Spared, ScheduledTo
  <2>2. Planned("daemon-rebase", j)' => Planned("daemon-rebase", j)
    BY <1>4 DEF Planned, Is
  <2>3. item'[j].pr = item[j].pr /\ (item[j].state \notin Begun => item'[j].state \notin Begun)
    BY <2>1 DEF ScheduledTo, Retains, Begun, OnMain
  <2>4. Bare(j) => Bare(j)'
    BY <1>1, <1>5, <2>2, <2>3, BareStays DEF Bare, Unopened
  <2>5. CASE item'[j].base = item[j].base
    BY <1>2, <1>3, <2>4, <2>5, AnchoredStays DEF Inv
  <2>6. CASE x.base \in StackBases(item, j)
    <3>1. item[x.base].state \in StackableStates /\ x.base \in Items
      BY <2>6, DepsAreItems DEF StackBases
    <3>2. ~Bare(x.base)
      BY <3>1 DEF Bare, Unopened, Begun, StackableStates
    <3>3. gh[x.base].pr # "none"
      BY <1>3, <3>1, <3>2 DEF Anchored
    <3>. QED
      BY <1>2, <1>3, <2>1, <2>4, <3>3 DEF Anchored
  <2>. QED
    BY <2>1, <2>5, <2>6 DEF BasedTo
<1>. QED
  BY <1>2, <1>6 DEF Moored

\* The fields an action sets do not open a pull request.
LEMMA FieldsUnopened ==
  ASSUME NEW it, Unopened(it)
  PROVE  /\ \A w : Unopened(WithWs(it, w))
         /\ \A w : Unopened(Released(it, w))
         /\ \A w : Unopened(WithBase(it, w))
         /\ \A w : Unopened(WithRetries(it, w))
         /\ \A w : Unopened(WithReviewer(it, w))
         /\ \A w : Unopened(WithRebaser(it, w))
         /\ \A w : Unopened(WithFixer(it, w))
         /\ Unopened(Dropped(it))
         /\ Unopened(HandedOver(it))
         /\ Unopened(Unnoticed(it))
<1>0. Shape(it)
  BY DEF Unopened
<1>1. \A y : Shape(y) /\ y.state = it.state /\ y.pr = it.pr => Unopened(y)
  BY DEF Unopened
<1>2. \A w : Unopened(WithWs(it, w))
  <2>. SUFFICES ASSUME NEW w PROVE Unopened(WithWs(it, w))
    OBVIOUS
  <2>1. Shape(WithWs(it, w))
    BY <1>0, Zenon DEF Shape, WithWs
  <2>2. WithWs(it, w).state = it.state /\ WithWs(it, w).pr = it.pr
    BY <1>0 DEF Shape, Fields, WithWs
  <2>. QED
    BY <1>1, <2>1, <2>2
<1>3. \A w : Unopened(Released(it, w))
  <2>. SUFFICES ASSUME NEW w PROVE Unopened(Released(it, w))
    OBVIOUS
  <2>1. Shape(Released(it, w))
    BY <1>0, Zenon DEF Shape, Released
  <2>2. Released(it, w).state = it.state /\ Released(it, w).pr = it.pr
    BY <1>0 DEF Shape, Fields, Released
  <2>. QED
    BY <1>1, <2>1, <2>2
<1>4. \A w : Unopened(WithBase(it, w))
  <2>. SUFFICES ASSUME NEW w PROVE Unopened(WithBase(it, w))
    OBVIOUS
  <2>1. Shape(WithBase(it, w))
    BY <1>0, Zenon DEF Shape, WithBase
  <2>2. WithBase(it, w).state = it.state /\ WithBase(it, w).pr = it.pr
    BY <1>0 DEF Shape, Fields, WithBase
  <2>. QED
    BY <1>1, <2>1, <2>2
<1>5. \A w : Unopened(WithRetries(it, w))
  <2>. SUFFICES ASSUME NEW w PROVE Unopened(WithRetries(it, w))
    OBVIOUS
  <2>1. Shape(WithRetries(it, w))
    BY <1>0, Zenon DEF Shape, WithRetries
  <2>2. WithRetries(it, w).state = it.state /\ WithRetries(it, w).pr = it.pr
    BY <1>0 DEF Shape, Fields, WithRetries
  <2>. QED
    BY <1>1, <2>1, <2>2
<1>6. \A w : Unopened(WithReviewer(it, w))
  <2>. SUFFICES ASSUME NEW w PROVE Unopened(WithReviewer(it, w))
    OBVIOUS
  <2>1. Shape(WithReviewer(it, w))
    BY <1>0, Zenon DEF Shape, WithReviewer
  <2>2. WithReviewer(it, w).state = it.state /\ WithReviewer(it, w).pr = it.pr
    BY <1>0 DEF Shape, Fields, WithReviewer
  <2>. QED
    BY <1>1, <2>1, <2>2
<1>7. \A w : Unopened(WithRebaser(it, w))
  <2>. SUFFICES ASSUME NEW w PROVE Unopened(WithRebaser(it, w))
    OBVIOUS
  <2>1. Shape(WithRebaser(it, w))
    BY <1>0, Zenon DEF Shape, WithRebaser
  <2>2. WithRebaser(it, w).state = it.state /\ WithRebaser(it, w).pr = it.pr
    BY <1>0 DEF Shape, Fields, WithRebaser
  <2>. QED
    BY <1>1, <2>1, <2>2
<1>8. \A w : Unopened(WithFixer(it, w))
  <2>. SUFFICES ASSUME NEW w PROVE Unopened(WithFixer(it, w))
    OBVIOUS
  <2>1. Shape(WithFixer(it, w))
    BY <1>0, Zenon DEF Shape, WithFixer
  <2>2. WithFixer(it, w).state = it.state /\ WithFixer(it, w).pr = it.pr
    BY <1>0 DEF Shape, Fields, WithFixer
  <2>. QED
    BY <1>1, <2>1, <2>2
<1>9. Unopened(Dropped(it))
  <2>1. Shape(Dropped(it))
    BY <1>0, Zenon DEF Shape, Dropped
  <2>2. Dropped(it).state = it.state /\ Dropped(it).pr = it.pr
    BY <1>0 DEF Shape, Fields, Dropped
  <2>. QED
    BY <1>1, <2>1, <2>2
<1>10. Unopened(HandedOver(it))
  <2>1. Shape(HandedOver(it))
    BY <1>0, Zenon DEF Shape, HandedOver
  <2>2. HandedOver(it).state = it.state /\ HandedOver(it).pr = it.pr
    BY <1>0 DEF Shape, Fields, HandedOver
  <2>. QED
    BY <1>1, <2>1, <2>2
<1>11. Unopened(Unnoticed(it))
  <2>1. Shape(Unnoticed(it))
    BY <1>0, Zenon DEF Shape, Unnoticed
  <2>2. Unnoticed(it).state = it.state /\ Unnoticed(it).pr = it.pr
    BY <1>0 DEF Shape, Fields, Unnoticed
  <2>. QED
    BY <1>1, <2>1, <2>2
<1>. QED
  BY <1>2, <1>3, <1>4, <1>5, <1>6, <1>7, <1>8, <1>9, <1>10, <1>11

\* A launch of an item that has no pull request opens none.
LEMMA LaunchUnopened ==
  ASSUME NEW i \in Items, Unopened(item[i]), gh[i].pr = "none", NEW a, a.item = i, ExecuteLaunch(a)
  PROVE  \E z : Unopened(z) /\ Update(i, z)
<1>. PICK b : b = IF a.base # NoItem /\ item[a.base].state \in DependencyDone THEN NoItem ELSE item[i].base
  OBVIOUS
<1>. PICK based : based = Released(item[i], b)
  OBVIOUS
<1>1. based = Based(i, a.base)
  BY Zenon DEF Based, Released
<1>2. Unopened(based)
  BY FieldsUnopened
<1>3. {"blocked", "ready", "stuck"} \subseteq States \ Begun
  BY DEF States, Begun, OnMain
<1>4. CASE LaunchBlocked(i)
  BY <1>3, <1>4, StillUnopened DEF LaunchBlocked
<1>5. CASE LaunchSkipped(i)
  BY <1>5 DEF LaunchSkipped
<1>6. CASE LaunchFailed(i, a.base)
  <2>. PICK n : n = based.retries + 1
    OBVIOUS
  <2>. PICK r : r = WithRetries(based, n)
    OBVIOUS
  <2>1. Update(i, Moved(r, "ready")) \/ Update(i, Moved(based, "stuck"))
    BY <1>1, <1>6, Zenon DEF LaunchFailed, WithRetries
  <2>2. Unopened(r)
    BY <1>2, FieldsUnopened
  <2>. QED
    BY <1>2, <1>3, <2>1, <2>2, StillUnopened
<1>7. CASE LaunchDone(i, a.base)
  <2>. PICK session : session = CHOOSE n \in Sessions \ live[i] : \A m \in Sessions \ live[i] : n <= m
    OBVIOUS
  <2>. PICK x : x = WithWs(based, session)
    OBVIOUS
  <2>1. Update(i, x) \/ Update(i, HandedOver(x))
    BY <1>1, <1>7, Zenon DEF LaunchDone, HandedOver, WithWs
  <2>2. Unopened(x)
    BY <1>2, FieldsUnopened
  <2>. QED
    BY <2>1, <2>2, FieldsUnopened
<1>. QED
  BY <1>4, <1>5, <1>6, <1>7 DEF ExecuteLaunch

\* No action opens one for an item that has none, if it does not rebase it.
LEMMA ActionUnopened ==
  ASSUME NEW i \in Items, Unopened(item[i]), gh[i].pr = "none", NEW a, a.item = i, Execute(a),
         a.type # "daemon-rebase"
  PROVE  UNCHANGED item \/ \E z : Unopened(z) /\ Update(i, z)
<1>. PICK it : it = item[i]
  OBVIOUS
<1>1. Unopened(it)
  OBVIOUS
<1>2. CASE ExecuteLaunch(a)
  BY <1>2, LaunchUnopened
<1>3. CASE ExecuteRetry(a) \/ ExecuteWorkspaceClose(a) \/ ExecuteClean(a)
  <2>1. ExecuteRetry(a) => UNCHANGED item \/ Update(i, Dropped(it))
    BY Zenon DEF ExecuteRetry, Dropped
  <2>2. ExecuteWorkspaceClose(a) => Update(i, it) \/ Update(i, WithWs(it, 0))
    BY Zenon DEF ExecuteWorkspaceClose, WithWs
  <2>3. ExecuteClean(a) => Update(i, WithWs(it, 0))
    BY Zenon DEF ExecuteClean, WithWs
  <2>. QED
    BY <1>1, <1>3, <2>1, <2>2, <2>3, FieldsUnopened
<1>4. CASE ExecuteNotifyCi(a)
  <2>. PICK x : x = Unnoticed(it)
    OBVIOUS
  <2>1. UNCHANGED item \/ Update(i, Moved(x, "ready"))
    BY <1>4, Zenon DEF ExecuteNotifyCi, Unnoticed
  <2>2. "ready" \in States \ Begun
    BY DEF States, Begun, OnMain
  <2>. QED
    BY <1>1, <2>1, <2>2, FieldsUnopened, StillUnopened
<1>5. CASE ExecuteSend(a) \/ ExecutePostReview(a) \/ ExecuteClearSignal(a)
  <2>1. UNCHANGED item \/ Update(i, it) \/ Update(i, HandedOver(it))
    BY <1>5, Zenon DEF ExecuteSend, ExecutePostReview, ExecuteClearSignal, HandedOver
  <2>. QED
    BY <1>1, <2>1, FieldsUnopened
<1>6. CASE ExecuteLaunchReview(a) \/ ExecuteLaunchForwardFixer(a) \/ ExecuteCleanHelper(a)
  <2>1. ExecuteLaunchReview(a) => UNCHANGED item \/ Update(i, WithReviewer(it, TRUE))
    BY Zenon DEF ExecuteLaunchReview, WithReviewer
  <2>2. ExecuteLaunchForwardFixer(a) => UNCHANGED item \/ Update(i, WithFixer(it, TRUE))
    BY Zenon DEF ExecuteLaunchForwardFixer, WithFixer
  <2>3. ExecuteCleanHelper(a) => \/ Update(i, WithReviewer(it, FALSE))
                                 \/ Update(i, WithRebaser(it, FALSE))
                                 \/ Update(i, WithFixer(it, FALSE))
    BY Zenon DEF ExecuteCleanHelper, WithReviewer, WithRebaser, WithFixer
  <2>. QED
    BY <1>1, <1>6, <2>1, <2>2, <2>3, FieldsUnopened
<1>7. CASE ExecuteMerge(a)
  <2>1. it.pr = "none"
    BY DEF Unopened
  <2>2. MergeUnreachable(i)
    BY <1>7, <2>1 DEF ExecuteMerge, MergeFound
  <2>. QED
    BY <2>2 DEF MergeUnreachable
<1>8. ~ExecuteDaemonRebase(a)
  BY DEF ExecuteDaemonRebase
<1>. QED
  BY <1>2, <1>3, <1>4, <1>5, <1>6, <1>7, <1>8 DEF Execute

\* An action updates its item, or none; only a merge updates others, their bases.
LEMMA ActionUpdates ==
  ASSUME NEW a, NEW i, i = a.item, Execute(a)
  PROVE  UNCHANGED item \/ (\E z : Update(i, z)) \/ MergeDone(i)
<1>1. CASE ExecuteLaunch(a)
  <2>1. \/ LaunchBlocked(i) \/ LaunchSkipped(i) \/ LaunchFailed(i, a.base) \/ LaunchDone(i, a.base)
    BY <1>1 DEF ExecuteLaunch
  <2>. QED
    BY <2>1, Zenon DEF LaunchBlocked, LaunchSkipped, LaunchFailed, LaunchDone
<1>2. CASE ExecuteRetry(a) \/ ExecuteWorkspaceClose(a) \/ ExecuteClean(a)
  BY <1>2, Zenon DEF ExecuteRetry, ExecuteWorkspaceClose, ExecuteClean
<1>3. CASE ExecuteDaemonRebase(a)
  BY <1>3, Zenon DEF ExecuteDaemonRebase, EscalateRebase
<1>4. CASE ExecuteNotifyCi(a) \/ ExecuteSend(a) \/ ExecutePostReview(a) \/ ExecuteClearSignal(a)
  BY <1>4, Zenon DEF ExecuteNotifyCi, ExecuteSend, ExecutePostReview, ExecuteClearSignal
<1>5. CASE ExecuteLaunchReview(a) \/ ExecuteLaunchForwardFixer(a) \/ ExecuteCleanHelper(a)
  BY <1>5, Zenon DEF ExecuteLaunchReview, ExecuteLaunchForwardFixer, ExecuteCleanHelper
<1>6. CASE ExecuteMerge(a)
  <2>. PICK expected : expected = ExpectedBase(i)
    OBVIOUS
  <2>1. \/ MergeUnreachable(i) \/ MergeFound(i) \/ MergeRetargeted(i, expected)
        \/ MergeUnstacked(i, expected) \/ MergeHeld(i, expected) \/ MergeRefused(i) \/ MergeDone(i)
    BY <1>6 DEF ExecuteMerge
  <2>2. MergeUnreachable(i) => UNCHANGED item
    BY DEF MergeUnreachable
  <2>3. MergeRefused(i) => \E z : Update(i, z)
    BY Zenon DEF MergeRefused
  <2>4. MergeFound(i) \/ MergeRetargeted(i, expected) \/ MergeUnstacked(i, expected) \/ MergeHeld(i, expected)
          => \E z : Update(i, z)
    BY Zenon DEF MergeFound, MergeRetargeted, MergeUnstacked, MergeHeld
  <2>. QED
    BY <2>1, <2>2, <2>3, <2>4
<1>. QED
  BY <1>1, <1>2, <1>3, <1>4, <1>5, <1>6 DEF Execute

\* The records of the others: as they were, or off their base.
LEMMA OthersUnopened ==
  ASSUME NEW on \in BOOLEAN, ItemsFit(on), NEW a \in Actions, Execute(a), NEW j \in Items,
         j # a.item, Unopened(item[j])
  PROVE  Unopened(item'[j])
<1>. PICK i : i = a.item
  OBVIOUS
<1>0. i \in Items /\ j # i /\ Shape(item[j])
  BY ActionTyped, ItemShaped
<1>1. CASE UNCHANGED item
  BY <1>1
<1>2. ASSUME NEW z, Update(i, z)
      PROVE  Unopened(item'[j])
  <2>. PICK records : records = [item EXCEPT ![i] = z]
    OBVIOUS
  <2>1. Commit(records)
    BY <1>2 DEF Update
  <2>2. records[j] = item[j]
    BY <1>0 DEF ItemsFit
  <2>. QED
    BY <1>0, <2>1, <2>2, CommitSpares, StillUnopened
<1>3. CASE MergeDone(i)
  <2>. DEFINE active   == ActiveItems(item) \ {i}
              stacked  == {o \in active : i \in Deps[o] /\ item[o].base # NoItem}
              siblings == {o \in active \ stacked : item[o].pr # "none"}
              pushable == {o \in stacked \cup siblings : tree[o] /\ gh[o].pr = "open" /\ head[o] < MaxCommits}
              known    == IF FixForward THEN BOOLEAN ELSE {FALSE}
  <2>1. PICK closed \in BOOLEAN, sha \in known, restacked \in SUBSET {o \in stacked : tree[o]},
             pushed \in SUBSET pushable :
          /\ pushed \cap stacked \subseteq restacked
          /\ CloseOwn(i, closed)
          /\ gh' = [o \in Items |-> IF o = i THEN Landed(gh[i])
                                    ELSE IF o \in pushed THEN Rebased(gh[o]) ELSE gh[o]]
          /\ head' = [o \in Items |-> IF o \in pushed THEN head[o] + 1 ELSE head[o]]
          /\ Commit([o \in Items |->
                IF o = i
                THEN [Moved([item[i] EXCEPT !.mergeFails = 0, !.base = NoItem], "merged")
                        EXCEPT !.ws = IF closed THEN 0 ELSE @, !.mergeSha = @ \/ sha]
                ELSE IF o \in restacked THEN [item[o] EXCEPT !.base = NoItem] ELSE item[o]])
    BY <1>3, Zenon DEF MergeDone
  <2>. HIDE DEF known, active, stacked, siblings, pushable
  <2>. PICK m : m = Merged(item[i])
    OBVIOUS
  <2>. PICK w : w = IF closed THEN 0 ELSE m.ws
    OBVIOUS
  <2>. PICK h : h = (m.mergeSha \/ sha)
    OBVIOUS
  <2>. PICK z : z = Unheld(m, w, h)
    OBVIOUS
  <2>. PICK records : records = [o \in Items |-> IF o = i THEN z
                                 ELSE IF o \in restacked THEN WithBase(item[o], NoItem) ELSE item[o]]
    OBVIOUS
  <2>2. Commit(records)
    BY <2>1, Zenon DEF WithBase, Unheld, Merged
  <2>3. Unopened(records[j])
    BY <1>0, FieldsUnopened
  <2>4. Shape(records[j])
    BY <2>3 DEF Unopened
  <2>. QED
    BY <2>2, <2>3, <2>4, CommitSpares, StillUnopened
<1>. QED
  BY <1>1, <1>2, <1>3, ActionUpdates

\* One action is executed.
LEMMA ActMoors ==
  ASSUME NEW on \in BOOLEAN, Inv(on), ItemsFit(on)', Founded, Moored, Act
  PROVE  Moored'
<1>. USE DEF Inv
<1>. PICK a : a = Head(plan)
  OBVIOUS
<1>1. /\ phase = "act" /\ Execute(a) /\ plan' = Tail(plan) /\ UNCHANGED snaps
      /\ plan \in Seq(Actions) /\ plan # <<>>
  BY DEF Act, PlanOK
<1>2. a \in Actions /\ a = plan[1] /\ 1 \in DOMAIN plan /\ a.item \in Items /\ Shifted
  BY <1>1, ActionTyped, PlanShifts
<1>3. \A j \in Items : Sails(a, j)
  BY ActSails
<1>4. PullsRemain
  BY <1>3 DEF Sails, PullsRemain
<1>5. ASSUME NEW j \in Items
      PROVE  Anchored(j)'
  <2>1. Anchored(j)
    BY <1>1 DEF Moored
  <2>2. item'[j].base \in {item[j].base, NoItem}
    BY <1>3 DEF Sails
  <2>3. ASSUME gh[j].pr = "none", Bare(j)
        PROVE  Bare(j)'
    <3>1. Unopened(item[j]) /\ ~Planned("daemon-rebase", j)
      BY <2>3 DEF Bare
    <3>2. ~Planned("daemon-rebase", j)'
      BY <1>2, <3>1, PlanShrinks
    <3>3. Unopened(item'[j])
      <4>1. CASE j # a.item
        BY <1>1, <1>2, <3>1, <4>1, OthersUnopened
      <4>2. CASE j = a.item
        <5>1. a.type # "daemon-rebase"
          BY <1>2, <3>1, <4>2 DEF Planned, Is
        <5>2. UNCHANGED item \/ \E z : Unopened(z) /\ Update(j, z)
          BY <1>1, <2>3, <3>1, <4>2, <5>1, ActionUnopened
        <5>3. ASSUME NEW z, Unopened(z), Update(j, z)
              PROVE  Unopened(item'[j])
          BY <5>3, UpdateSpares, StillUnopened DEF Unopened
        <5>. QED
          BY <3>1, <5>2, <5>3
      <4>. QED
        BY <4>1, <4>2
    <3>. QED
      BY <1>1, <2>3, <3>2, <3>3 DEF Bare
  <2>. QED
    BY <1>4, <2>1, <2>2, <2>3, AnchoredStays
<1>. QED
  BY <1>5 DEF Moored

---------------------------------------------------------------------------
(* Workers start on what they build on *)

\* A step of the whole program: it keeps all anchored, and a session starts only at an item that
\* left the queue, by an action.
LEMMA NextMoors ==
  ASSUME Inv(FALSE), Inv(FALSE)', Founded, Moored, Next
  PROVE  /\ Moored'
         /\ \A j \in Items : live'[j] \subseteq live[j] \/ (phase = "act" /\ item[j].state # "queued")
<1>. USE DEF Inv
<1>1. CASE StartCycle
  BY <1>1, StartCycleMoors
<1>2. CASE Poll \/ Reevaluate
  BY <1>2, SurveyMoors
<1>3. CASE Schedule
  BY <1>3, ScheduleMoors
<1>4. CASE Act
  <2>. PICK a : a = Head(plan)
    OBVIOUS
  <2>1. \A j \in Items : Sails(a, j)
    BY <1>4, ActSails
  <2>2. phase = "act"
    BY <1>4 DEF Act
  <2>. QED
    BY <1>4, <2>1, <2>2, ActMoors DEF Sails
<1>5. CASE Operator \/ \E i \in Items : BatchComesDue(i)
  BY <1>5, ControlMoors
<1>6. ASSUME NEW i \in Items, World(i)
      PROVE  Moored' /\ \A j \in Items : live'[j] \subseteq live[j]
  BY <1>6, WorldMoors
<1>. QED
  BY <1>1, <1>2, <1>3, <1>4, <1>5, <1>6 DEF Next, Cycle

\* Then it starts on its base.
LEMMA StartsGrounded ==
  ASSUME Inv(FALSE), Inv(FALSE)', Founded, Moored, Next
  PROVE  \A i \in Items : (\E n \in live'[i] : n \notin live[i]) =>
           \A d \in Deps[i] : IF item[i].base = d THEN gh[d].pr # "none" ELSE AlreadyMerged(d)
<1>. SUFFICES ASSUME NEW i \in Items, ~(live'[i] \subseteq live[i]), NEW d \in Deps[i]
              PROVE  IF item[i].base = d THEN gh[d].pr # "none" ELSE AlreadyMerged(d)
  OBVIOUS
<1>1. phase = "act" /\ item[i].state # "queued"
  BY NextMoors
<1>2. Grounded(i) /\ Anchored(i)
  BY <1>1 DEF Founded, Moored
<1>3. Ground(i, item[i].base)
  BY <1>1, <1>2 DEF Grounded, Footing, Supported
<1>4. d # NoItem
  BY DepsAreItems, ItemsAssumption
<1>. QED
  BY <1>2, <1>3, <1>4 DEF Ground, Anchored

\* Every launch has room within the limit, and finds what it builds on: each dependency landed, or
\* its pull request there to be stacked on.
THEOREM LaunchesAreRight ==
  ASSUME "external-merge" \notin Events, "existing-pr" \notin Events
  PROVE  Spec => LaunchesRight
<1>1. Init /\ Inv(FALSE) => Founded /\ Moored
  BY InitFounds, InitMoors DEF Inv
<1>2. Inv(FALSE) /\ Inv(FALSE)' /\ Founded /\ Moored /\ [Next]_vars => Founded' /\ Moored'
  BY NextFounds, StutterFounds, NextMoors, StutterMoors DEF Inv
<1>3. Inv(FALSE) /\ Inv(FALSE)' /\ Founded /\ Moored /\ [Next]_vars =>
        [\A i \in Items : (\E n \in live'[i] : n \notin live[i]) =>
           \A d \in Deps[i] : IF item[i].base = d THEN gh[d].pr # "none" ELSE AlreadyMerged(d)]_vars
  BY StartsGrounded
<1>4. Spec => StartsOnItsBase
  BY <1>1, <1>2, <1>3, InvAlways, PTL DEF Spec, StartsOnItsBase
<1>. QED
  BY <1>4, LaunchesWithinLimit DEF LaunchesRight
=============================================================================
