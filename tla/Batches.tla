------------------------------ MODULE Batches ------------------------------
(***************************************************************************)
(* nw ID..., the launch of named items without the loop: what is refused,  *)
(* the dependency batches, and what is launched before the session limit.  *)
(* Pure: every operator is a function of what was listed and named.        *)
(* (core/commands/batch-order.ts, core/commands/run-items.ts)              *)
(***************************************************************************)
EXTENDS Integers, Sequences, FiniteSets, FiniteSetsExt, SequencesExt

\* The items assigned after n rounds: those whose chosen dependencies all were before.
Rounds(deps, chosen) ==
  LET after[n \in 0 .. Cardinality(chosen)] ==
        IF n = 0 THEN {} ELSE
        after[n - 1] \cup {i \in chosen : deps[i] \cap chosen \subseteq after[n - 1]}
  IN  after

\* computeBatches: item -> its batch, 0 for circularItems.
ComputeBatches(deps, chosen) ==
  LET after == Rounds(deps, chosen)
  IN  [i \in chosen |->
         IF i \notin after[Cardinality(chosen)] THEN 0
         ELSE Min({n \in 1 .. Cardinality(chosen) : i \in after[n]})]

---------------------------------------------------------------------------
(* nw ID... and nw start ID... *)

Died == [died |-> TRUE, launched |-> <<>>, skipped |-> {}]

\* One item after another: what is past the limit is skipped, what validatePickupCandidate
\* turns away is passed over, and a launch that fails ends the command.
LaunchAll(order, limit, refused, failing) ==
  FoldLeft(LAMBDA out, i :
            IF out.died THEN out
            ELSE IF Len(out.launched) >= limit THEN [out EXCEPT !.skipped = @ \cup {i}]
            ELSE IF i \in refused THEN out
            ELSE IF i \in failing THEN [out EXCEPT !.died = TRUE]
            ELSE [out EXCEPT !.launched = Append(@, i)],
          [Died EXCEPT !.died = FALSE], order)

\* A dependency that is still listed and was not named with the item.
Lacks(ids, deps, listed) == \E i \in Range(ids) : \E d \in deps[i] : d \in listed \ Range(ids)

\* cmdRunItems.  Batches are launched one after the other, none waits for the one before.
RunItems(ids, deps, listed, limit, refused, failing) ==
  LET chosen == Range(ids)
      batch  == ComputeBatches(deps, chosen)
      order  == FlattenSeq([b \in 1 .. Len(ids) |-> SelectSeq(ids, LAMBDA i : batch[i] = b)])
  IN  IF ~(chosen \subseteq listed) \/ Lacks(ids, deps, listed) \/ \E i \in chosen : batch[i] = 0
      THEN Died ELSE LaunchAll(order, limit, refused, failing)

\* cmdStart: no dependency may be listed, named or not; a failed launch is not looked at.
Start(ids, deps, listed, limit, refused) ==
  IF \E i \in Range(ids) : i \notin listed \/ deps[i] \cap listed # {} THEN Died
  ELSE LaunchAll(ids, limit, refused, {})

---------------------------------------------------------------------------
(* What a batch is *)

Chains(deps, chosen, n) ==
  {c \in [1 .. n -> chosen] : \A k \in 1 .. n - 1 : c[k] \in deps[c[k + 1]]}

\* The longest chain of chosen dependencies that ends at an item; 0 if there is no longest.
ChainTo(deps, chosen, i) ==
  LET lengths == {n \in 1 .. Cardinality(chosen) + 1 :
                    \E c \in Chains(deps, chosen, n) : c[n] = i}
  IN  IF Cardinality(chosen) + 1 \in lengths THEN 0 ELSE Max(lengths)
=============================================================================
