------------------------------ MODULE Startup ------------------------------
(***************************************************************************)
(* How items get started by a person: nw without arguments, whose picker   *)
(* shows the list at once and refreshes it against GitHub while it is      *)
(* open, and nw with ids.  Beside it the backlog goes on changing.         *)
(* (core/commands/onboard.ts, core/interactive.ts, core/tui-widgets.ts,    *)
(* core/startup-items.ts, core/commands/orchestrate.ts,                    *)
(* core/commands/run-items.ts)                                             *)
(***************************************************************************)
EXTENDS Backlog, Batches

VARIABLES
  deps,      \* id -> the ids its file names as dependencies
  picker,    \* nw without arguments
  check,     \* refreshRunnableStartupItems
  named      \* nw ID...: what it was asked and what came of it

screen == <<deps, picker, check, named>>
allVars == <<vars, screen>>

\* rows: the items listed; ticked, all, future: the boxes that are ticked; acked: the warning
\* about dependencies was shown last; first: the picker of nw itself; hadItems: hasCurrentItems;
\* off: history, rows the person switched off, or saw come up switched off.
Closed == [at |-> "closed", loaded |-> {}, rows |-> {}, ticked |-> {}, all |-> FALSE,
           future |-> FALSE, acked |-> FALSE, first |-> TRUE, hadItems |-> FALSE,
           off |-> {}, watch |-> FALSE, started |-> {}]

\* todo: items whose PR is still to be asked for; landed: those found to have landed.
\* History: past, what had landed before the refresh began and was asked for without failure.
NoCheck == [at |-> "off", local |-> Nothing, todo |-> {}, landed |-> {}, past |-> {}]

Unasked == [ids |-> <<>>, limit |-> 1, listed |-> {}, refused |-> {}, out |-> Died]

---------------------------------------------------------------------------
(* The check box list *)

\* createStartupSelectionState: every item ticked, or the one row of future tasks.
Fresh(rows) ==
  [picker EXCEPT !.at = "items", !.rows = rows, !.ticked = rows, !.all = rows # {},
                 !.future = rows = {}, !.acked = FALSE, !.off = {}]

\* Mutant: a refreshed list comes up as a new one.
ReplaceItemsFresh(rows) == [Fresh(rows) EXCEPT !.off = picker.off]

\* replaceCheckboxItems: a row that stays keeps its box, a new row takes that of "All".
ReplaceItems(rows) ==
  LET new    == rows \ picker.rows
      ticked == (picker.ticked \cap rows) \cup (IF picker.all THEN new ELSE {})
  IN  [picker EXCEPT !.rows = rows, !.ticked = ticked, !.all = @ /\ rows # {},
                     !.future = rows = {}, !.acked = FALSE,
                     !.off = (@ \cap rows) \cup (rows \ ticked)]

\* What was ticked before and after a key, for the person's own record.
Ticks(ticked, all) ==
  [picker EXCEPT !.ticked = ticked, !.all = all, !.acked = FALSE, !.off = picker.rows \ ticked]

Keys == picker.at = "items" /\ Spend("key")

\* Space on an item: clearing one clears "All", ticking the last one does not tick it.
Toggle(i) ==
  /\ Keys /\ i \in picker.rows
  /\ picker' = IF i \in picker.ticked THEN Ticks(picker.ticked \ {i}, FALSE)
               ELSE Ticks(picker.ticked \cup {i}, picker.all)

\* Space on "All", or on the row of future tasks.
ToggleAll ==
  /\ Keys
  /\ picker' = IF picker.rows = {} THEN [picker EXCEPT !.future = ~@]
               ELSE IF picker.all THEN Ticks({}, FALSE) ELSE Ticks(picker.rows, TRUE)

\* The a key leaves "All" as it is when it ticks every item.
KeyA ==
  /\ Keys
  /\ picker' = IF picker.rows = {} THEN [picker EXCEPT !.future = ~@]
               ELSE IF picker.ticked = picker.rows THEN Ticks({}, FALSE)
               ELSE Ticks(picker.rows, picker.all)

\* validateDeps: a dependency listed and not ticked.
Warns == \E i \in picker.ticked : deps[i] \cap (picker.rows \ picker.ticked) # {}

\* Enter: nothing ticked is refused, and a dependency left out is to be confirmed once more.
Enter ==
  /\ Keys
  /\ IF picker.ticked = {} /\ ~picker.future THEN UNCHANGED picker
     ELSE IF Warns /\ ~picker.acked THEN picker' = [picker EXCEPT !.acked = TRUE]
     ELSE picker' = [picker EXCEPT !.at = "confirm"]

---------------------------------------------------------------------------
(* nw without arguments *)

\* cmdNoArgs lists the items of origin/main as it stands, without fetching.
LoadItems ==
  /\ picker.at = "closed" /\ budget["key"] > 0
  /\ picker' = [picker EXCEPT !.at = "loaded", !.loaded = {i \in Ids : origin[i] # 0}]
  /\ UNCHANGED <<vars, deps, check, named>>

\* runSelectionScreen.  The refresh lists the items again and starts to ask for their PRs; with
\* no items there is none.
OpenPicker ==
  /\ picker.at = "loaded"
  /\ picker' = [Fresh(picker.loaded) EXCEPT !.hadItems = picker.loaded # {}]
  /\ check' = IF picker.loaded = {} THEN check
              ELSE [NoCheck EXCEPT !.at = "asking", !.local = origin,
                                   !.todo = {i \in Ids : origin[i] # 0}, !.past = merged]
  /\ UNCHANGED <<vars, deps, named>>

\* classifyStartupReplayItem: the branch has no open PR and its youngest merged one is the
\* item's own.
Prunes(i) ==
  /\ pulls[i] = 0
  /\ <<i, check.local[i]>> \in merged
  /\ \A t \in check.local[i] + 1 .. MaxFiles : <<i, t>> \notin merged

\* One checkPrStatusDetailedAsync after the other; one that fails keeps the item.
AskPr ==
  /\ check.at = "asking" /\ check.todo # {}
  /\ \E ok \in BOOLEAN :
       LET i == Min(check.todo)
       IN  /\ Goes(ok)
           /\ check' = [check EXCEPT
                !.todo = @ \ {i},
                !.landed = IF ok /\ Prunes(i) THEN @ \cup {i} ELSE @,
                !.past = IF ok /\ pulls[i] = 0 THEN @ ELSE {p \in @ : p[1] # i}]
  /\ UNCHANGED <<github, clone, trees, cmd, marked, deps, picker, named>>

\* The refreshed list replaces the one shown, if that is still open.
ApplyRefresh ==
  /\ check.at = "asking" /\ check.todo = {}
  /\ IF picker.at = "items"
     THEN /\ picker' = ReplaceItems({i \in Ids : check.local[i] # 0} \ check.landed)
          /\ check' = [check EXCEPT !.at = "applied"]
     ELSE check' = [check EXCEPT !.at = "late"] /\ UNCHANGED picker
  /\ UNCHANGED <<vars, deps, named>>

KeyPress ==
  /\ \/ ToggleAll \/ KeyA \/ Enter \/ \E i \in Ids : Toggle(i)
     \/ Keys /\ picker' = [picker EXCEPT !.at = "over"]
  /\ UNCHANGED <<github, clone, trees, cmd, marked, deps, check, named>>

\* runConfirm.  futureOnly is decided by the list the picker opened with.
Confirm ==
  /\ picker.at = "confirm"
  /\ picker' = [picker EXCEPT !.at = "ready",
                  !.watch = picker.all \/ (~picker.hadItems /\ picker.future)]
  /\ UNCHANGED <<vars, deps, check, named>>

\* cmdWatch lists origin/main again.  An id that is gone ends it; with nothing picked and no
\* --watch it opens a second picker, which nothing refreshes.
Begin ==
  LET listed == {i \in Ids : origin[i] # 0}
  IN  /\ picker.at = "ready"
      /\ IF picker.ticked = {} /\ ~picker.watch
         THEN picker' = [Fresh(listed) EXCEPT !.first = FALSE, !.hadItems = listed # {}]
         ELSE IF ~(picker.ticked \subseteq listed) THEN picker' = [picker EXCEPT !.at = "over"]
         ELSE picker' = [picker EXCEPT !.at = "watching",
                           !.started = {<<i, origin[i]>> : i \in picker.ticked}]
      /\ UNCHANGED <<vars, deps, check, named>>

Picking == LoadItems \/ OpenPicker \/ AskPr \/ ApplyRefresh \/ KeyPress \/ Confirm \/ Begin

---------------------------------------------------------------------------
(* nw ID... and nw start ID... *)

\* Every order of the ids named; the launch of the first may fail.
NameItems ==
  /\ Spend("named")
  /\ \E listed \in {{i \in Ids : origin[i] # 0}}, refused \in {{i \in Ids : TurnedAway(i)}},
        ids \in UNION {SetToSeqs(s) : s \in SUBSET Ids \ {{}}}, limit \in {1, MaxIds} :
     \E out \in {RunItems(ids, deps, listed, limit, refused, failing) : failing \in {{}, {1}}}
                \cup {Start(ids, deps, listed, limit, refused)} :
        /\ named' = [ids |-> ids, limit |-> limit, listed |-> listed, refused |-> refused,
                     out |-> out]
        /\ trees' = [i \in Ids |-> IF i \in Range(out.launched)
                                   THEN [token |-> origin[i], commits |-> FALSE] ELSE trees[i]]
  /\ UNCHANGED <<github, clone, cmd, marked, deps, picker, check>>

---------------------------------------------------------------------------
\* The hub starts level with GitHub.  Where named items are launched the graph of dependencies
\* is arbitrary and one item has a PR; elsewhere each item depends on the one before.  A picker
\* opens with one PR under way, on a list with or without the last item.
Init ==
  /\ budget \in Days
  /\ written \in IF budget["key"] > 0 THEN {MaxIds - 1, MaxIds} ELSE {MaxIds}
  /\ main = [i \in Ids |-> IF i <= written THEN i ELSE 0]
  /\ IF budget["named"] > 0
     THEN /\ deps \in {d \in [Ids -> SUBSET Ids] : \A i \in Ids : i \notin d[i]}
          /\ pulls \in {[i \in Ids |-> IF i = n THEN main[i] ELSE 0] : n \in Ids}
     ELSE /\ deps = [i \in Ids |-> {i - 1} \cap Ids]
          /\ pulls = [i \in Ids |-> IF i = 1 /\ budget["key"] > 0 THEN main[i] ELSE 0]
  /\ merged = {}
  /\ origin = main /\ head = main /\ files = main /\ lost = Nothing
  /\ current = TRUE /\ level = TRUE /\ stopped = FALSE
  /\ trees = [i \in Ids |-> [token |-> pulls[i], commits |-> pulls[i] # 0]]
  /\ cmd = Rest /\ marked = {}
  /\ picker = Closed /\ check = NoCheck /\ named = Unasked

Next ==
  \/ (World \/ Hub \/ Reconciling) /\ UNCHANGED screen
  \/ Picking \/ NameItems

Spec == Init /\ [][Next]_allVars

---------------------------------------------------------------------------
(* Properties *)

\* What the person switched off, or saw come up switched off, is neither picked nor started,
\* whenever the refresh comes; and with "All" ticked no item listed is left out.
PickKept ==
  /\ picker.off \cap picker.ticked = {}
  /\ picker.all => picker.ticked = picker.rows
  /\ \A p \in picker.started : p[1] \notin picker.off

\* Once the refresh is on the screen, no item is started that had landed when it began and
\* that GitHub answered for; and an item is taken off the list only for a PR of its own.
RefreshIsRight ==
  /\ check.at = "applied" /\ picker.first => picker.started \cap check.past = {}
  /\ \A i \in check.landed : <<i, check.local[i]>> \in merged

\* nw ID... launches an item only once each dependency of it is off the list, was turned away
\* or was launched before it; no more than the limit; and unless it dies every item named is
\* launched, skipped or turned away.
PlanInOrder ==
  LET l == named.out.launched
  IN  /\ \A k \in DOMAIN l : \A d \in deps[l[k]] :
           d \notin named.listed \/ d \in named.refused \/ \E j \in 1 .. k - 1 : l[j] = d
      /\ Len(l) <= named.limit
      /\ named.ids # <<>> /\ ~named.out.died
           => Range(named.ids) = Range(l) \cup named.out.skipped
                                          \cup (named.refused \cap Range(named.ids))

\* The batch of an item named is the length of its longest chain of dependencies among those
\* named, and it is reported circular exactly if there is no longest.
BatchesRight ==
  named.ids # <<>> =>
    LET chosen == Range(named.ids)
    IN  \A i \in chosen : ComputeBatches(deps, chosen)[i] = ChainTo(deps, chosen, i)

\* What is started is what was asked for: in the list, from its first drawing to the start,
\* and by name.
StartsWhatWasAsked == PickKept /\ RefreshIsRight /\ PlanInOrder /\ BatchesRight
=============================================================================
