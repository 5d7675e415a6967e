------------------------------ MODULE Listing ------------------------------
(***************************************************************************)
(* The list of items on the status page: how states are grouped and rows   *)
(* ordered, the selected row, and the part of the list that fits between   *)
(* header and footer.  Keys work on the list as it was drawn last, while   *)
(* the items go on changing.                                               *)
(* (core/status-render.ts, core/orchestrate-tui-render.ts,                 *)
(* core/tui-keyboard.ts)                                                   *)
(***************************************************************************)
EXTENDS Display, Sequences, FiniteSetsExt, SequencesExt

CONSTANTS
  MaxRows,      \* bound: items 1 .. MaxRows, listed in this order
  Reports,      \* the orchestrator states items are reported in, beside done
  Viewports,    \* terminal rows left between header and footer
  MaxPresses,   \* bound: keys pressed and resizes
  MaxNews       \* bound: changes of an item

ASSUME ListingAssumption ==
  /\ MaxRows \in Nat /\ MaxPresses \in Nat /\ MaxNews \in Nat
  /\ Viewports \subseteq Int

Listed == 1 .. MaxRows
AllRows == [k \in Listed |-> k]

VARIABLES
  shown,      \* item -> its reported state, "absent" without one
  needs,      \* item -> its dependencies
  height,     \* rows between header and footer
  expanded,   \* showBlockerDetail
  page,       \* panelMode: "status" or "logs"
  detail,     \* the item whose detail page is open, 0 without
  selected,   \* the selected item, 0 without
  offset,     \* scrollOffset
  layout,     \* statusLayout, as drawn last
  visible,    \* visibleItemIds, as drawn last
  presses, news

listVars == <<shown, needs, height, expanded, page, detail, selected, offset, layout, visible,
              presses, news>>

---------------------------------------------------------------------------
(* The rows *)

Present(items) == {i \in Listed : items[i] # "absent"}

\* computeBlockedBy
BlockedBy(items, i) == {d \in needs[i] \cap Present(items) : MapState(items[d]) # "done"}

\* sortByBlockedThenId; without dependencies the order is that of the list.
Ordered(items) ==
  LET ranked(n) == SelectSeq(AllRows, LAMBDA i : /\ i \in Present(items)
                                                 /\ Cardinality(BlockedBy(items, i)) = n - 1)
  IN  FlattenSeq([n \in 1 .. MaxRows + 1 |-> ranked(n)])

\* buildVisibleStatusLayoutMetadata: active rows, done ones, three lines of heading, queued
\* ones.  A line is told by its item, 0 for the heading.
LayoutOf(items, detailed) ==
  LET order     == Ordered(items)
      state(i)  == MapState(items[i])
      top       == SelectSeq(order, LAMBDA i : state(i) \notin {"queued", "done"})
                   \o SelectSeq(order, LAMBDA i : state(i) = "done")
      queue     == SelectSeq(order, LAMBDA i : state(i) = "queued")
      linesOf(i) == IF detailed /\ BlockedBy(items, i) # {} THEN <<i, i>> ELSE <<i>>
      linesFor(ids) == FlattenSeq([k \in DOMAIN ids |-> linesOf(ids[k])])
  IN  [ids     |-> top \o queue,
       lines   |-> linesFor(top) \o (IF queue = <<>> THEN <<>> ELSE <<0, 0, 0>> \o linesFor(queue)),
       queueAt |-> Len(linesFor(top)),
       queued  |-> Len(queue)]

NoLayout == [ids |-> <<>>, lines |-> <<>>, queueAt |-> 0, queued |-> -1]

---------------------------------------------------------------------------
(* What fits.  Lines are counted from 0. *)

\* clampScrollOffset
Clamped(at, count, view) == IF count <= view THEN 0 ELSE Max({0, Min({at, count - view})})

Above(at) == IF at > 0 THEN 1 ELSE 0
Below(l, at, h) == IF at < Len(l.lines) - Max({1, h}) THEN 1 ELSE 0

\* Mutant and part of one: no line is kept for the marks "more above" and "more below".
WindowWhole(l, at, h) ==
  LET view == Max({1, h})
      top  == Clamped(at, Len(l.lines), view)
  IN  [top |-> top, view |-> view, pinned |-> FALSE]

\* getStatusVisibleLineRange: a line each for the marks, and one for a queue out of sight.
Window(l, at, h) ==
  LET view   == Max({1, h - Above(at) - Below(l, at, h)})
      top    == Clamped(at, Len(l.lines), view)
      pinned == l.queued > 0 /\ l.queueAt >= top + view
  IN  [top |-> top, view |-> IF pinned THEN Max({1, view - 1}) ELSE view, pinned |-> pinned]

InWindow(l, w, i) == \A k \in DOMAIN l.lines : l.lines[k] = i => k - 1 \in w.top .. w.top + w.view - 1

\* Mutant: room is made for the item as if there were no marks and no pinned queue.
ScrollToWhole(l, at, i, direction, h) ==
  LET lines == {k - 1 : k \in {n \in DOMAIN l.lines : l.lines[n] = i}}
  IN  IF lines = {} \/ InWindow(l, WindowWhole(l, at, h), i) THEN at
      ELSE IF direction > 0 THEN Max({0, Max(lines) - h + 1}) ELSE Min(lines)

\* scrollStatusItemIntoView
ScrollTo(l, at, i, direction, h) ==
  LET now  == Window(l, at, h)
      fits == {c \in 0 .. Max({0, Len(l.lines) - 1}) : InWindow(l, Window(l, c, h), i)}
      tops == {Window(l, c, h).top : c \in fits}
      ahead == {t \in tops : direction * t >= direction * now.top}
  IN  CASE i \notin Range(l.ids)              -> at
        [] i \in Range(l.ids) /\ (InWindow(l, now, i) \/ tops = {}) -> now.top
        [] OTHER -> IF direction > 0 THEN Min(IF ahead = {} THEN tops ELSE ahead)
                    ELSE Max(IF ahead = {} THEN tops ELSE ahead)

---------------------------------------------------------------------------
(* Drawing *)

\* Mutant: when the selected item goes, the first row is selected.
NormalizedFirst(ids, was, before) ==
  IF ids = <<>> THEN 0 ELSE IF was \in Range(ids) THEN was ELSE ids[1]

\* normalizeSelectedItemId: an item that went hands over to the nearest that is left.
Normalized(ids, was, before) ==
  LET at      == CHOOSE k \in DOMAIN before : before[k] = was
      left    == {k \in DOMAIN before : before[k] \in Range(ids)}
      far(k)  == IF k > at THEN k - at ELSE at - k
      nearest == {k \in left : \A n \in left : far(k) <= far(n)}
  IN  CASE ids = <<>> -> 0
        [] ids # <<>> /\ was \in Range(ids) -> was
        [] ids # <<>> /\ was \notin Range(ids) /\ was \notin Range(before) -> ids[1]
        [] OTHER -> IF left = {} THEN ids[Min({at, Len(ids)})] ELSE before[Max(nearest)]

\* A terminal of less than ten rows, seven of them header and footer, shows no logs.
LogsShown == page' = "logs" /\ height' >= 3

\* renderTuiPanelFrameFromStatusItems with the items as they are, after a key has set
\* "picked" and "at": prepareStatusSelection, buildPanelLayout, syncStatusLayout.
Draw(picked, at) ==
  IF detail' # 0 /\ shown[detail'] # "absent"
  THEN selected' = picked /\ offset' = at /\ UNCHANGED <<layout, visible>>
  ELSE \E l \in {LayoutOf(shown, expanded')} :
       \E new \in {Normalized(l.ids, picked, IF layout = NoLayout THEN visible ELSE layout.ids)} :
         LET from == IF l.ids = <<>> THEN 0 ELSE at
         IN  /\ selected' = new
             /\ visible' = l.ids
             /\ layout' = IF LogsShown THEN NoLayout ELSE l
             /\ offset' = IF LogsShown THEN from
                          ELSE IF new # 0 THEN ScrollTo(l, from, new, 1, height')
                          ELSE Clamped(from, Len(l.lines), Max({1, height'}))

\* An open detail page whose item is gone closes.
DetailKept(i) == IF i # 0 /\ shown[i] = "absent" THEN 0 ELSE i

Press == presses > 0 /\ presses' = presses - 1 /\ UNCHANGED <<shown, needs, news>>

\* A snapshot of the engine changes an item, adds or drops one.
NewsOf(i, s) ==
  /\ news > 0 /\ news' = news - 1
  /\ s # shown[i] /\ shown' = [shown EXCEPT ![i] = s]
  /\ UNCHANGED <<needs, height, expanded, page, detail, selected, offset, layout, visible, presses>>

Redraw ==
  /\ UNCHANGED <<shown, needs, height, expanded, page, presses, news>>
  /\ detail' = DetailKept(detail)
  /\ Draw(selected, offset)

\* moveStatusSelection, on the list as drawn; both ways round.
Arrow(delta) ==
  /\ Press /\ detail = 0 /\ page = "status"
  /\ UNCHANGED <<height, expanded, page, detail>>
  /\ IF layout.ids = <<>> THEN Draw(selected, offset)
     ELSE LET n    == Len(layout.ids)
              at   == IF selected \in Range(layout.ids)
                      THEN CHOOSE k \in 1 .. n : layout.ids[k] = selected ELSE 1
              next == layout.ids[((at - 1 + delta + n) % n) + 1]
          IN  Draw(next, ScrollTo(layout, offset, next, delta, height))

\* d
ToggleBlockers ==
  /\ Press /\ expanded' = ~expanded
  /\ UNCHANGED <<height, page>> /\ detail' = DetailKept(detail)
  /\ Draw(selected, offset)

\* Tab
SwitchPage ==
  /\ Press /\ page' = (IF page = "status" THEN "logs" ELSE "status")
  /\ UNCHANGED <<height, expanded>> /\ detail' = DetailKept(detail)
  /\ Draw(selected, offset)

\* Enter or i, and Escape.
OpenDetail ==
  /\ Press /\ detail = 0 /\ selected # 0
  /\ detail' = DetailKept(selected)
  /\ UNCHANGED <<height, expanded, page>>
  /\ Draw(selected, offset)

CloseDetail ==
  /\ Press /\ detail # 0 /\ detail' = 0
  /\ UNCHANGED <<height, expanded, page>>
  /\ Draw(selected, offset)

\* onResize
Resize(h) ==
  /\ Press /\ h # height /\ height' = h
  /\ UNCHANGED <<expanded, page>> /\ detail' = DetailKept(detail)
  /\ Draw(selected, Clamped(offset, IF layout = NoLayout THEN 999 ELSE Len(layout.lines),
                            Max({1, h - 3})))

ListNext ==
  \/ \E i \in Listed, s \in Reports \cup {"done", "absent"} : NewsOf(i, s)
  \/ Redraw \/ Arrow(1) \/ Arrow(-1) \/ ToggleBlockers \/ SwitchPage \/ OpenDetail \/ CloseDetail
  \/ \E h \in Viewports : Resize(h)

\* Before the first drawing.  No dependencies, or a chain.
ListInit ==
  /\ shown \in [Listed -> Reports]
  /\ needs \in {[i \in Listed |-> {}], [i \in Listed |-> {i - 1} \cap Listed]}
  /\ height \in Viewports /\ expanded = TRUE /\ page = "status"
  /\ detail = 0 /\ selected = 0 /\ offset = 0 /\ layout = NoLayout /\ visible = <<>>
  /\ presses = MaxPresses /\ news = MaxNews

\* No page is open.
ListClosed ==
  /\ shown = [i \in Listed |-> "absent"] /\ needs = [i \in Listed |-> {}]
  /\ height = 0 /\ expanded = TRUE /\ page = "status"
  /\ detail = 0 /\ selected = 0 /\ offset = 0 /\ layout = NoLayout /\ visible = <<>>
  /\ presses = 0 /\ news = 0
---------------------------------------------------------------------------
(* Properties *)

OnScreen == detail = 0 /\ layout # NoLayout

\* What renderFullScreenFrame puts between header and footer.
FrameLength ==
  LET w      == Window(layout, offset, height)
      hidden == Len(layout.lines) - w.top - w.view
  IN  Above(w.top) + Min({w.view, Len(layout.lines)})
      + (IF w.pinned THEN 1 ELSE IF hidden > 0 THEN 1 ELSE 0)

\* Whatever the engine reports, and however keys, resizes and drawings follow on one another,
\* the selected item is on the screen with its line of blockers, wherever a terminal has
\* room for the marks, the pinned queue and the item.
SelectionInView ==
  OnScreen /\ selected # 0 /\ height >= 5 => InWindow(layout, Window(layout, offset, height), selected)

\* The list leaves the footer its lines, except where it is scrolled to the last offset
\* that needs no mark below.
FooterKept ==
  OnScreen /\ height >= 4 => FrameLength <= height \/ offset = Len(layout.lines) - height

\* The list fits, and the selected item is in it.
ListFits == SelectionInView /\ FooterKept

ArrowKey == presses' # presses /\ UNCHANGED <<height, expanded, page, detail>>

Gap(i) ==
  LET pos(j) == CHOOSE k \in DOMAIN visible : visible[k] = j
  IN  IF pos(i) > pos(selected) THEN pos(i) - pos(selected) ELSE pos(selected) - pos(i)

\* An arrow key is the only thing that takes the selection from an item that is listed; of
\* one that goes it passes to a nearest neighbour, in the list as it was drawn, that is left.
SelectionFollows ==
  [][selected # 0 /\ selected' # selected /\ ~ArrowKey =>
       /\ shown[selected] = "absent"
       /\ \A i \in Range(visible) : shown[i] # "absent" =>
            selected' \in Range(visible) /\ Gap(selected') <= Gap(i)]_listVars
=============================================================================
