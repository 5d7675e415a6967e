------------------------------- MODULE Pages -------------------------------
(***************************************************************************)
(* The two pages of the terminal that scroll by line: the log, and the     *)
(* page of one item, laid over it.  Entries arrive and the item changes    *)
(* between two drawings; a key is answered from what was drawn last.       *)
(* (core/tui-keyboard.ts, core/status-render.ts,                           *)
(* core/orchestrate-tui-render.ts)                                         *)
(***************************************************************************)
EXTENDS Display, Sequences, FiniteSetsExt, SequencesExt

CONSTANTS
  Batches,       \* what the log starts with, and what is appended at a time
  LogMax,        \* LOG_BUFFER_MAX
  PageRows,      \* heights of the terminal
  Needed,        \* the dependencies of the item
  DepReports,    \* the states they are displayed in
  Bodies,        \* lines of the item's page without blockers and CI failures
  MaxPageKeys, MaxPageNews   \* bounds: keys and resizes, news

ASSUME PagesAssumption ==
  /\ IsFiniteSet(Batches) /\ LogMax \in Nat \ {0} /\ PageRows \subseteq Nat \ 0 .. 9
  /\ IsFiniteSet(Needed) /\ Bodies \subseteq Nat /\ MaxPageKeys \in Nat /\ MaxPageNews \in Nat

VARIABLES
  rows,          \* the height of the terminal, no less than MIN_FULLSCREEN_ROWS
  panel,         \* panelMode: "status", "logs", or "none" where no page is shown
  open,          \* the page of the item is open
  facts,         \* what its page says: own state, dependencies, CI failures, lines beside
  detailAt,      \* detailScrollOffset
  detailLines,   \* detailContentLines: the lines of the page as drawn last
  log,           \* logBuffer, an entry told by its level
  filter,        \* logLevelFilter
  follow,        \* logFollowMode
  logAt,         \* logScrollOffset
  savedLogAt,    \* savedLogScrollOffset
  keys, tidings  \* what is left of the bounds

pageVars == <<rows, panel, open, facts, detailAt, detailLines, log, filter, follow, logAt, savedLogAt,
              keys, tidings>>

Levels == <<"debug", "info", "warn", "error">>
Severity(level) == CHOOSE n \in 1 .. 4 : Levels[n] = level

\* LOG_LEVEL_CYCLE
NextFilter == [info |-> "warn", warn |-> "error", error |-> "all", all |-> "info"]

---------------------------------------------------------------------------
(* What fits *)

\* filterLogsByLevel
Filtered(entries, by) ==
  SelectSeq(entries, LAMBDA level : by = "all" \/ Severity(level) >= Severity(by))

\* pushLogBuffer: the oldest entries go.
Kept(entries) == SubSeq(entries, Max({1, Len(entries) - LogMax + 1}), Len(entries))

AtLeast(n, low) == IF n < low THEN low ELSE n

\* clampScrollOffset
InPage(at, count, view) == IF count <= view THEN 0 ELSE AtLeast(IF at > count - view THEN count - view ELSE at, 0)

\* buildPanelFooter: separator, progress and shortcuts.
FooterLines == 3

\* applyLogFollowMode: where the log is pinned.
Followed(entries, height) == AtLeast(Len(entries) - AtLeast(height - FooterLines, 1), 0)

\* renderPanelFrame: the entries out of sight above and below, and the lines of the frame.
LogFrame(entries, at, height) ==
  LET room  == AtLeast(height - FooterLines, 1)
      top   == InPage(at, Len(entries), room)
      up    == IF top > 0 THEN 1 ELSE 0
      down  == IF Len(entries) > top + room THEN 1 ELSE 0
      view  == AtLeast(room - up - down, 1)
      below == AtLeast(Len(entries) - top - view, 0)
  IN  [above |-> top, below |-> below,
       lines |-> up + (IF view < Len(entries) - top THEN view ELSE Len(entries) - top)
                 + (IF below > 0 THEN 1 ELSE 0) + FooterLines]

\* The lines of an item's page, with one for each dependency it waits for and two for why.
Content(f) ==
  f.body + (IF f.ciFails THEN 2 ELSE 0)
         + (IF f.own = "queued" /\ Reason(Needed, f.deps) # "none"
            THEN 4 + Cardinality(Blockers(Needed, f.deps)) ELSE 0)

\* Mutant: the frame of the page is forgotten.
MaxScrollFrameless(count, height) == AtLeast(count - height, 0)

\* detailOverlayMaxScroll: six lines of frame and two of margin.
MaxScroll(count, height) == IF height <= 8 THEN 0 ELSE AtLeast(count - (height - 8), 0)

\* renderDetailOverlay: the line on top, and the last one shown.
DetailFrame(count, at, height) ==
  LET scrolls == count > height - 8 /\ height > 8
      view    == IF scrolls THEN height - 8 ELSE count
      top     == AtLeast(IF at > count - view THEN count - view ELSE at, 0)
  IN  [top |-> top, bottom |-> top + view,
       lines |-> view + 6 + (IF scrolls /\ top > 0 THEN 1 ELSE 0)
                      + (IF scrolls /\ top + view < count THEN 1 ELSE 0)]

---------------------------------------------------------------------------
(* Keys, news and drawings *)

\* renderTuiPanelFrameFromStatusItems, after a key has put the log at "at" and the page of the
\* item to "wanted": it closes if the item is gone.
DrawPage(wanted, at) ==
  /\ open' = (wanted /\ facts.own # "gone")
  /\ detailLines' = IF open' THEN Content(facts) ELSE detailLines
  /\ logAt' = IF ~open' /\ follow' /\ panel' = "logs" THEN Followed(Filtered(log, filter'), rows') ELSE at

PageKey == keys > 0 /\ keys' = keys - 1 /\ UNCHANGED <<facts, log, tidings>>

\* Arrow up and down, j and k.
Scroll(delta) ==
  /\ PageKey /\ (open \/ panel = "logs")
  /\ detailAt' = IF ~open THEN detailAt
                 ELSE IF delta < 0 THEN AtLeast(detailAt - 1, 0)
                 ELSE Min({MaxScroll(detailLines, rows), detailAt + 1})
  /\ follow' = (follow /\ open)
  /\ UNCHANGED <<rows, panel, filter, savedLogAt>>
  /\ DrawPage(open, IF open THEN logAt ELSE AtLeast(logAt + delta, 0))

\* G
JumpToEnd ==
  /\ PageKey /\ (open \/ panel = "logs")
  /\ detailAt' = IF open THEN MaxScroll(detailLines, rows) ELSE detailAt
  /\ follow' = (follow \/ ~open)
  /\ UNCHANGED <<rows, panel, filter, savedLogAt>>
  /\ DrawPage(open, IF open THEN logAt ELSE AtLeast(Len(Filtered(log, filter)) - AtLeast(rows - 10, 1), 0))

\* l
CycleFilter ==
  /\ PageKey
  /\ filter' = NextFilter[filter] /\ follow' = TRUE
  /\ UNCHANGED <<rows, panel, detailAt, savedLogAt>>
  /\ DrawPage(open, logAt)

\* Tab
CyclePanel ==
  /\ PageKey
  /\ panel' = (IF panel = "status" THEN "logs" ELSE "status")
  /\ follow' = (follow \/ panel' = "logs")
  /\ UNCHANGED <<rows, filter, detailAt, savedLogAt>>
  /\ DrawPage(open, logAt)

\* Enter or i
OpenItem ==
  /\ PageKey /\ ~open
  /\ detailAt' = 0 /\ savedLogAt' = logAt
  /\ UNCHANGED <<rows, panel, filter, follow>>
  /\ DrawPage(TRUE, logAt)

\* Escape
CloseItem ==
  /\ PageKey /\ open
  /\ detailAt' = 0
  /\ UNCHANGED <<rows, panel, filter, follow, savedLogAt>>
  /\ DrawPage(FALSE, savedLogAt)

\* onResize
ResizePage(height) ==
  /\ PageKey /\ height # rows /\ rows' = height
  /\ UNCHANGED <<panel, filter, follow, detailAt, savedLogAt>>
  /\ DrawPage(open, InPage(logAt, Len(Filtered(log, filter)), AtLeast(height - 10, 1)))

DrawAgain ==
  /\ UNCHANGED <<rows, panel, facts, detailAt, log, filter, follow, savedLogAt, keys, tidings>>
  /\ DrawPage(open, logAt)

Tidings == tidings > 0 /\ tidings' = tidings - 1
           /\ UNCHANGED <<rows, panel, open, detailAt, detailLines, filter, follow, logAt, savedLogAt, keys>>

EntriesArrive(batch) ==
  Tidings /\ log' = Kept(log \o batch) /\ UNCHANGED facts

ItemChanges ==
  /\ Tidings /\ UNCHANGED log
  /\ \/ \E s \in {"queued", "implementing", "gone"} : facts' = [facts EXCEPT !.own = s]
     \/ \E d \in Needed, s \in DepReports : facts' = [facts EXCEPT !.deps[d] = s]
     \/ facts' = [facts EXCEPT !.ciFails = TRUE]

PageNext ==
  \/ Scroll(1) \/ Scroll(-1) \/ JumpToEnd \/ CycleFilter \/ CyclePanel \/ OpenItem \/ CloseItem
  \/ \E height \in PageRows : ResizePage(height)
  \/ DrawAgain
  \/ \E batch \in Batches : EntriesArrive(batch)
  \/ ItemChanges

PageInit ==
  /\ rows \in PageRows /\ panel = "status" /\ open = FALSE
  /\ facts \in [own : {"queued"}, deps : [Needed -> DepReports], ciFails : {FALSE}, body : Bodies]
  /\ detailAt = 0 /\ detailLines = 0
  /\ log \in Batches /\ filter = "info" /\ follow = TRUE /\ logAt = 0 /\ savedLogAt = 0
  /\ keys = MaxPageKeys /\ tidings = MaxPageNews

\* No page is shown.
PageClosed ==
  /\ rows = 0 /\ panel = "none" /\ open = FALSE
  /\ facts = [own |-> "gone", deps |-> [d \in Needed |-> "gone"], ciFails |-> FALSE, body |-> 0]
  /\ detailAt = 0 /\ detailLines = 0
  /\ log = <<>> /\ filter = "info" /\ follow = TRUE /\ logAt = 0 /\ savedLogAt = 0
  /\ keys = 0 /\ tidings = 0
---------------------------------------------------------------------------
(* Properties *)

Drawn == tidings' = tidings

\* While the log is followed, every drawing of it leaves at most the newest entry out of
\* sight, whatever arrived, was filtered out or resized since the one before.
NewestNear ==
  panel = "logs" /\ ~open /\ follow => LogFrame(Filtered(log, filter), logAt, rows).below <= 1

Frame == DetailFrame(Content(facts), detailAt, rows)

\* The page of the item shows the item as it is.
UpToDate == open /\ facts.own # "gone" /\ detailLines = Content(facts)

\* And the page of an item never outgrows the terminal; on one that shows the item as it is,
\* arrow down brings one more line into sight until the last one is, and G the last one: the
\* keys count lines as the drawing does (detailOverlayMaxScroll against renderDetailOverlay).
TextReached ==
  [][/\ Drawn => NewestNear'
     /\ Drawn /\ open' => Frame.lines' <= rows'
     /\ UpToDate /\ Scroll(1) => Frame.top' = Frame.top + 1 \/ Frame.bottom = Content(facts)
     /\ UpToDate /\ JumpToEnd => Frame.bottom' = Content(facts)]_pageVars
=============================================================================
