------------------------------- MODULE Panel -------------------------------
(***************************************************************************)
(* The live status page of an interactive session and the pipe between it  *)
(* and its engine, a child process: keys, the settings the page shows and  *)
(* those it waits for, the control commands the engine reads and the       *)
(* snapshots, answers and the result it writes; the death of the engine    *)
(* and the recovery page.                                                  *)
(* (core/tui-keyboard.ts, core/tui-settings.ts, core/watch-engine-runner.ts,*)
(*  core/orchestrate-crew.ts, core/orchestrate-completion.ts,              *)
(*  core/commands/orchestrate.ts)                                          *)
(*                                                                         *)
(* What only scrolls, selects or is drawn is left out; Up and Down in the  *)
(* controls reach every row, so the row of a key is any row.               *)
(***************************************************************************)
EXTENDS Integers, Sequences

CONSTANTS
  None,           \* no value
  BypassEnabled,  \* --dangerously-bypass
  MaxLimit,       \* bound on the session limit
  MaxEvents       \* bound on choices of the operator and events of the world

ASSUME PanelAssumption ==
  /\ BypassEnabled \in BOOLEAN
  /\ MaxLimit \in Nat \ {0}
  /\ MaxEvents \in Nat

VARIABLES
  args,      \* the settings the engine is started with
  shown,     \* the settings of the last snapshot
  pending,   \* the settings asked for and not yet confirmed
  intent,    \* the collaboration row of the controls
  overlay,   \* the page on top: "none", "help", "controls"
  quitKey,   \* the key that asks to quit once more, or "no"
  closing,   \* shutdownInProgress
  debounce,  \* the timer of a merge strategy runs
  operator,  \* "watching", "recovery", "prompt", "ended"
  commands,  \* what the engine has not read
  messages,  \* what the page has not read
  engine,    \* the engine's settings
  running,   \* the engine: "starting", "running", "finished", "dead"
  aborted,   \* runAbortController
  connecting,\* connections to the broker under way
  chosen,    \* the operator's last choice of each setting since the engine started
  events     \* events so far

panelVars == <<args, shown, pending, intent, overlay, quitKey, closing, debounce, operator,
               commands, messages, engine, running, aborted, connecting, chosen, events>>

Settings == {"paused", "intake", "strategy", "limit", "review", "collaboration"}

\* MERGE_STRATEGY_OPTIONS as a settings row offers them.
Strategies == <<"manual", "auto">> \o (IF BypassEnabled THEN <<"bypass">> ELSE <<>>)

\* The order in which Shift+Tab goes round.
StrategyCycle == <<"auto", "manual">> \o (IF BypassEnabled THEN <<"bypass">> ELSE <<>>)

Values ==
  [paused |-> BOOLEAN, intake |-> BOOLEAN, strategy |-> {Strategies[n] : n \in DOMAIN Strategies},
   limit |-> 1..MaxLimit, review |-> {"off", "on"}, collaboration |-> {"local", "connected"}]

Nothing == [s \in Settings |-> None]

\* A choice, or what the world does.
Happens == events < MaxEvents /\ events' = events + 1

\* What the page shows of a setting (isTuiPaused, isTuiAcceptingWork).
Effective(s) == IF pending[s] # None THEN pending[s] ELSE shown[s]

AtLeastOne(n) == IF n < 1 THEN 1 ELSE n

Other(mode) == CHOOSE m \in Values["collaboration"] : m # mode

Place(v, list) == CHOOSE n \in DOMAIN list : list[n] = v

---------------------------------------------------------------------------
(* The pipe *)

\* writeInteractiveEngineControl: a sender is bound while an engine lives.
Sent(command) == IF running \in {"starting", "running"} THEN Append(commands, command) ELSE commands

Send(command) == commands' = Sent(command)

Set(s, v) == [type |-> "set", setting |-> s, value |-> v]
Collaborate(mode) == [type |-> "collaborate", setting |-> "collaboration", value |-> mode]
Shutdown == [type |-> "shutdown", setting |-> None, value |-> None]

Snapshot(e) == [type |-> "snapshot", runtime |-> e]
Answer(mode) == [type |-> "answer", runtime |-> mode]
Result == [type |-> "result", runtime |-> None]

\* applyRuntimeSnapshotToTuiState: a confirmed wish is no longer pending.
Confirmed(runtime) == [s \in Settings |-> IF pending[s] = runtime[s] THEN None ELSE pending[s]]

ApplySnapshot(runtime) ==
  /\ shown' = runtime
  /\ pending' = Confirmed(runtime)
  /\ intent' = IF pending'["collaboration"] # None THEN pending'["collaboration"]
               ELSE runtime["collaboration"]
  /\ UNCHANGED debounce

\* onChildData: the page reads the engine's next line. An error leaves the wish as it is.
PanelReads ==
  /\ operator = "watching" /\ messages # <<>>
  /\ LET m == Head(messages) IN
       /\ m.type \in {"snapshot", "answer"}
       /\ IF m.type = "snapshot" THEN ApplySnapshot(m.runtime)
          ELSE /\ pending' = [pending EXCEPT !["collaboration"] =
                                IF m.runtime = "error" THEN @ ELSE m.runtime]
               /\ UNCHANGED <<shown, intent, debounce>>
  /\ messages' = Tail(messages)
  /\ UNCHANGED <<args, overlay, quitKey, closing, operator, commands, engine, running, aborted,
                 connecting, chosen, events>>

---------------------------------------------------------------------------
(* Keys *)

Listening == operator \in {"watching", "prompt"}

\* The page listens while it watches, and still does at the prompt; a key other than a quit key takes back the first
\* of the two that quit.
Key ==
  /\ Listening
  /\ quitKey' = "no"
  /\ UNCHANGED <<args, shown, closing, operator, messages, engine, running, aborted, connecting>>

\* Behind the help page nothing is heard, and while paused only Escape.
Heard == overlay # "help" /\ ~Effective("paused")

InControls == overlay = "controls"

Choose(s, v) == Happens /\ chosen' = [chosen EXCEPT ![s] = v]

NoChoice == UNCHANGED <<chosen, events>>

\* Mutant: a wish that the last snapshot already shows is not sent.
WishUnlessShown(s, v) ==
  /\ pending' = [pending EXCEPT ![s] = v]
  /\ IF v = shown[s] THEN UNCHANGED commands ELSE Send(Set(s, v))
  /\ Choose(s, v)

\* setPaused, setAcceptingWork: the wish stays pending until a snapshot confirms it.
Wish(s, v) ==
  /\ pending' = [pending EXCEPT ![s] = v]
  /\ Send(Set(s, v))
  /\ Choose(s, v)

\* Escape: closes the controls, else pauses, or resumes.
Escape ==
  /\ Key /\ overlay # "help"
  /\ IF InControls
     THEN overlay' = "none" /\ intent' = shown["collaboration"]
          /\ NoChoice /\ UNCHANGED <<pending, commands, debounce>>
     ELSE Wish("paused", ~Effective("paused")) /\ UNCHANGED <<overlay, intent, debounce>>

\* "p"
ToggleIntake ==
  /\ Key /\ Heard
  /\ Wish("intake", ~Effective("intake"))
  /\ UNCHANGED <<overlay, intent, debounce>>

\* adjustControlsValue on the row of reviews, which toggles.
ToggleReview ==
  /\ Key /\ InControls
  /\ LET v == IF Effective("review") = "on" THEN "off" ELSE "on" IN
       /\ pending' = [pending EXCEPT !["review"] = IF v = shown["review"] THEN None ELSE v]
       /\ Send(Set("review", v))
       /\ Choose("review", v)
  /\ UNCHANGED <<overlay, intent, debounce>>

\* queueStrategyChange: the choice waits for the timer; one that is already shown is dropped.
QueueStrategyChange(v) ==
  /\ pending' = [pending EXCEPT !["strategy"] = IF v = shown["strategy"] THEN None ELSE v]
  /\ debounce' = (v # shown["strategy"])
  /\ Choose("strategy", v)
  /\ UNCHANGED <<overlay, intent, commands>>

\* Shift+Tab
CycleStrategy ==
  /\ Key /\ Heard
  /\ LET now == Place(Effective("strategy"), StrategyCycle) IN
       QueueStrategyChange(StrategyCycle[(now % Len(StrategyCycle)) + 1])

\* Left and Right on the row of the merge strategy.
StepStrategy(delta) ==
  /\ Key /\ InControls
  /\ LET next == Place(Effective("strategy"), Strategies) + delta IN
       /\ next \in DOMAIN Strategies
       /\ QueueStrategyChange(Strategies[next])

\* The timer of queueStrategyChange.
StrategySettles ==
  /\ Listening /\ debounce
  /\ debounce' = FALSE
  /\ IF pending["strategy"] \in {None, shown["strategy"]}
     THEN pending' = [pending EXCEPT !["strategy"] = None] /\ UNCHANGED commands
     ELSE Send(Set("strategy", pending["strategy"])) /\ UNCHANGED pending
  /\ UNCHANGED <<args, shown, intent, overlay, quitKey, closing, operator, messages, engine,
                 running, aborted, connecting, chosen, events>>

\* "+", "-", Left and Right on the row of the limit. onMaxInflightChange reads the limit after
\* the page has already moved it, and moves it once more.
StepLimit(delta) ==
  /\ Key /\ (Heard \/ InControls)
  /\ LET asked == AtLeastOne(Effective("limit") + delta)
         limit == AtLeastOne(asked + delta)
     IN /\ limit <= MaxLimit
        /\ pending' = [pending EXCEPT !["limit"] = IF asked = shown["limit"] THEN None ELSE asked]
        /\ IF limit = asked THEN UNCHANGED commands ELSE Send(Set("limit", limit))
        /\ Choose("limit", asked)
  /\ UNCHANGED <<overlay, intent, debounce>>

\* Left and Right on the row of the collaboration; its Enter acts.
StepIntent ==
  /\ Key /\ InControls
  /\ intent' = Other(IF pending["collaboration"] # None THEN pending["collaboration"] ELSE intent)
  /\ NoChoice /\ UNCHANGED <<pending, overlay, commands, debounce>>

\* Enter on that row (triggerCollaborationIntent).
TriggerCollaboration ==
  /\ Key /\ InControls
  /\ Send(Collaborate(intent))
  /\ Choose("collaboration", intent)
  /\ UNCHANGED <<pending, intent, overlay, debounce>>

\* "c", "?", Enter, and Escape on the help page: what is on top.
ToggleOverlay ==
  /\ Key
  /\ \/ overlay = "help" /\ overlay' = "none" /\ UNCHANGED intent
     \/ Heard /\ overlay' = "help" /\ intent' = shown["collaboration"]
     \/ Heard /\ overlay' = (IF InControls THEN "none" ELSE "controls")
              /\ intent' = shown["collaboration"]
     \/ InControls /\ overlay' = "none" /\ intent' = shown["collaboration"]
  /\ IF overlay' = "none" THEN UNCHANGED events ELSE Happens
  /\ UNCHANGED <<pending, commands, debounce, chosen>>

\* "q" or Ctrl-C: the first asks, the same key again within two seconds quits (confirmQuit).
\* Bound: it does not quit again while that is on its way.
Quit(key) ==
  /\ Listening
  /\ IF quitKey = key
     THEN /\ ~aborted /\ \A n \in DOMAIN commands : commands[n] # Shutdown
          /\ quitKey' = "no" /\ closing' = TRUE /\ Send(Shutdown)
          /\ UNCHANGED events
     ELSE quitKey' = key /\ Happens /\ UNCHANGED <<closing, commands>>
  /\ UNCHANGED <<args, shown, pending, intent, overlay, debounce, operator, messages, engine,
                 running, aborted, connecting, chosen>>

\* The two seconds pass.
QuitLapses ==
  /\ Listening /\ quitKey # "no" /\ ~closing
  /\ quitKey' = "no"
  /\ UNCHANGED <<args, shown, pending, intent, overlay, closing, debounce, operator, commands,
                 messages, engine, running, aborted, connecting, chosen, events>>

---------------------------------------------------------------------------
(* The engine. *)

\* handleEngineSnapshot writes a line, and the engine goes on.
Emitted(lines) == messages' = messages \o lines

\* sendControl of the runner. Two commands are answered by a snapshot at once; the others show in
\* that of the next poll.
Obey(command) ==
  LET s == command.setting
      e == [engine EXCEPT ![s] = command.value]
  IN /\ engine' = e
     /\ IF s \in {"intake", "limit"} /\ e # engine THEN Emitted(<<Snapshot(e)>>)
        ELSE UNCHANGED messages

\* handleInteractiveEngineControl, applyRuntimeCollaborationAction: to be local is done at once;
\* to connect takes a while, in which the engine reads on.
CollaborationAction(mode) ==
  IF mode = "local"
  THEN /\ engine' = [engine EXCEPT !["collaboration"] = "local"]
       /\ Emitted(<<Answer("local")>>)
       /\ UNCHANGED connecting
  ELSE IF engine["collaboration"] = "connected"
       THEN Emitted(<<Answer("connected")>>) /\ UNCHANGED <<engine, connecting>>
       ELSE connecting' = connecting + 1 /\ UNCHANGED <<engine, messages>>

EngineReads ==
  /\ running = "running" /\ commands # <<>>
  /\ LET c == Head(commands) IN
       \/ c.type = "set" /\ Obey(c) /\ UNCHANGED <<connecting, aborted>>
       \/ c.type = "collaborate" /\ CollaborationAction(c.value) /\ UNCHANGED aborted
       \/ c.type = "shutdown" /\ aborted' = TRUE /\ UNCHANGED <<engine, messages, connecting>>
  /\ commands' = Tail(commands)
  /\ UNCHANGED <<args, shown, pending, intent, overlay, quitKey, closing, debounce, operator,
                 running, chosen, events>>

\* nextBroker.connect() settles.
ConnectSettles(ok) ==
  /\ running = "running" /\ connecting > 0
  /\ connecting' = connecting - 1
  /\ IF ok THEN /\ engine' = [engine EXCEPT !["collaboration"] = "connected"]
                /\ Emitted(<<Answer("connected")>>)
           ELSE Emitted(<<Answer("error")>>) /\ UNCHANGED engine
  /\ UNCHANGED <<args, shown, pending, intent, overlay, quitKey, closing, debounce, operator,
                 commands, running, aborted, chosen, events>>

\* The engine process dies with what it had not written.
EngineDies ==
  /\ Happens /\ running \in {"starting", "running"}
  /\ running' = "dead"
  /\ commands' = <<>> /\ connecting' = 0
  /\ UNCHANGED <<args, shown, pending, intent, overlay, quitKey, closing, debounce, operator,
                 messages, engine, aborted, chosen>>

---------------------------------------------------------------------------
(* The session *)

\* spawnInteractiveEngineChild: neither pause nor intake is an argument.
Spawned(settings) ==
  /\ args' = settings
  /\ engine' = settings
  /\ running' = "starting"
  /\ aborted' = FALSE /\ commands' = <<>> /\ connecting' = 0 /\ messages' = <<>>
  /\ chosen' = Nothing

\* buildInteractiveEngineChildArgs
ChildArgs(runtime) == [runtime EXCEPT !["paused"] = FALSE, !["intake"] = TRUE]

\* cleanup of the keyboard: a strategy that waits is forgotten.
KeyboardGone ==
  /\ pending' = [pending EXCEPT !["strategy"] = None]
  /\ debounce' = FALSE

\* The pipe closes: with a result the session ends or, without watch, asks what next; without one
\* the page offers to start the engine again.
EngineCloses(watching) ==
  /\ operator = "watching"
  /\ IF messages = <<Result>>
     THEN /\ running = "finished"
          /\ operator' = IF watching THEN "ended" ELSE "prompt"
          /\ UNCHANGED <<pending, debounce, quitKey>>
     ELSE /\ messages = <<>> /\ running = "dead"
          /\ operator' = "recovery"
          /\ KeyboardGone /\ UNCHANGED quitKey
  /\ messages' = <<>> /\ commands' = <<>> /\ connecting' = 0
  /\ UNCHANGED <<args, shown, intent, overlay, closing, engine, running, aborted, chosen, events>>

\* waitForEngineRecoveryKey: "r" starts the engine with the arguments it had.
RestartEngine ==
  /\ operator = "recovery"
  /\ operator' = "watching"
  /\ Spawned(args)
  /\ UNCHANGED <<shown, pending, intent, overlay, quitKey, closing, debounce, events>>

\* "r" at the prompt, and items chosen: a new engine with the settings last shown.
RunMore ==
  /\ operator = "prompt" /\ Happens
  /\ operator' = "watching"
  /\ Spawned(ChildArgs(shown))
  /\ KeyboardGone
  /\ intent' = shown["collaboration"]
  /\ UNCHANGED <<shown, overlay, quitKey, closing>>

\* "q" on the recovery page; "q" or "c" at the prompt.
Leave ==
  /\ operator \in {"recovery", "prompt"}
  /\ operator' = "ended"
  /\ UNCHANGED <<args, shown, pending, intent, overlay, quitKey, closing, debounce, commands,
                 messages, engine, running, aborted, connecting, chosen, events>>

PanelInit(settings) ==
  /\ args = settings /\ shown = settings /\ engine = settings
  /\ pending = Nothing /\ intent = settings["collaboration"]
  /\ overlay = "none" /\ quitKey = "no" /\ closing = FALSE /\ debounce = FALSE
  /\ operator = "watching" /\ commands = <<>> /\ messages = <<>>
  /\ running = "starting" /\ aborted = FALSE /\ connecting = 0
  /\ chosen = Nothing /\ events = 0

Keyboard ==
  \/ Escape
  \/ ToggleIntake
  \/ ToggleReview
  \/ CycleStrategy
  \/ \E delta \in {-1, 1} : StepStrategy(delta) \/ StepLimit(delta)
  \/ StepIntent
  \/ TriggerCollaboration
  \/ ToggleOverlay
  \/ \E key \in {"q", "ctrl-c"} : Quit(key)

\* What the engine's loop does not wait for.
PanelNext ==
  \/ Keyboard
  \/ StrategySettles
  \/ QuitLapses
  \/ PanelReads
  \/ EngineReads
  \/ \E ok \in BOOLEAN : ConnectSettles(ok)
=============================================================================
