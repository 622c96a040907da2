------------------------------ MODULE GuiInput ------------------------------
(***************************************************************************)
(* Input and configuration in the GUI process (oakterm/src/main.rs, with   *)
(* input.rs and copy_session.rs): keys through the palette, the leader,    *)
(* copy mode and the bindings to the shell; mouse buttons through chrome,  *)
(* borders and selections; timers; and config.lua loaded at start, by the  *)
(* file watcher's thread and by the reload key.                            *)
(*                                                                         *)
(* The event loop is one thread: an event's handler is one step, written   *)
(* as functions from the state of the application (the record gui) to the  *)
(* state it leaves, in the order of the code's calls.  What a handler      *)
(* sends or calls is in gui.out.                                           *)
(*                                                                         *)
(* The window shows pane 1, or panes 1 and 2 side by side, of its one tab. *)
(* Copy mode is the set of panes in it (CopyView models its keys), and a   *)
(* pane is scrolled by whole pages.                                        *)
(***************************************************************************)
EXTENDS Palette, Config

CONSTANTS Directories,      \* config directory by name: [exists, main, modules]
          Leader,           \* the chord the leader setting names
          CopySupported     \* copy_mode_supported(server_minor)

Loaded == [d \in DOMAIN Directories |-> LoadConfig(Directories[d])]

ASSUME InputAssumption ==
    /\ CopySupported \in BOOLEAN
    /\ \A d \in DOMAIN Directories : Loaded[d] \in LoadResults

-----------------------------------------------------------------------------
Buttons == {"left", "right", "back"}
Panes == {1, 2}
Pages == 0..2

\* A key press as the window system reports it: the modifiers, the key of the
\* layout without them, the text typed, and a position on the digit row.
KeyEvent(mods, key, text, position) ==
    [mods |-> mods, key |-> key, text |-> text, position |-> position]

LogicalChord(e) == Chord(e.mods, e.key)
PhysicalChord(e) == Chord(e.mods, e.position)

\* key_to_bytes: text, or the sequence of a named key.
Named == {"up", "down", "left", "right", "home", "end", "pageup", "pagedown",
          "enter", "escape", "backspace"}
Types(e) == e.text # "" \/ e.key \in Named

\* palette_key_effect: a chord never leaks its letter into the query.
PaletteEffect(e) ==
    CASE e.key = "escape" -> "close"
      [] e.key = "enter" -> "confirm"
      [] e.key \in {"up", "down", "backspace"} -> e.key
      [] e.key = "p" /\ "ctrl" \in e.mods /\ "shift" \notin e.mods -> "up"
      [] e.key = "n" /\ "ctrl" \in e.mods /\ "shift" \notin e.mods -> "down"
      [] OTHER -> IF e.mods \cap {"ctrl", "super", "alt"} # {} \/ e.text = "" THEN "ignored" ELSE "input"

\* chrome_button_bit and the PTY's button code: back and forward count as left.
Bit(button) == IF button = "right" THEN 2 ELSE 0

Settings(s) == Loaded[s.file].config
KeyTable(s) == Loaded[s.file].tables.keys
LeaderTable(s) == Loaded[s.file].tables.leaders

NotPending == [on |-> FALSE, key |-> 0]

InCopyMode(s) == s.focus \in s.copying

Neighbour(s, direction) ==
    IF s.panes # Panes THEN 0
    ELSE IF direction = "left" /\ s.focus = 2 THEN 1
    ELSE IF direction = "right" /\ s.focus = 1 THEN 2 ELSE 0

\* action_context.
Context(s) ==
    [panes    |-> Cardinality(s.panes), tabs |-> 1,
     focus    |-> {d \in {"left", "right"} : Neighbour(s, d) # 0},
     copyMode |-> CopySupported]

\* should_blink, for a cursor that is visible and of a blinking style.
ShouldBlink(s) ==
    Settings(s).blink /\ s.active /\ ~ InCopyMode(s) /\ s.offset[s.focus] = 0

ResetBlink(s) == [s EXCEPT !.blink = ShouldBlink(s)]

Emit(s, kind, n, name) ==
    [s EXCEPT !.out = Append(@, [kind |-> kind, pane |-> s.focus, n |-> n, name |-> name])]

\* try_send_key_bytes: a failed write drops the connection; most callers then
\* leave the event loop.
TrySend(s, key) ==
    CASE s.link = "none" -> s
      [] s.link = "broken" -> [s EXCEPT !.link = "none"]
      [] s.link = "up" -> Emit(s, "key", key, "")

OrExit(before, after) ==
    [after EXCEPT !.exiting = @ \/ (before.link = "broken" /\ after.link = "none")]

\* flush_leader_pending with plan_leader_flush.
FlushLeader(s) ==
    LET t == [s EXCEPT !.pending = NotPending]
    IN IF s.pending.key = 0 \/ InCopyMode(s) THEN t ELSE TrySend(t, s.pending.key)

ReturnToLive(s, pane) ==
    [s EXCEPT !.offset[pane] = 0, !.copying = @ \ {pane}]

\* A resized pane is live again and out of copy mode.
AllLive(s) == [s EXCEPT !.offset = [p \in Panes |-> 0], !.copying = {}]

-----------------------------------------------------------------------------
(***************************************************************************)
(* Reloading.  A result is a directory's name and the number of the VM     *)
(* that ran it (0 when there was none); registry keys live in their VM     *)
(* until they are cleaned up (held).                                       *)
(***************************************************************************)
\* EventRegistry::fire: handlers in order until one returns false; an error or
\* a timeout does not stop the chain.
HandlersOf(all, event) ==
    LET own == {i \in DOMAIN all : all[i].event = event}
        run == {i \in own : \A j \in own : j < i => all[j].handler # "cancels"}
        order == SelectIn([i \in DOMAIN all |-> i], run)
    IN [k \in DOMAIN order |-> all[order[k]].handler]

Handlers == [d \in DOMAIN Directories |-> [e \in KnownEvents |-> HandlersOf(Loaded[d].events, e)]]

Calls(s, handlers) ==
    [k \in DOMAIN handlers |->
        [kind |-> "call", pane |-> s.focus, n |-> s.events, name |-> handlers[k]]]

Fire(s, event) ==
    IF s.lua = 0 THEN s ELSE [s EXCEPT !.out = @ \o Calls(s, Handlers[s.file][event])]

\* Variant, for mutation: the VM is swapped only when there was one.
AdoptLate(s, d, vm) ==
    LET t == FlushLeader([s EXCEPT !.held = (@ \ {s.lua}) \cup ({vm} \ {0}), !.file = d,
                                   !.problem = FALSE, !.binds = vm, !.events = vm,
                                   !.palette = ClosePalette(@)])
    IN [t EXCEPT !.lua = IF @ = 0 THEN 0 ELSE vm]

\* The new registries replace the old, which are cleaned up while their VM is
\* still there.
Adopt(s, d, vm) ==
    LET t == FlushLeader([s EXCEPT !.held = (@ \ {s.lua}) \cup ({vm} \ {0}), !.file = d,
                                   !.problem = FALSE, !.binds = vm, !.events = vm,
                                   !.palette = ClosePalette(@)])
    IN [t EXCEPT !.lua = vm]

\* handle_config_reload. fontOk says whether the new font initialises; when it
\* does not, the handler returns with the rest of the file adopted.
Reload(s, d, vm, fontOk) ==
    LET Fonted(t, was, now) == IF now.font # was.font THEN ReturnToLive(t, t.focus) ELSE t
        LaidOut(t, was, now) ==
            IF <<now.statusBar, now.position>> # <<was.statusBar, was.position>>
            THEN AllLive(t) ELSE t
        Follow(t, was, now) ==
            IF now.font # was.font /\ ~ fontOk THEN [t EXCEPT !.problem = TRUE]
            ELSE Fire(LaidOut(Fonted(t, was, now), was, now), "config.reloaded")
    IN IF Loaded[d].error THEN [s EXCEPT !.problem = TRUE]
       ELSE Follow(Adopt(s, d, vm), Settings(s), Loaded[d].config)

-----------------------------------------------------------------------------
(***************************************************************************)
(* Actions.  env is what execution reads of the world: the directory the   *)
(* config would be loaded from now, the number of its VM, fontOk.          *)
(***************************************************************************)
Ask(s, what) == IF s.link = "up" THEN [s EXCEPT !.asked = @ \cup {[what |-> what, pane |-> s.focus]}]
                ELSE [s EXCEPT !.link = "none"]

EnterCopyMode(s) ==
    IF ~ CopySupported THEN s
    ELSE LET t == [s EXCEPT !.selecting = FALSE]
         IN IF s.link = "up" THEN [t EXCEPT !.copying = @ \cup {s.focus}]
            ELSE [t EXCEPT !.copying = @ \ {s.focus}, !.link = "none"]

\* Callback and LeaderCallback index different tables.
CallAt(s, table, index) ==
    IF s.lua = 0 \/ index > Len(table) THEN Emit(s, "skipped", 0, "")
    ELSE IF table[index].action.type # "Callback" THEN Emit(s, "skipped", 0, "")
    ELSE Emit(s, "call", s.binds, table[index].action.arg)

Call(s, leader, index) == CallAt(s, IF leader THEN LeaderTable(s) ELSE KeyTable(s), index)

Scroll(s, by) ==
    LET to == s.offset[s.focus] + by
    IN IF to <= 0 THEN ReturnToLive(s, s.focus)
       ELSE [s EXCEPT !.offset[s.focus] = IF to > 2 THEN 2 ELSE to, !.copying = @ \ {s.focus}]

\* execute_action_desc: first what asks the daemon or changes the view of the
\* panes, then the rest; index is 0 for an action confirmed in the palette.
Command(s, action) ==
    CASE action.type = "SplitPane" -> Ask(s, "split")
      [] action.type = "ClosePane" -> Ask(s, "close")
      [] action.type = "FocusPane" -> IF Neighbour(s, action.arg) = 0 THEN s
                                      ELSE [s EXCEPT !.focus = Neighbour(s, action.arg)]
      [] action.type = "EnterCopyMode" -> EnterCopyMode(s)
      [] action.type = "Find" -> IF InCopyMode(s) THEN s ELSE EnterCopyMode(s)
      [] action.type = "ShowCommandPalette" ->
            [s EXCEPT !.palette = OpenPalette(@, Context(s)), !.shown = Context(s)]
      [] OTHER -> s

Execute(s, action, leader, index, env) ==
    CASE action.type = "ScrollUp" -> Scroll(s, IF action.arg = "all" THEN 2 ELSE 1)
      [] action.type = "ScrollDown" -> Scroll(s, IF action.arg = "all" THEN -2 ELSE -1)
      [] action.type = "ScrollToPrompt" /\ action.arg = "older" -> [s EXCEPT !.copying = @ \ {s.focus}]
      [] action.type = "SendString" -> IF s.link = "up" THEN Emit(s, "text", 0, action.arg) ELSE s
      [] action.type = "Paste" -> IF s.link = "up" THEN Emit(s, "text", 0, "paste")
                                  ELSE [s EXCEPT !.link = "none"]
      [] action.type = "ReloadConfig" -> Reload(s, env.dir, env.vm, env.fontOk)
      [] action.type = "Callback" -> Call(s, leader, index)
      [] OTHER -> Command(s, action)

\* dispatch_action_at and dispatch_leader_action_at: a binding that cannot run
\* here, or a scroll down at the live view, lets its key through; a leader
\* binding never does.
Runs(s, action) ==
    LET id == ActionIdOf(action) IN IF id = "none" THEN TRUE ELSE Performable(id, Context(s))

Consumes(s, action) ==
    /\ Runs(s, action)
    /\ action.type = "ScrollDown" => s.offset[s.focus] > 0

\* action_desc_of_id.
ActionOf(id) ==
    CASE id = "SplitPaneRight" -> Act("SplitPane", "right")
      [] id = "SplitPaneDown"  -> Act("SplitPane", "down")
      [] id = "FocusPaneLeft"  -> Act("FocusPane", "left")
      [] id = "FocusPaneRight" -> Act("FocusPane", "right")
      [] id = "FocusPaneUp"    -> Act("FocusPane", "up")
      [] id = "FocusPaneDown"  -> Act("FocusPane", "down")
      [] OTHER -> Act(id, "")

-----------------------------------------------------------------------------
\* The palette has every key while it is open (handle_palette_key).
PaletteKey(s, key, env) ==
    LET ctx == Context(s)
        effect == PaletteEffect(key)
    IN CASE effect = "close" -> [s EXCEPT !.palette = ClosePalette(@)]
         [] effect = "up" -> [s EXCEPT !.palette = MoveUp(@)]
         [] effect = "down" -> [s EXCEPT !.palette = MoveDown(@)]
         [] effect = "backspace" -> [s EXCEPT !.palette = Backspaced(@, ctx), !.shown = ctx]
         [] effect = "confirm" ->
              IF CanConfirm(s.palette)
              THEN Execute([s EXCEPT !.palette = Confirmed(@)],
                           ActionOf(s.palette.results[s.palette.selected].id), FALSE, 0, env)
              ELSE s
         [] effect = "input" -> [s EXCEPT !.palette = InputChar(@, key.text, ctx), !.shown = ctx]
         [] effect = "ignored" -> s

\* resolve_key: pending leader, leader chord, copy mode, bindings; the chord
\* the layout gives before the position.
Resolve(s, key) ==
    LET either(i, j) == IF i # 0 THEN i ELSE j
        found(kind, index, otherwise) ==
            IF index = 0 THEN [kind |-> otherwise, index |-> 0] ELSE [kind |-> kind, index |-> index]
        leaders == either(LookupIndex(LeaderTable(s), LogicalChord(key)),
                          LookupIndex(LeaderTable(s), PhysicalChord(key)))
        bind(chord) == LookupIndex(KeyTable(s), chord)
        find(i) == IF i = 0 THEN 0
                   ELSE IF KeyTable(s)[i].action.type = "Find" THEN i ELSE 0
    IN IF s.pending.on
       THEN found("LeaderAction", leaders,
                  IF InCopyMode(s) THEN "LeaderMissDrop" ELSE "LeaderMiss")
       ELSE IF Settings(s).leader /\ Leader \in {LogicalChord(key), PhysicalChord(key)}
       THEN found("LeaderArm", 0, "LeaderArm")
       ELSE IF InCopyMode(s)
       THEN found("Binding", either(find(bind(LogicalChord(key))), find(bind(PhysicalChord(key)))),
                  "CopyMode")
       ELSE found("Binding", either(bind(LogicalChord(key)), bind(PhysicalChord(key))), "Forward")

Forward(s, key, n) ==
    LET t == IF s.offset[s.focus] > 0 THEN ReturnToLive(s, s.focus) ELSE s
    IN IF Types(key) THEN OrExit(s, TrySend(t, n)) ELSE t

\* Variant, for mutation: the key goes first, the leader it followed second.
LeaderMissLater(s, key, n) == OrExit(s, FlushLeader(Forward(s, key, n)))

\* The KeyboardInput handler. n numbers the press; leaves says whether a key
\* in copy mode leaves it.
LeaderMiss(s, key, n) == Forward(OrExit(s, FlushLeader(s)), key, n)

LeaderAction(s, index, env) ==
    LET t == [s EXCEPT !.pending = NotPending]
        action == LeaderTable(s)[index].action
    IN IF Runs(t, action) THEN Execute(t, action, TRUE, index, env) ELSE t

KeyPress(s, key, n, leaves, env) ==
    LET Bound(index) == KeyTable(s)[index].action
        Take(to) ==
            CASE to.kind = "LeaderArm" ->
                   [s EXCEPT !.pending = [on |-> TRUE, key |-> IF Types(key) THEN n ELSE 0]]
              [] to.kind = "LeaderAction" -> LeaderAction(s, to.index, env)
              [] to.kind = "LeaderMiss" -> LeaderMiss(s, key, n)
              [] to.kind = "LeaderMissDrop" -> OrExit(s, FlushLeader(s))
              [] to.kind = "CopyMode" -> [s EXCEPT !.copying = IF leaves THEN @ \ {s.focus} ELSE @]
              [] to.kind = "Binding" /\ Consumes(s, Bound(to.index)) ->
                   Execute(s, Bound(to.index), FALSE, to.index, env)
              [] OTHER -> Forward(s, key, n)
    IN ResetBlink(IF s.palette.visible THEN PaletteKey(s, key, env) ELSE Take(Resolve(s, key)))

-----------------------------------------------------------------------------
\* Mouse buttons. place is where the pointer is: on chrome, a border or a pane.
SendMouse(s, name) ==
    CASE s.link = "none" -> s
      [] s.link = "broken" -> [s EXCEPT !.link = "none", !.exiting = TRUE]
      [] s.link = "up" -> Emit(s, "mouse", 0, name)

PressFate(s, button, place, shift) ==
    IF ~ s.drag /\ place = "chrome" THEN "chrome"
    ELSE IF button = "left" /\ ~ s.drag /\ place = "border" THEN "border"
    ELSE IF shift \/ InCopyMode(s) THEN "kept" ELSE "sent"

MousePress(s, button, place, shift) ==
    LET fate == PressFate(s, button, place, shift)
        selecting == s.selecting \/ (Bit(button) = 0 /\ ~ InCopyMode(s) /\ shift)
    IN CASE fate = "chrome" -> [s EXCEPT !.chrome = @ \cup {Bit(button)}]
         [] fate = "border" -> [s EXCEPT !.drag = TRUE]
         [] fate = "kept" -> [s EXCEPT !.suppressed = @ \cup {Bit(button)}, !.selecting = selecting]
         [] fate = "sent" -> SendMouse(s, "press")

\* Variant, for mutation: a drag takes the release before chrome does.
ReleaseFateDragFirst(s, button) ==
    IF s.drag THEN "border"
    ELSE IF Bit(button) \in s.chrome THEN "chrome"
    ELSE IF Bit(button) \in s.suppressed THEN "kept" ELSE "sent"

ReleaseFate(s, button) ==
    IF Bit(button) \in s.chrome THEN "chrome"
    ELSE IF button = "left" /\ s.drag THEN "border"
    ELSE IF Bit(button) \in s.suppressed THEN "kept" ELSE "sent"

MouseRelease(s, button) ==
    LET fate == ReleaseFate(s, button)
    IN CASE fate = "chrome" -> [s EXCEPT !.chrome = @ \ {Bit(button)}]
         [] fate = "border" -> [s EXCEPT !.drag = FALSE]
         [] fate = "kept" -> [s EXCEPT !.suppressed = @ \ {Bit(button)},
                                       !.selecting = @ /\ Bit(button) # 0]
         [] fate = "sent" -> SendMouse(s, "release")

\* drag_border, over a whole cell or more: a new size, then the new layout.
DragBorder(s) ==
    LET t == Ask(s, "resize") IN [t EXCEPT !.drag = @ /\ t.link = "up"]

\* wheel_route, outside copy mode's own window.
Wheel(s, up, shift, alternate) ==
    IF InCopyMode(s) THEN s
    ELSE IF s.offset[s.focus] > 0 \/ shift \/ ~ alternate
    THEN IF up \/ s.offset[s.focus] > 0 THEN Scroll(s, IF up THEN 1 ELSE -1) ELSE s
    ELSE SendMouse(s, "wheel")

\* WindowEvent::Focused.
WindowFocus(s, active) ==
    LET t == [s EXCEPT !.active = active]
    IN IF active THEN ResetBlink(t) ELSE [t EXCEPT !.blink = FALSE, !.drag = FALSE]

-----------------------------------------------------------------------------

\* about_to_wait: what the event loop sleeps for. The clock's deadline is set
\* by the redraw that shows the status bar; the bell's flash is not modelled.
Deadlines(s) ==
    (IF s.blink THEN {"blink"} ELSE {}) \cup (IF s.pending.on THEN {"leader"} ELSE {})
        \cup (IF Settings(s).statusBar THEN {"clock"} ELSE {})

\* new_events, with the set of deadlines reached.
Expire(s, reached) ==
    LET t == IF "leader" \in reached /\ s.pending.on THEN OrExit(s, FlushLeader(s)) ELSE s
    IN [t EXCEPT !.blink = IF "blink" \in reached THEN ShouldBlink(t) ELSE @]
=============================================================================
