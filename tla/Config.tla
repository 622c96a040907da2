------------------------------- MODULE Config -------------------------------
(***************************************************************************)
(* Configuration (crates/oakterm-config): what running config.lua in the   *)
(* sandboxed VM leaves behind.  A config directory is the statements of    *)
(* config.lua and of the modules it may require; evaluating it fills the   *)
(* backing table behind oakterm.config, the list of oakterm.keybind calls, *)
(* the list of oakterm.on calls and the module cache, and loading extracts *)
(* the values, the key tables and the handlers from them.                  *)
(*                                                                         *)
(* A value is [type, v]; a table is shared with the script, which may      *)
(* change it after the assignment was validated (statement "poke").        *)
(***************************************************************************)
EXTENDS Integers, Sequences, FiniteSets, SequencesExt

CONSTANT OakMod            \* default_oak_mod(): {"super"} on macOS, else {"ctrl", "shift"}

ASSUME ConfigAssumption == OakMod \subseteq {"ctrl", "alt", "shift", "super"}

-----------------------------------------------------------------------------
\* Chords: modifiers and one key. Keys named phys1..phys9 are positions on the
\* number row (KeyName::Physical); they are never written in a file.
Chord(mods, key) == [mods |-> mods, key |-> key]

KeyNames == {"a", "b", "c", "x", "t", "w", "p", "f", "h", "j", "k", "l", "[", "\\",
             "-", "1", "2", "up", "down", "home", "end", "pageup", "pagedown"}

\* A chord as written: a leader+ prefix, the oak_mod token, modifiers, a key.
\* An expansion folds into explicit modifiers.
Written(leader, oak, mods, key) == [leader |-> leader, oak |-> oak, mods |-> mods, key |-> key]

Parses(w) == w.key \in KeyNames

Parsed(w, oak) == Chord(w.mods \cup (IF w.oak THEN oak ELSE {}), w.key)

\* Actions: [type, arg]; a callback's arg names the Lua function.
Act(type, arg) == [type |-> type, arg |-> arg]

\* action_id_of: the catalog id of an action, or none. Split directions
\* collapse to the axis, focus directions do not.
ActionIdOf(action) ==
    CASE action.type = "SplitPane" ->
           (CASE action.arg \in {"left", "right"} -> "SplitPaneRight"
              [] action.arg \in {"up", "down"} -> "SplitPaneDown"
              [] OTHER -> "none")
      [] action.type = "FocusPane" ->
           (CASE action.arg = "left" -> "FocusPaneLeft"
              [] action.arg = "right" -> "FocusPaneRight"
              [] action.arg = "up" -> "FocusPaneUp"
              [] action.arg = "down" -> "FocusPaneDown"
              [] OTHER -> "none")
      [] action.type \in {"ClosePane", "NewTab", "CloseTab", "NextTab", "PreviousTab",
                          "ToggleFullscreen", "ShowCommandPalette", "ReloadConfig",
                          "EnterCopyMode", "Find"} -> action.type
      [] OTHER -> "none"

\* KeyTable: a sequence of [chord, action]; the last registration of a chord
\* wins. 0 is no binding.
LookupIndex(table, chord) ==
    LET hits == {i \in 1..Len(table) : table[i].chord = chord}
    IN IF hits = {} THEN 0 ELSE CHOOSE i \in hits : \A j \in hits : j <= i

Bind(chord, action) == [chord |-> chord, action |-> action]

\* with_defaults_for: the built-in table for the oak_mod in force. The digit
\* chords are bound by character and by position.
DefaultBindings(oak) ==
    LET o(key) == Chord(oak, key)
        s(key) == Chord({"shift"}, key)
        os(key) == Chord(oak \cup {"shift"}, key)
    IN << Bind(s("pageup"), Act("ScrollUp", "page")),   Bind(s("pagedown"), Act("ScrollDown", "page")),
          Bind(s("home"), Act("ScrollUp", "all")),      Bind(s("end"), Act("ScrollDown", "all")),
          Bind(os("up"), Act("ScrollToPrompt", "older")), Bind(os("down"), Act("ScrollToPrompt", "newer")),
          Bind(o("\\"), Act("SplitPane", "right")),     Bind(o("-"), Act("SplitPane", "down")),
          Bind(o("h"), Act("FocusPane", "left")),       Bind(o("j"), Act("FocusPane", "down")),
          Bind(o("k"), Act("FocusPane", "up")),         Bind(o("l"), Act("FocusPane", "right")),
          Bind(o("t"), Act("NewTab", "")),              Bind(o("w"), Act("ClosePane", "")),
          Bind(o("p"), Act("ShowCommandPalette", "")),  Bind(o("["), Act("EnterCopyMode", "")),
          Bind(o("f"), Act("Find", "")),
          Bind(Chord({"ctrl"}, "pagedown"), Act("NextTab", "")),
          Bind(Chord({"ctrl"}, "pageup"), Act("PreviousTab", "")),
          Bind(o("1"), Act("SwitchTab", "1")),          Bind(o("phys1"), Act("SwitchTab", "1")),
          Bind(o("2"), Act("SwitchTab", "2")),          Bind(o("phys2"), Act("SwitchTab", "2")) >>

-----------------------------------------------------------------------------
\* The schema: what an assignment may store and what extraction can read back.
OneOf == [cursor_style |-> {"block", "underline", "bar"}, window_decorations |-> {"full", "none"},
            status_bar_position |-> {"bottom", "top"}, copy_mode_keybinds |-> {"vim", "emacs", "basic"},
            check_for_updates |-> {"off", "check"}, text_blending |-> {"linear", "linear_corrected"}]

Flags == {"cursor_blink", "save_alternate_scrollback", "scroll_indicator", "confirm_close_process",
          "scrollback_archive", "daemon_persist", "status_bar"}
Texts == {"font_family", "theme"}
Sizes == {"scrollback_limit", "scrollback_archive_limit"}
Measures == {"font_size", "text_gamma"}
ConfigKeys == DOMAIN OneOf \cup Flags \cup Texts \cup Sizes \cup Measures
                \cup {"oak_mod", "leader", "padding"}

V(type, v) == [type |-> type, v |-> v]

\* The validators. A size is a count or a string such as "50MB"; a leader
\* table needs a parseable key and a positive timeout; padding needs four
\* non-negative integers, of any size.
Validates(key, x) ==
    CASE key \in DOMAIN OneOf -> x.type = "string" /\ x.v \in OneOf[key]
      [] key \in Flags -> x.type = "boolean"
      [] key \in Texts -> x.type = "string"
      [] key \in Sizes -> x.type \in {"number", "string"} /\ x.v \notin {"negative", "50QB"}
      [] key \in Measures -> x.type = "number" /\ x.v # "negative"
      [] key = "oak_mod" -> x.type = "string" /\ x.v \notin {"", "ctrl+x"}
      [] key = "leader" -> x.type = "nil" \/ (x.type = "table" /\ x.v \notin {"nokey", "zero"})
      [] key = "padding" -> x.type = "table" /\ x.v \notin {"missing", "negative"}

\* Extraction reads the tables again, as they are by then, and a padding must
\* fit in 32 bits.
Extracts(key, x) ==
    CASE key = "leader" -> x.v \notin {"nokey", "zero"}
      [] key = "padding" -> x.v \notin {"missing", "negative", "huge"}
      [] OTHER -> TRUE

KnownEvents == {"appearance.changed", "config.loaded", "config.reloaded", "window.created",
                "window.focused", "window.resized", "pane.created", "pane.focused",
                "pane.closed", "pane.title_changed", "pane.cwd_changed"}

-----------------------------------------------------------------------------
\* Statements, all of one shape.
Stmt(op, name, x, w, action) == [op |-> op, name |-> name, value |-> x, chord |-> w, action |-> action]

NoValue == V("nil", "")
NoChord == Written(FALSE, FALSE, {}, "")
NoAct == Act("none", "")

SetTo(key, x) == Stmt("set", key, x, NoChord, NoAct)
Poke(key, x) == Stmt("poke", key, x, NoChord, NoAct)
On(event, handler) == Stmt("on", event, NoValue, NoChord, Act("Callback", handler))
Keybind(w, action) == Stmt("keybind", "", NoValue, w, action)
Require(module) == Stmt("require", module, NoValue, NoChord, NoAct)
TryRequire(module) == Stmt("try", module, NoValue, NoChord, NoAct)     \* pcall(require, module)

\* A VM at the start: [failed, backing, binds, handlers, cache].
FreshVm(modules) ==
    [failed |-> FALSE, backing |-> [key \in ConfigKeys |-> NoValue], binds |-> <<>>,
     handlers |-> <<>>, cache |-> [m \in DOMAIN modules |-> "absent"]]

Fail(vm) == [vm EXCEPT !.failed = TRUE]

\* A directory's statements, and the VMs that run them.
Statements(dir) == ToSet(dir.main) \cup UNION {ToSet(dir.modules[m]) : m \in DOMAIN dir.modules}

Vms(dir) ==
    [failed : BOOLEAN, backing : [ConfigKeys -> {NoValue} \cup {s.value : s \in Statements(dir)}],
     binds : Seq(Statements(dir)), handlers : Seq(Statements(dir)),
     cache : [DOMAIN dir.modules -> {"absent", "running", "loaded"}]]

\* Statement by statement; after an error nothing more of the chunk runs. A
\* module is marked while it runs, so that a cycle gets a placeholder instead
\* of running for ever, and the mark goes when it fails, so that the next
\* require reports the error again.
Exec(dir) ==
    LET exec[stmts \in Seq(Statements(dir)), vm \in Vms(dir)] ==
          IF stmts = <<>> \/ vm.failed THEN vm
          ELSE LET s == Head(stmts)
                   required == IF s.name \notin DOMAIN dir.modules THEN Fail(vm)
                               ELSE IF vm.cache[s.name] # "absent" THEN vm
                               ELSE LET ran == exec[dir.modules[s.name],
                                                    [vm EXCEPT !.cache[s.name] = "running"]]
                                    IN [ran EXCEPT !.cache[s.name] =
                                          IF ran.failed THEN "absent" ELSE "loaded"]
                   next == CASE s.op = "set" -> IF s.name \in ConfigKeys /\ Validates(s.name, s.value)
                                                THEN [vm EXCEPT !.backing[s.name] = s.value] ELSE Fail(vm)
                             [] s.op = "poke" -> IF vm.backing[s.name].type = "table"
                                                 THEN [vm EXCEPT !.backing[s.name] = s.value] ELSE Fail(vm)
                             [] s.op = "on" -> IF s.name \in KnownEvents
                                               THEN [vm EXCEPT !.handlers = Append(@, s)] ELSE Fail(vm)
                             [] s.op = "keybind" -> IF Parses(s.chord)
                                                    THEN [vm EXCEPT !.binds = Append(@, s)] ELSE Fail(vm)
                             [] s.op = "require" -> required
                             [] s.op = "try" -> [required EXCEPT !.failed = FALSE]
               IN exec[Tail(stmts), next]
    IN exec[dir.main, FreshVm(dir.modules)]

-----------------------------------------------------------------------------
\* The values the rest of the client reads here, and their defaults.
Values(backing) ==
    [leader    |-> backing["leader"].type = "table",
     statusBar |-> backing["status_bar"].v # "false",
     position  |-> IF backing["status_bar_position"].v = "top" THEN "top" ELSE "bottom",
     font      |-> IF backing["font_family"].type = "nil" THEN "" ELSE backing["font_family"].v,
     blink     |-> backing["cursor_blink"].v # "false"]

DefaultValues == Values([key \in ConfigKeys |-> NoValue])

ModifiersOf(text) == CASE text = "super" -> {"super"} [] text = "ctrl+alt" -> {"ctrl", "alt"}
                       [] OTHER -> OakMod

\* extract_keybind_registry: the defaults, then the file's bindings, each
\* expanded against the final oak_mod; leader+ goes to a table of its own.
Tables(binds, oak) ==
    LET own(leader) == SelectSeq(binds, LAMBDA s : s.chord.leader = leader)
        entry(s) == Bind(Parsed(s.chord, oak), s.action)
        seq(leader) == [i \in 1..Len(own(leader)) |-> entry(own(leader)[i])]
    IN [keys |-> DefaultBindings(oak) \o seq(FALSE), leaders |-> seq(TRUE)]

EventHandlers(handlers) ==
    [i \in 1..Len(handlers) |-> [event |-> handlers[i].name, handler |-> handlers[i].action.arg]]

\* load_config_from: no file or an empty one is the defaults with no VM; a
\* failing script the defaults with its VM; a value that cannot be extracted
\* the default values, but the file's own bindings and handlers.
NoVmResult == [error |-> FALSE, vm |-> FALSE, config |-> DefaultValues, events |-> <<>>,
               tables |-> [keys |-> DefaultBindings(OakMod), leaders |-> <<>>]]

Extracted(ran) ==
    LET values == \A key \in ConfigKeys : Extracts(key, ran.backing[key])
    IN [error |-> ~ values, vm |-> TRUE,
        config |-> IF values THEN Values(ran.backing) ELSE DefaultValues,
        events |-> EventHandlers(ran.handlers),
        tables |-> Tables(ran.binds,
                          IF values THEN ModifiersOf(ran.backing["oak_mod"].v) ELSE OakMod)]

Chords == [mods : SUBSET {"ctrl", "alt", "shift", "super"}, key : STRING]

Bindings == Seq([chord : Chords, action : [type : STRING, arg : STRING]])

\* What a load returns.
LoadResults ==
    [error : BOOLEAN, vm : BOOLEAN,
     config : [leader : BOOLEAN, statusBar : BOOLEAN, position : {"top", "bottom"},
               font : STRING, blink : BOOLEAN],
     events : Seq([event : KnownEvents, handler : STRING]),
     tables : [keys : Bindings, leaders : Bindings]]

LoadConfig(dir) ==
    LET Result(ran) == IF ran.failed THEN [NoVmResult EXCEPT !.error = TRUE, !.vm = TRUE]
                       ELSE Extracted(ran)
    IN IF dir.main = <<>> THEN NoVmResult
       ELSE Result(Exec(dir))
=============================================================================
