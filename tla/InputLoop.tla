----------------------------- MODULE InputLoop -----------------------------
(***************************************************************************)
(* The GUI's event loop around the handlers of GuiInput: the user's keys,  *)
(* buttons, edits and window switches, the daemon's answers, the deadlines *)
(* and the results of the config watcher's thread, in any order.           *)
(***************************************************************************)
EXTENDS GuiInput

CONSTANTS FirstFiles,       \* the directories that may be there at startup
          Keys,             \* the key events a user may send
          MaxEvents         \* bound on what happens of its own accord

ASSUME LoopAssumption ==
    /\ FirstFiles \subseteq DOMAIN Directories
    /\ MaxEvents \in Nat

VARIABLES
    gui,        \* the application
    files,      \* the config directory, its watcher and the results it posted
    hand,       \* the user: what each held button's press came to and in which
                \* pane, last key sent
    count       \* the user's and the daemon's events so far

vars == <<gui, files, hand, count>>

-----------------------------------------------------------------------------
\* Each load has a VM of its own: the watcher's are odd, the keys' even.
WatcherVm(loads) == 2 * loads + 1
KeyVm(n) == 2 * n

\* Nothing to run, no VM.
VmOf(d, vm) == IF Loaded[d].vm THEN vm ELSE 0

Started(d) ==
    LET vm == VmOf(d, WatcherVm(0))
        s == [panes |-> {1}, focus |-> 1, asked |-> {}, copying |-> {},
              offset |-> [p \in Panes |-> 0], palette |-> Closed,
              shown |-> [panes |-> 1, tabs |-> 1, focus |-> {}, copyMode |-> CopySupported],
              pending |-> NotPending, file |-> d, binds |-> vm, events |-> vm, lua |-> vm,
              held |-> {vm} \ {0}, problem |-> Loaded[d].error, chrome |-> {}, suppressed |-> {},
              drag |-> FALSE, selecting |-> FALSE, link |-> "up", exiting |-> FALSE,
              active |-> TRUE, blink |-> FALSE, out |-> <<>>]
    IN IF Loaded[d].error THEN s ELSE Fire(s, "config.loaded")

\* resumed loads the config first and starts the watcher last.
Init ==
    \E d \in FirstFiles :
        /\ gui = Started(d)
        /\ files = [current |-> d, started |-> FALSE, watching |-> FALSE, dirty |-> FALSE,
                    missed |-> FALSE, posted |-> <<>>, loads |-> 0]
        /\ hand = [down |-> [b \in Buttons |-> "none"], pane |-> [b \in Buttons |-> 0],
                   clean |-> TRUE, last |-> 0]
        /\ count = 0

Running == files.started /\ ~ gui.exiting

Now == [gui EXCEPT !.out = <<>>]

Counted == count < MaxEvents /\ count' = count + 1

-----------------------------------------------------------------------------
KeysIn(out) == {i \in DOMAIN out : out[i].kind = "key"}

LastKey(out) == IF KeysIn(out) = {} THEN hand.last ELSE out[Max(KeysIn(out))].n

PressKey(key) ==
    /\ Running /\ gui.active
    /\ Counted
    /\ \E leaves, fontOk \in BOOLEAN :
        /\ leaves => InCopyMode(gui)
        /\ gui' = KeyPress(Now, key, count + 1, leaves,
                           [dir |-> files.current, fontOk |-> fontOk,
                            vm |-> VmOf(files.current, KeyVm(count + 1))])
    /\ hand' = [hand EXCEPT !.last = LastKey(gui'.out)]
    /\ UNCHANGED files

Places == {"pane"} \cup (IF Settings(gui).statusBar THEN {"chrome"} ELSE {})
                   \cup (IF gui.panes = Panes THEN {"border"} ELSE {})

Held == {b \in Buttons : hand.down[b] # "none"}

\* The program in the pane with the focus is the one that may hear of it.
PressButton(button) ==
    /\ Running /\ gui.active
    /\ hand.down[button] = "none"
    /\ Counted
    /\ \E place \in Places, shift \in BOOLEAN :
        /\ gui' = MousePress(Now, button, place, shift)
        /\ hand' = [hand EXCEPT !.down[button] = PressFate(gui, button, place, shift),
                                !.pane[button] = gui.focus,
                                !.clean = @ /\ \A b \in Held : Bit(b) # Bit(button)]
    /\ UNCHANGED files

ReleaseButton(button) ==
    /\ Running
    /\ button \in Held
    /\ gui' = MouseRelease(Now, button)
    /\ hand' = [hand EXCEPT !.down[button] = "none", !.pane[button] = 0]
    /\ UNCHANGED <<files, count>>

\* While another window is in front the release may go there.
ReleasedElsewhere(button) ==
    /\ Running /\ ~ gui.active
    /\ button \in Held
    /\ gui' = Now
    /\ hand' = [hand EXCEPT !.down[button] = "none", !.pane[button] = 0,
                            !.clean = @ /\ Bit(button) \notin gui.chrome \cup gui.suppressed]
    /\ UNCHANGED <<files, count>>

\* A drag may end before its button comes up.
CutShort(down) ==
    [down EXCEPT !["left"] = IF @ = "border" /\ ~ gui'.drag THEN "cut" ELSE @]

MoveBorder ==
    /\ Running /\ gui.drag
    /\ Counted
    /\ gui' = DragBorder(Now)
    /\ hand' = [hand EXCEPT !.down = CutShort(@)]
    /\ UNCHANGED files

TurnWheel ==
    /\ Running
    /\ Counted
    /\ \E up, shift, alternate \in BOOLEAN : gui' = Wheel(Now, up, shift, alternate)
    /\ UNCHANGED <<files, hand>>

SwitchWindow ==
    /\ Running
    /\ Counted
    /\ gui' = WindowFocus(Now, ~ gui.active)
    /\ hand' = [hand EXCEPT !.down = CutShort(@)]
    /\ UNCHANGED files

\* A resize gives the panes new sizes; a theme change tells the script.
WindowResized ==
    /\ Running
    /\ Counted
    /\ gui' = AllLive(Now)
    /\ UNCHANGED <<files, hand>>

ThemeChanged ==
    /\ Running
    /\ Counted
    /\ gui' = Fire(Now, "appearance.changed")
    /\ UNCHANGED <<files, hand>>

-----------------------------------------------------------------------------
\* The daemon's answers: a split, a close, a border moved, or its refusal.
Split(s) ==
    IF s.panes = Panes THEN s
    ELSE AllLive([s EXCEPT !.panes = Panes, !.focus = CHOOSE p \in Panes : p \notin s.panes])

\* apply_layout_tree drops the drag of the pair that lost a pane.
ClosePane(s, pane) ==
    IF s.panes = {pane} \/ pane \notin s.panes THEN s
    ELSE AllLive([s EXCEPT !.panes = @ \ {pane}, !.drag = FALSE,
                           !.focus = IF @ = pane THEN CHOOSE p \in Panes : p # pane ELSE @])

Answered(request) ==
    /\ Running
    /\ request \in gui.asked
    /\ LET s == [Now EXCEPT !.asked = @ \ {request}]
       IN \/ request.what = "split" /\ gui' = Split(s)
          \/ request.what = "close" /\ gui' = ClosePane(s, request.pane)
          \/ request.what = "resize" /\ gui' \in {s, AllLive(s)}
    /\ hand' = [hand EXCEPT !.down = CutShort(@)]
    /\ UNCHANGED <<files, count>>

\* The daemon refuses the entry, or the pinned rows are gone.
CopyModeEnds(pane) ==
    /\ Running
    /\ pane \in gui.copying
    /\ Counted
    /\ gui' = [Now EXCEPT !.copying = @ \ {pane}]
    /\ UNCHANGED <<files, hand>>

LinkBreaks ==
    /\ Running
    /\ gui.link = "up"
    /\ Counted
    /\ gui' = [Now EXCEPT !.link = "broken"]
    /\ UNCHANGED <<files, hand>>

\* The reader thread posts Disconnected.
Disconnected ==
    /\ Running
    /\ gui.link # "up"
    /\ gui' = [Now EXCEPT !.exiting = TRUE]
    /\ UNCHANGED <<files, hand, count>>

-----------------------------------------------------------------------------
\* The directory itself is watched, once: where a watch is of the directory
\* and not of its path, it ends when the directory is removed.
Edit(d) ==
    /\ Counted
    /\ d # files.current
    /\ \E kept \in IF Directories[d].exists THEN {TRUE} ELSE BOOLEAN :
        files' = [files EXCEPT !.current = d, !.dirty = @ \/ files.watching,
                               !.missed = ~ files.watching, !.watching = @ /\ kept]
    /\ UNCHANGED <<gui, hand>>

StartWatcher ==
    /\ ~ files.started
    /\ files' = [files EXCEPT !.started = TRUE, !.watching = Directories[files.current].exists]
    /\ UNCHANGED <<gui, hand, count>>

\* The watcher's thread, once changes have been quiet for 300 ms.
WatcherLoads ==
    /\ files.dirty
    /\ files' = [files EXCEPT !.dirty = FALSE, !.loads = @ + 1,
                              !.posted = Append(@, [dir |-> files.current,
                                                    vm  |-> WatcherVm(files.loads + 1)])]
    /\ UNCHANGED <<gui, hand, count>>

Reloaded ==
    /\ Running
    /\ files.posted # <<>>
    /\ LET result == Head(files.posted)
       IN \E fontOk \in BOOLEAN : gui' = Reload(Now, result.dir, VmOf(result.dir, result.vm), fontOk)
    /\ files' = [files EXCEPT !.posted = Tail(@)]
    /\ hand' = [hand EXCEPT !.last = LastKey(gui'.out)]
    /\ UNCHANGED count

\* ResumeTimeReached: the earliest deadline slept for has passed, and perhaps
\* others.
Wake(reached) ==
    /\ Running
    /\ reached \cap Deadlines(gui) # {}
    /\ gui' = Expire(Now, reached)
    /\ hand' = [hand EXCEPT !.last = LastKey(gui'.out)]
    /\ UNCHANGED <<files, count>>

Timers == {"blink", "clock", "leader"}

Next ==
    \/ \E key \in Keys : PressKey(key)
    \/ \E button \in Buttons :
        PressButton(button) \/ ReleaseButton(button) \/ ReleasedElsewhere(button)
    \/ MoveBorder \/ TurnWheel \/ SwitchWindow \/ WindowResized \/ ThemeChanged
    \/ \E request \in gui.asked : Answered(request)
    \/ \E pane \in Panes : CopyModeEnds(pane)
    \/ LinkBreaks \/ Disconnected
    \/ \E d \in DOMAIN Directories : Edit(d)
    \/ StartWatcher \/ WatcherLoads \/ Reloaded
    \/ \E reached \in SUBSET Timers : Wake(reached)

Spec == Init /\ [][Next]_vars

\* The threads run: the start finishes, time passes for an armed deadline, the
\* watcher's thread and the event loop take what is there.
FairSpec ==
    /\ Spec
    /\ WF_vars(StartWatcher) /\ WF_vars(WatcherLoads) /\ WF_vars(Reloaded)
    /\ WF_vars(Wake({"leader"}))

-----------------------------------------------------------------------------
\* Types, and: a leader waits only while there is one configured and never
\* behind an open palette.
TypeOK ==
    /\ gui.panes \in {{1}, {2}, Panes} /\ gui.focus \in gui.panes
    /\ gui.copying \subseteq gui.panes
    /\ \A p \in Panes : gui.offset[p] > 0 => p \in gui.panes
    /\ gui.link \in {"up", "broken", "none"}
    /\ gui.file \in DOMAIN Directories
    /\ gui.pending.on => Settings(gui).leader /\ ~ gui.palette.visible
    /\ gui.pending.key # 0 => gui.pending.on /\ gui.pending.key \in 1..count
    /\ gui.chrome \cup gui.suppressed \subseteq {0, 2}

\* Lua callbacks: the registry keys held are those of the live VM and of no
\* other, and what runs is a callback the adopted file registered, in that
\* VM; none is ever skipped.
CallbacksAreLive ==
    /\ gui.held = {gui.lua} \ {0}
    /\ gui.binds = gui.lua /\ gui.events = gui.lua
    /\ \A i \in 1..Len(gui.out) :
        LET o == gui.out[i]
        IN /\ o.kind # "skipped"
           /\ o.kind = "call" => o.n = gui.lua /\ o.n # 0

\* The loop's state is sound and the callbacks it makes are of the live config.
CallsAreSound == TypeOK /\ CallbacksAreLive

\* An open palette shows, for the context it was last refreshed in, exactly
\* the actions its query matches, best first, each with its best alignment.
PaletteShowsBest == gui.palette.visible => ShowsTheBest(gui.palette, gui.shown)

\* Keys reach the shell in the order they were typed and at most once, never
\* from behind the palette or into a pane in copy mode; and a key held back
\* for the leader goes first, unless a leader binding claimed it, copy mode
\* drops it or the connection is gone.
TypingStaysInOrder ==
    [][LET sent == KeysIn(gui'.out)
       IN gui' # gui =>
            /\ \A i \in sent :
                /\ gui'.out[i].n > hand.last
                /\ \A j \in sent : j < i => gui'.out[j].n < gui'.out[i].n
                /\ ~ gui.palette.visible /\ gui'.out[i].pane \notin gui.copying
            /\ (gui.pending.key # 0 /\ gui'.pending # gui.pending /\ gui.link = "up"
                    /\ ~ InCopyMode(gui)) =>
                IF sent = {} THEN count' # count
                ELSE gui'.out[Min(sent)].n = gui.pending.key]_vars

\* What the application takes to be pressed.
Marked(s, down) ==
    /\ s.drag = (down["left"] = "border")
    /\ s.chrome = {Bit(b) : b \in {c \in Buttons : down[c] = "chrome"}}
    /\ s.suppressed = {Bit(b) : b \in {c \in Buttons : down[c] = "kept"}}
    /\ s.selecting => \E b \in Buttons : down[b] = "kept" /\ Bit(b) = 0

\* The panes whose program is told of a release.
Told(out) == {out[i].pane : i \in {j \in 1..Len(out) : out[j].name = "release"}}

\* A release the application sees, while there is a daemon to tell.
Released(b) == b \in Held /\ hand'.down[b] = "none" /\ gui.active /\ gui.link = "up"

\* A release is told to the pane that was told of the press and to no other,
\* and not at all when the application kept the press.
Whole(b) == Told(gui'.out) = IF hand.down[b] = "sent" THEN {hand.pane[b]} ELSE {}

\* The two clicks that fall apart: the focus moved between press and release,
\* or the drag ended before its button came up.
Halved(b) ==
    /\ Told(gui'.out) = {gui.focus}
    /\ \/ hand.down[b] = "cut"
       \/ hand.down[b] = "sent" /\ gui.focus # hand.pane[b]

\* What the application takes to be pressed is what the user holds, and every
\* release goes where its press went but for two cases: the focus has moved,
\* and the new pane hears of it; a drag was cut short, and a pane hears of it.
\* That is as long as no marked release was lost to another window and no two
\* buttons that share a bit were held at once (button_passthrough pairs a
\* release with its press by one bit, to hand no program half a click).
ClicksComeWhole ==
    [][hand'.clean =>
        /\ Marked(gui', hand'.down)
        /\ \A b \in Buttons : Released(b) => Whole(b) \/ Halved(b)]_vars

\* A pending leader press always comes to an end.
LeaderSettles == gui.pending.on ~> (~ gui.pending.on \/ gui.exiting)

\* What is in the config directory is what the application runs, or it shows
\* the error.
Followed == IF Loaded[files.current].error THEN gui.problem ELSE gui.file = files.current

\* What is in the directory in the end is followed - unless nothing watched
\* the last edit, as when the directory had been removed and its watch with it.
EditsReachTheApp == <>[](gui.exiting \/ files.missed \/ Followed)

=============================================================================
