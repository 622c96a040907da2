----------------------------- MODULE Messages -----------------------------
(***************************************************************************)
(* The messages of the protocol: the type code of each and the fields of   *)
(* its payload in order (oakterm-protocol: message.rs, input.rs,           *)
(* render.rs).  Wire writes and reads them.                                *)
(*                                                                         *)
(* The payload of LayoutTree is JSON, written by serde_json and opaque     *)
(* here; what its validation looks at is modelled in LayoutTree.           *)
(***************************************************************************)
EXTENDS Wire

CONSTANT MaxRows   \* ScrollbackData is refused over this: 10,000 in the program

ASSUME MaxRowsAssumption == MaxRows \in Nat

Pane == U32
Tab == U32
Workspace == U32
Str == Text(2)

Message(code, layout) == [code |-> code, layout |-> layout]

-----------------------------------------------------------------------------
\* Connection.
ClientType == Code(1, 0..2)
HandshakeStatus == Code(1, 0..3)
ErrorCode == U32
ShutdownReason == Code(1, 0..2)
RequestShutdownReason == Code(1, 0..1)
ShutdownAckStatus == Code(1, 0..1)

ClientHello == Message(1, <<U16, U16, ClientType, Str>>)
ServerHello == Message(2, <<HandshakeStatus, U16, U16, Str>>)
Ping == Message(3, <<>>)
Pong == Message(4, <<>>)
ErrorMessage == Message(5, <<ErrorCode, Str>>)
Shutdown == Message(6, <<ShutdownReason>>)
RequestShutdown == Message(7, <<RequestShutdownReason>>)
ShutdownAck == Message(8, <<ShutdownAckStatus>>)

\* Input.
KeyInput == Message(100, <<Pane, Text(2)>>)
MouseInput == Message(101, <<Pane, U8, U16, U16, U8, U8>>)
Resize == Message(102, <<Pane, U16, U16, U16, U16>>)
Detach == Message(103, <<>>)

\* Rendering: a cell is its codepoint, two colours of four bytes, flags and
\* whatever extra data it has.
Colour == <<U8, U8, U8, U8>>
WireCell == <<U32>> \o Colour \o Colour \o <<U16, Text(2)>>
DirtyRow == <<U16, ListOf(2, NoLimit, WireCell), U8, Text(2)>>

DirtyNotify == Message(112, <<Pane>>)
GetRenderUpdate == Message(113, <<Pane, U64>>)
RenderUpdate ==
    Message(114, <<Pane, U64, U16, U16, U8, Flag, U8, U8, U8, Flag, Flag, U8, U8,
                   U64, ListOf(2, NoLimit, DirtyRow)>>)
GetScrollback == Message(115, <<Pane, I64, U32>>)
ScrollbackData ==
    Message(116, <<Pane, I64, Flag, U32, U64, ListOf(4, MaxRows, DirtyRow)>>)

\* 0xFF for the older rows, 1 for the newer ones.
SearchDirection == Code(1, {1, Base - 1})
FindPrompt == Message(117, <<Pane, I64, SearchDirection>>)
PromptPosition == Message(118, <<Pane, Maybe(8)>>)
SearchScrollback == Message(119, <<Pane, U8, Str>>)
VisibleMatch == <<U16, U16, U16, Flag>>
SearchResults ==
    Message(120, <<Pane, U32, OrMax(4), I64, Flag, ListOf(2, NoLimit, VisibleMatch)>>)
SearchNext == Message(121, <<Pane>>)
SearchPrev == Message(122, <<Pane>>)
SearchClose == Message(123, <<Pane>>)

\* Pushes.
TitleChanged == Message(128, <<Pane, Str>>)
Bell == Message(130, <<Pane>>)
PaneExited == Message(131, <<Pane, I32>>)

\* Panes and copy mode.
PaneInfo == <<Pane, Str, U16, U16, U32, I32, Str>>
CopySelectionType == Code(1, 0..2)

CreatePane == Message(144, <<Str, Str>>)
CreatePaneResponse == Message(145, <<Pane>>)
ClosePane == Message(146, <<Pane>>)
ClosePaneResponse == Message(147, <<>>)
FocusPane == Message(148, <<Pane>>)
ListPanes == Message(149, <<>>)
ListPanesResponse == Message(150, <<ListOf(2, NoLimit, PaneInfo)>>)
EnterCopyMode == Message(151, <<Pane, U64>>)
ExitCopyMode == Message(152, <<Pane>>)
YankSelection == Message(153, <<Pane, I64, U16, I64, U16, CopySelectionType>>)
YankResponse == Message(154, <<Text(4)>>)
EnterCopyModeAck == Message(155, <<Pane, U64>>)
CopyModeInvalidated == Message(156, <<Pane>>)

\* Layout, tabs and workspaces.
SplitDirection == Code(1, 0..1)
TabEntry == <<Tab, Pane, Str>>

SplitPane == Message(160, <<Pane, SplitDirection, Str, Str>>)
SplitPaneResponse == Message(161, <<Pane>>)
ResizePane == Message(162, <<Pane, Pane, Sint(2)>>)
SwapPane == Message(163, <<Pane, Pane>>)
SwapPaneResponse == Message(164, <<>>)
GetLayoutTree == Message(165, <<Workspace, Tab>>)
LayoutTree == Message(166, <<Text(4)>>)
NewTab == Message(167, <<Workspace, Str, Str>>)
NewTabResponse == Message(168, <<Tab, Pane>>)
CloseTab == Message(169, <<Tab>>)
CloseTabResponse == Message(170, <<>>)
SwitchTab == Message(171, <<Tab>>)
NewWorkspace == Message(172, <<Str>>)
NewWorkspaceResponse == Message(173, <<Workspace, Tab, Pane>>)
SwitchWorkspace == Message(174, <<Workspace>>)
ListTabs == Message(175, <<>>)
TabList == Message(176, <<Workspace, Str, Tab, ListOf(2, NoLimit, TabEntry)>>)
MoveTab == Message(177, <<Tab, U32>>)
RenameTab == Message(178, <<Tab, Str>>)
RenameWorkspace == Message(179, <<Workspace, Str>>)
CloseWorkspace == Message(180, <<Workspace>>)
CloseWorkspaceResponse == Message(181, <<>>)

-----------------------------------------------------------------------------
(* What the daemon answers a request with, when it can; a request it does  *)
(* not have to answer is a push, which only a failure answers.             *)
Answers ==
    { <<Ping, Pong>>, <<RequestShutdown, ShutdownAck>>,
      <<GetRenderUpdate, RenderUpdate>>, <<GetScrollback, ScrollbackData>>,
      <<FindPrompt, PromptPosition>>, <<SearchScrollback, SearchResults>>,
      <<SearchNext, SearchResults>>, <<SearchPrev, SearchResults>>,
      <<CreatePane, CreatePaneResponse>>, <<ClosePane, ClosePaneResponse>>,
      <<ListPanes, ListPanesResponse>>, <<EnterCopyMode, EnterCopyModeAck>>,
      <<YankSelection, YankResponse>>, <<SplitPane, SplitPaneResponse>>,
      <<SwapPane, SwapPaneResponse>>, <<GetLayoutTree, LayoutTree>>,
      <<NewTab, NewTabResponse>>, <<CloseTab, CloseTabResponse>>,
      <<NewWorkspace, NewWorkspaceResponse>>, <<ListTabs, TabList>>,
      <<CloseWorkspace, CloseWorkspaceResponse>> }

Pushes == {KeyInput, MouseInput, Resize, FocusPane, SearchClose, ExitCopyMode,
           ResizePane, SwitchTab, MoveTab, RenameTab, SwitchWorkspace,
           RenameWorkspace}

Requests == {a[1] : a \in Answers}
AnswerTo(request) == (CHOOSE a \in Answers : a[1] = request)[2]
NeverFails == {Ping, ListPanes, ListTabs}

Notices == {DirtyNotify, TitleChanged, Bell, PaneExited, CopyModeInvalidated}

Known == {a[i] : a \in Answers, i \in 1..2} \cup Pushes \cup Notices
           \cup {ClientHello, ServerHello, ErrorMessage, Shutdown, Detach}

MessageOf == [c \in {m.code : m \in Known} |-> CHOOSE m \in Known : m.code = c]
=============================================================================
