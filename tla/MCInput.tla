------------------------------ MODULE MCInput ------------------------------
(***************************************************************************)
(* The instance of InputLoop that TLC checks: five config directories and  *)
(* the key presses that reach every layer of the dispatch.                 *)
(***************************************************************************)
EXTENDS InputLoop

Oak(key) == Written(FALSE, TRUE, {}, key)
After(key) == Written(TRUE, FALSE, {}, key)

\* Bindings of every kind, handlers of which the second stops the chain.
Full == << SetTo("leader", V("table", "ctrl+b")),
           Keybind(Oak("a"), Act("ReloadConfig", "")),
           Keybind(Oak("x"), Act("Callback", "greets")),
           Keybind(After("c"), Act("Callback", "notes")),
           Keybind(After("p"), Act("ShowCommandPalette", "")),
           Keybind(After("a"), Act("SendString", "hello")),
           On("config.loaded", "greets"), On("config.reloaded", "cancels"),
           On("config.reloaded", "after") >>

\* No leader, no status bar, another font; the bindings are a module's, after
\* one that cannot be loaded and one that requires its own parent.
Modular == << TryRequire("gone"), Require("keys"), SetTo("status_bar", V("boolean", "false")),
              SetTo("oak_mod", V("string", "super")), SetTo("font_family", V("string", "Mono")),
              On("appearance.changed", "fails"), On("appearance.changed", "follows") >>

MCDirectories ==
    [full    |-> [exists |-> TRUE, main |-> Full, modules |-> [keys |-> <<>>]],
     modular |-> [exists |-> TRUE, main |-> Modular,
                  modules |-> [keys |-> << Require("keys"), Keybind(Oak("x"), Act("Callback", "greets")),
                                           Keybind(Oak("a"), Act("Paste", "")) >>]],
     failing |-> [exists |-> TRUE, modules |-> [keys |-> <<>>],
                  main |-> Full \o << SetTo("padding", V("table", "missing")) >>],
     unread  |-> [exists |-> TRUE, modules |-> [keys |-> <<>>],
                  main |-> << SetTo("padding", V("table", "huge")),
                              Keybind(Oak("x"), Act("Callback", "greets")) >>],
     absent  |-> [exists |-> FALSE, main |-> <<>>, modules |-> [keys |-> <<>>]]]

MCFirstFiles == {"full", "modular", "unread", "absent"}

MCLeader == Chord({"ctrl"}, "b")

Plain(key) == KeyEvent({}, key, IF key \in Named THEN "" ELSE key, "none")
WithOak(key) == KeyEvent({"ctrl", "shift"}, key, "control", "none")

MCKeys ==
    {KeyEvent({"ctrl"}, "b", "control", "none"), KeyEvent({"shift"}, "pageup", "", "none"),
     KeyEvent({"shift"}, "pagedown", "", "none"), KeyEvent({"ctrl", "shift"}, "&", "", "phys2")}
    \cup {Plain(key) : key \in {"c", "l", "p", "enter", "escape", "down", "backspace"}}
    \cup {WithOak(key) : key \in {"a", "x", "p", "[", "f", "\\", "w", "h"}}
=============================================================================
