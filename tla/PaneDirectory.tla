-------------------------- MODULE PaneDirectory --------------------------
(***************************************************************************)
(* What the pane manager promises its clients: every pane id is born once  *)
(* and dies once, some pane is always live and one live pane is current,   *)
(* and closing panes moves the current pane only when it is itself closed. *)
(* How panes are arranged in tabs and workspaces does not appear.          *)
(***************************************************************************)
CONSTANT Panes

VARIABLES
    life,     \* each id: "unborn", then "live", then "removed", then "closed"
    current   \* the focused pane of the active tab

dirVars == <<life, current>>

Live == {p \in Panes : life[p] = "live"}

DirInit ==
    \E p \in Panes :
      /\ life = [q \in Panes |-> IF q = p THEN "live" ELSE "unborn"]
      /\ current = p

Open(p) ==
    /\ life[p] = "unborn"
    /\ life' = [life EXCEPT ![p] = "live"]
    /\ current' \in {current, p}

\* An id allocated for a split that then fails is never used.
Waste(p) ==
    /\ life[p] = "unborn"
    /\ life' = [life EXCEPT ![p] = "closed"]
    /\ UNCHANGED current

Close(S) ==
    /\ S \subseteq Live /\ S # Live
    /\ life' = [p \in Panes |-> IF p \in S THEN "removed" ELSE life[p]]
    /\ IF current \in S THEN current' \in Live \ S ELSE current' = current

Reap(p) ==
    /\ life[p] = "removed"
    /\ life' = [life EXCEPT ![p] = "closed"]
    /\ UNCHANGED current

Focus(p) ==
    /\ p \in Live
    /\ current' = p
    /\ UNCHANGED life

DirNext ==
    \/ \E p \in Panes : Open(p) \/ Waste(p) \/ Reap(p) \/ Focus(p)
    \/ \E S \in SUBSET Panes : Close(S)

DirSpec == DirInit /\ [][DirNext]_dirVars
=============================================================================
