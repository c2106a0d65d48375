--------------------------- MODULE VersionedStore ---------------------------
(***************************************************************************)
(* What the layout store promises its windows: one state, whose version     *)
(* grows by one with every change.  Several windows show it, and what they  *)
(* are told comes late and out of order.  A window changes it only while it *)
(* shows the current version, so no window overwrites a change it did not   *)
(* know of; a floating window that is destroyed takes itself away from the  *)
(* current state and leaves the rest alone.                                 *)
(***************************************************************************)
EXTENDS Naturals

CONSTANTS Window,       \* the windows
          MaxVersion    \* bound on the changes of one run

VARIABLES version,      \* of the stored state
          shared,       \* the workspaces and tools that every window shows
          author,       \* whose change the last step was, or "none"
          current       \* the windows that display the current version

Init == version = 0 /\ author = "none" /\ current = Window

\* What becomes of shared is the window's business.
Change(w) ==
    /\ w \in current
    /\ version < MaxVersion
    /\ version' = version + 1
    /\ author' = w
    /\ current' = {}

WindowDestroyed ==
    /\ version < MaxVersion
    /\ version' = version + 1
    /\ author' = "none"
    /\ current' = {}
    /\ UNCHANGED shared

Refresh(w) ==
    /\ current' \in {current \cup {w}, current \ {w}}
    /\ author' = "none"
    /\ UNCHANGED <<version, shared>>

Next == WindowDestroyed \/ \E w \in Window : Change(w) \/ Refresh(w)

Spec == Init /\ [][Next]_<<version, shared, author, current>>
=============================================================================
