----------------------------- MODULE DockLayout -----------------------------
(***************************************************************************)
(* The dock of a workspace or of a floating window: a tree whose leaves are *)
(* groups of display slots and whose inner nodes are splits.  A group is    *)
(*   [id, role, slots, active, collapsed]                                   *)
(* and a split is [kids].  Directions and ratios only place the children on *)
(* the screen and are left out; the ratios always match the children in     *)
(* number because every operation that changes the children renormalises    *)
(* them.  A slot is [id, tag, tool].                                        *)
(*                                                                         *)
(* An operation that can fail returns the set of its results, empty when    *)
(* the code returns an error.  An operation that may leave no layout        *)
(* returns a sequence of at most one layout.                                *)
(***************************************************************************)
EXTENDS Naturals, SequencesExt

\* Without directions, a drop on the lower side is one on the right side.
Side == {"left", "right", "up"}
Role == {"content", "side_panel"}
NoSlot == <<>>      \* the empty active_slot_id

IsSplit(l) == "kids" \in DOMAIN l

Before(side) == side \in {"left", "up"}

Group(id, role, slots, active) ==
    [id |-> id, role |-> role, slots |-> slots, active |-> active, collapsed |-> FALSE]

Split(side, inserted, existing) ==
    [kids |-> IF Before(side) THEN <<inserted, existing>> ELSE <<existing, inserted>>]

------------------------------------------------------------------------------
\* Looking things up.

RECURSIVE Groups(_)
Groups(l) == IF IsSplit(l) THEN FlattenSeq([i \in DOMAIN l.kids |-> Groups(l.kids[i])]) ELSE <<l>>

SlotSeq(l) == LET gs == Groups(l) IN FlattenSeq([i \in DOMAIN gs |-> gs[i].slots])
GroupSet(l) == ToSet(Groups(l))
Slots(l) == UNION {ToSet(g.slots) : g \in GroupSet(l)}

Holds(g, s) == \E i \in DOMAIN g.slots : g.slots[i].id = s
ContainsSlot(l, s) == \E x \in Slots(l) : x.id = s
ContainsGroup(l, id) == \E g \in GroupSet(l) : g.id = id
GroupOf(l, s) == SelectSeq(Groups(l), LAMBDA g : Holds(g, s))[1]
SlotNamed(l, s) == SelectSeq(SlotSeq(l), LAMBDA x : x.id = s)[1]
HasRole(l, role) == \E g \in GroupSet(l) : g.role = role

------------------------------------------------------------------------------
\* Mapping the groups, and the cleanup that follows a removal.
MapGroups(F(_), l) ==
    LET RECURSIVE M(_)
        M(n) == IF IsSplit(n) THEN [n EXCEPT !.kids = [i \in DOMAIN n.kids |-> M(n.kids[i])]] ELSE F(n)
    IN M(l)

\* A group keeps its active slot while that slot is one of its own.
WithSlots(g, slots) ==
    [g EXCEPT !.slots = slots,
              !.active = IF Holds([g EXCEPT !.slots = slots], g.active) THEN g.active ELSE slots[1].id]

Emptied(g) == [g EXCEPT !.slots = <<>>, !.active = NoSlot, !.collapsed = FALSE]

Rebuilt(kids) == IF kids = <<>> THEN <<>> ELSE <<[kids |-> kids]>>

RECURSIVE CollapseSingleChild(_)
CollapseSingleChild(l) ==
    IF ~IsSplit(l) THEN <<l>>
    ELSE LET kids == FlattenSeq([i \in DOMAIN l.kids |-> CollapseSingleChild(l.kids[i])])
         IN IF Len(kids) = 1 THEN kids ELSE Rebuilt(kids)

RECURSIVE RemoveEmptyContentGroups(_)
RemoveEmptyContentGroups(l) ==
    IF IsSplit(l) THEN Rebuilt(FlattenSeq([i \in DOMAIN l.kids |-> RemoveEmptyContentGroups(l.kids[i])]))
    ELSE IF l.role # "content" THEN <<l>>
    ELSE IF l.slots = <<>> THEN <<>> ELSE <<[l EXCEPT !.collapsed = FALSE]>>

\* Empty content groups go once another content group has slots.
HasNonEmptyContent(l) == \E g \in GroupSet(l) : g.role = "content" /\ g.slots # <<>>

\* Fault: empty groups are left in a layout without content.
CleanupWithoutCollapse(l) ==
    IF HasNonEmptyContent(l) THEN RemoveEmptyContentGroups(l) ELSE <<l>>

CleanupDockLayout(l) ==
    LET kept == IF HasNonEmptyContent(l) THEN RemoveEmptyContentGroups(l) ELSE <<l>>
    IN IF kept = <<>> THEN <<>> ELSE CollapseSingleChild(kept[1])

------------------------------------------------------------------------------
\* Removing, adding, activating and splitting.

\* The first group that holds s loses it; an emptied side panel goes, an
\* emptied content group stays.
RemovedFrom(g, s) ==
    LET rest == SelectSeq(g.slots, LAMBDA x : x.id # s)
    IN IF rest # <<>> THEN <<WithSlots(g, rest)>>
       ELSE IF g.role = "content" THEN <<Emptied(g)>> ELSE <<>>

RemoveSlot(l, s) ==
    LET from == GroupOf(l, s).id
        RECURSIVE R(_)
        R(n) == IF IsSplit(n) THEN Rebuilt(FlattenSeq([i \in DOMAIN n.kids |-> R(n.kids[i])]))
                ELSE IF n.id = from THEN RemovedFrom(n, s) ELSE <<n>>
        left == R(l)
    IN IF left = <<>> THEN {} ELSE ToSet(CleanupDockLayout(left[1]))

Appended(g, slot) ==
    [g EXCEPT !.slots = Append(@, slot), !.active = slot.id, !.collapsed = FALSE]

AddSlotToGroup(l, id, slot) ==
    IF ContainsSlot(l, slot.id) \/ (IsSplit(l) /\ ~ContainsGroup(l, id)) THEN {}
    ELSE {MapGroups(LAMBDA g : IF g.id = id THEN Appended(g, slot) ELSE g, l)}

AddSlotToFirstGroup(l, slot) ==
    LET first == Groups(l)[1].id
    IN MapGroups(LAMBDA g : IF g.id = first THEN Appended(g, slot) ELSE g, l)

\* add_side_panel_slot: into the group asked for, else into the first one.
AddSidePanelSlot(l, target, slot) ==
    IF target = NoSlot THEN {AddSlotToFirstGroup(l, slot)}
    ELSE IF ContainsGroup(l, target) THEN AddSlotToGroup(l, target, slot) ELSE {}

\* add_slot_to_first_content_group and add_slot_to_first_side_panel_group: the
\* children are tried in order, and a split without such a group is an error
\* even when a later child has one.
RECURSIVE AddSlotToFirstOf(_, _, _)
AddSlotToFirstOf(l, role, slot) ==
    IF ~IsSplit(l)
    THEN {IF l.role = role
          THEN [Appended(l, slot) EXCEPT !.active = IF l.active = NoSlot THEN slot.id ELSE l.active]
          ELSE l}
    ELSE LET having == {i \in DOMAIN l.kids : HasRole(l.kids[i], role)}
             first == Min(having)
         IN IF having = {} \/ \E i \in 1..(first - 1) : IsSplit(l.kids[i]) THEN {}
            ELSE {[l EXCEPT !.kids[first] = k] : k \in AddSlotToFirstOf(l.kids[first], role, slot)}

ActivateSlot(l, s) ==
    IF ~ContainsSlot(l, s) THEN {}
    ELSE {MapGroups(LAMBDA g : IF Holds(g, s) THEN [g EXCEPT !.active = s, !.collapsed = FALSE] ELSE g, l)}

SetGroupCollapsed(l, id, collapsed) ==
    MapGroups(LAMBDA g : IF g.id = id THEN [g EXCEPT !.collapsed = collapsed] ELSE g, l)

SplitSlot(l, target, slot, side, role, id) ==
    MapGroups(LAMBDA g : IF Holds(g, target) THEN Split(side, Group(id, role, <<slot>>, slot.id), g) ELSE g, l)

EdgeRole(side) == IF side = "up" THEN "content" ELSE "side_panel"

SplitWorkspaceEdge(l, slot, side, id) ==
    IF ContainsSlot(l, slot.id) THEN {}
    ELSE {Split(side, Group(id, EdgeRole(side), <<slot>>, slot.id), l)}

------------------------------------------------------------------------------
\* Closing what a slot displays.
ClosedSource(id) == [id |-> id, tag |-> "closed", tool |-> NoSlot]

\* The mirrors of the tools of a closed workspace become placeholders.  A group
\* without slots has no slot to make active, which the code reports as an error.
CloseMirrorsForToolTabs(l, tools) ==
    IF \E g \in GroupSet(l) : g.slots = <<>> THEN {}
    ELSE LET Closed(x) == IF x.tag = "mirror" /\ x.tool \in tools THEN ClosedSource(x.id) ELSE x
         IN {MapGroups(LAMBDA g : WithSlots(g, [i \in DOMAIN g.slots |-> Closed(g.slots[i])]), l)}

\* Fault: mirrors are removed with the tool they show.
RemoveAllToolSlots(l, tool, removeOwned) ==
    MapGroups(LAMBDA g : LET slots == SelectSeq(g.slots, LAMBDA x : x.tool # tool)
                             closed == ClosedSource(<<g.id, "closed">>)
                         IN IF slots # <<>> THEN WithSlots(g, slots)
                            ELSE IF g.role = "content" THEN Emptied(g)
                            ELSE [g EXCEPT !.slots = <<closed>>, !.active = closed.id], l)

\* Every slot of the tool: a mirror becomes a placeholder, an owned slot goes in
\* the owner's layout.  A side panel that loses its last slot gets a placeholder
\* named after the group.
RemoveOrCloseToolSlots(l, tool, removeOwned) ==
    LET Next1(x) == IF x.tool # tool THEN <<x>>
                    ELSE IF x.tag = "owned" /\ removeOwned THEN <<>> ELSE <<ClosedSource(x.id)>>
        After(g) == LET slots == FlattenSeq([i \in DOMAIN g.slots |-> Next1(g.slots[i])])
                        closed == ClosedSource(<<g.id, "closed">>)
                    IN IF slots # <<>> THEN WithSlots(g, slots)
                       ELSE IF g.role = "content" THEN Emptied(g)
                       ELSE [g EXCEPT !.slots = <<closed>>, !.active = closed.id]
    IN MapGroups(After, l)

------------------------------------------------------------------------------
\* Roles, and what a stored layout has to satisfy.
NormalizeWorkspaceGroupRoles(l) ==
    MapGroups(LAMBDA g : LET role == IF g.slots = <<>> THEN "content" ELSE g.role
                         IN [g EXCEPT !.role = role, !.collapsed = @ /\ role # "content"], l)

SetAllGroupRoles(l) == MapGroups(LAMBDA g : [g EXCEPT !.role = "content", !.collapsed = FALSE], l)

ValidGroup(g, tools) ==
    /\ ~(g.role = "content" /\ g.collapsed)
    /\ IF g.slots = <<>> THEN g.role = "content" /\ g.active = NoSlot
       ELSE /\ Holds(g, g.active)
            /\ \A i \in DOMAIN g.slots : g.slots[i].tag = "closed" \/ g.slots[i].tool \in tools

RECURSIVE ValidateLayout(_, _)
ValidateLayout(l, tools) ==
    IF IsSplit(l) THEN Len(l.kids) >= 2 /\ \A i \in DOMAIN l.kids : ValidateLayout(l.kids[i], tools)
    ELSE ValidGroup(l, tools)
=============================================================================
