----------------------------- MODULE Workspace ------------------------------
(***************************************************************************)
(* The workspaces of the app: src-tauri/src/workspace.rs.  One snapshot is  *)
(* the state of all workspaces, their tools, their docks and the floating   *)
(* windows.  A window sends an intent with the version it displays; the     *)
(* command applies it to a copy, validates, saves and stores the copy, then *)
(* tells the windows.  Opening and closing a workspace also start and end   *)
(* the port forwards of its host, before the copy is validated and saved.   *)
(*                                                                         *)
(* A new id is <<v, name, part>> where v is the version the intent makes:   *)
(* unique, since a version is made once.                                    *)
(***************************************************************************)
EXTENDS DockLayout, FiniteSets

CONSTANTS Window,       \* windows that show and change the workspaces
          Host,         \* the connection hosts
          AgentHosts,   \* those whose terminals run under the agent
          Kinds,        \* bound: the tools a workspace opens with (the code has six)
          MaxVersion,   \* bound on the changes of one run
          MaxOpen       \* bound on the workspaces open at a time

AllKinds == {"files", "terminal", "terminal_sessions", "resources", "transfers", "ports"}

ASSUME WorkspaceAssumption ==
    /\ AgentHosts \subseteq Host
    /\ Kinds \subseteq AllKinds
    /\ "terminal" \in Kinds
    /\ MaxVersion \in Nat /\ MaxOpen \in Nat

VARIABLES snapshot,     \* [version, active, workspaces, tools, floating]
          current,      \* the windows that display the current version; the others, an older one
          runtime,      \* the hosts whose port forwards have been started
          author,       \* the window whose change the last step was, or "none"
          torn,         \* a dispatch failed after it had changed runtime
          rejected      \* an intent failed because of the layouts it met

vars == <<snapshot, current, author, runtime, torn, rejected>>

------------------------------------------------------------------------------
\* Reading a snapshot.
NewId(v, name, part) == <<v, name, part>>
Next1(s) == s.version + 1       \* the version an intent on s makes

WorkspaceIds(s) == {s.workspaces[i].id : i \in DOMAIN s.workspaces}
IndexOf(s, id) == CHOOSE i \in DOMAIN s.workspaces : s.workspaces[i].id = id
Require(s, id) == s.workspaces[IndexOf(s, id)]
ToolIds(s) == {t.id : t \in s.tools}
Tool(s, id) == CHOOSE t \in s.tools : t.id = id
HostsOf(s) == {s.workspaces[i].host : i \in DOMAIN s.workspaces}

\* s with the layout of workspace id replaced, for each possible layout.
WithLayout(s, id, layouts) ==
    {[s EXCEPT !.workspaces[IndexOf(s, id)].layout = l] : l \in layouts}

OwnedSlot(id, tool) == [id |-> id, tag |-> "owned", tool |-> tool]
MirrorSlot(id, tool) == [id |-> id, tag |-> "mirror", tool |-> tool]

------------------------------------------------------------------------------
\* Opening a workspace.
SessionsEnabled(h) == h \in AgentHosts /\ "terminal_sessions" \in Kinds
Offered(h) == IF SessionsEnabled(h) THEN Kinds ELSE Kinds \ {"terminal_sessions"}

NewSlot(v, k) == OwnedSlot(NewId(v, "slot", k), NewId(v, "tool", k))

DefaultLayout(v, h) ==
    LET Panel(n, role, kinds) ==
            LET slots == [i \in DOMAIN kinds |-> NewSlot(v, kinds[i])]
            IN IF kinds = <<>> THEN <<>>
               ELSE <<Group(NewId(v, "group", n), role, slots, slots[1].id)>>
        Of(kinds) == SelectSeq(kinds, LAMBDA k : k \in Offered(h))
        row == Panel(1, "side_panel", Of(<<"files">>)) \o Panel(2, "content", <<"terminal">>)
                 \o Panel(3, "side_panel", Of(<<"terminal_sessions", "resources", "transfers">>))
    IN CollapseSingleChild([kids |-> <<[kids |-> row]>> \o Panel(4, "side_panel", Of(<<"ports">>))])[1]

\* The first owned slot of each kind of the source workspace, in slot order, is
\* the one the new workspace repeats.
KindOf(s, x) == Tool(s, x.tool).kind
Remembered(s, src, h) ==
    LET slots == SelectSeq(SlotSeq(src.layout),
                           LAMBDA x : /\ x.tag = "owned"
                                      /\ Tool(s, x.tool).owner = src.id
                                      /\ KindOf(s, x) = "terminal_sessions" => SessionsEnabled(h))
    IN {slots[i] : i \in {j \in DOMAIN slots : \A k \in 1..(j - 1) : KindOf(s, slots[k]) # KindOf(s, slots[j])}}

\* remap_remembered_layout: the groups of the source, without what is not
\* repeated; an emptied content group stays.
RemapLayout(s, src, kept, v) ==
    LET Position(g) == CHOOSE i \in DOMAIN Groups(src.layout) : Groups(src.layout)[i].id = g.id
        New(x) == NewSlot(v, KindOf(s, x))
        G(g) == LET old == SelectSeq(g.slots, LAMBDA x : x \in kept)
                    slots == [i \in DOMAIN old |-> New(old[i])]
                    shown == SelectSeq(old, LAMBDA x : x.id = g.active)
                    active == IF shown # <<>> THEN New(shown[1]).id ELSE slots[1].id
                    id == NewId(v, "group", Position(g))
                IN IF old # <<>> THEN <<Group(id, g.role, slots, active)>>
                   ELSE IF g.role = "content" THEN <<Group(id, "content", <<>>, NoSlot)>> ELSE <<>>
        RECURSIVE R(_)
        R(l) == IF ~IsSplit(l) THEN G(l)
                ELSE LET kids == FlattenSeq([i \in DOMAIN l.kids |-> R(l.kids[i])])
                     IN IF Len(kids) = 1 THEN kids ELSE Rebuilt(kids)
    IN R(src.layout)

\* The layout of a new workspace for h and the kinds of its tools: that of the
\* active workspace, completed with a terminal and, for an agent host, the list
\* of its sessions; the default one when nothing usable is left of it.
LayoutPlans(s, h) ==
    LET v == Next1(s)
        src == Require(s, s.active)
        kept == Remembered(s, src, h)
        used == {KindOf(s, x) : x \in kept}
        remapped == RemapLayout(s, src, kept, v)
        default == [layout |-> DefaultLayout(v, h), used |-> Offered(h)]
        terminal == IF "terminal" \in used THEN ToSet(remapped)
                    ELSE AddSlotToFirstOf(remapped[1], "content", NewSlot(v, "terminal"))
        sessions == IF ~SessionsEnabled(h) \/ "terminal_sessions" \in used THEN terminal
                    ELSE UNION {AddSlotToFirstOf(l, "side_panel", NewSlot(v, "terminal_sessions")) : l \in terminal}
        Plan(l) == LET cleaned == CleanupDockLayout(l)
                   IN IF cleaned = <<>> \/ ~HasRole(cleaned[1], "content") THEN default
                      ELSE [layout |-> cleaned[1],
                            used |-> used \cup {"terminal"}
                                       \cup (IF SessionsEnabled(h) THEN {"terminal_sessions"} ELSE {})]
    IN IF remapped = <<>> THEN {default} ELSE {Plan(l) : l \in sessions}

NewWorkspace(v, h, plan) ==
    [id |-> NewId(v, "workspace", h), host |-> h,
     owned |-> {NewId(v, "tool", k) : k \in plan.used}, layout |-> plan.layout]

NewTools(v, h, kinds) ==
    {[id |-> NewId(v, "tool", k), kind |-> k, owner |-> NewId(v, "workspace", h), host |-> h] : k \in kinds}

CreateWorkspace(s, h) ==
    {[s EXCEPT !.workspaces = Append(@, NewWorkspace(Next1(s), h, p)),
               !.tools = @ \cup NewTools(Next1(s), h, p.used),
               !.active = NewId(Next1(s), "workspace", h)] : p \in LayoutPlans(s, h)}

\* The snapshot of a fresh start: one workspace of the default host.
DefaultSnapshot(h) ==
    LET plan == [layout |-> DefaultLayout(0, h), used |-> Offered(h)]
    IN [version |-> 0, active |-> NewId(0, "workspace", h),
        workspaces |-> <<NewWorkspace(0, h, plan)>>, tools |-> NewTools(0, h, plan.used), floating |-> {}]

------------------------------------------------------------------------------
\* Closing workspaces.

\* close_workspace_without_last_guard: mirrors of its tools, in the other
\* workspaces and in floating windows, become placeholders.
CloseWorkspace(s, id) ==
    LET closing == Require(s, id)
        rest == SelectSeq(s.workspaces, LAMBDA w : w.id # id)
        Closed(l) == CloseMirrorsForToolTabs(l, closing.owned)
        Fails(l) == Closed(l) = {}
        The(l) == CHOOSE x \in Closed(l) : TRUE
    IN IF \/ Len(s.workspaces) = 1
          \/ \E i \in DOMAIN rest : Fails(rest[i].layout)
          \/ \E f \in s.floating : Fails(f.layout)
       THEN {}
       ELSE {[s EXCEPT !.workspaces = [i \in DOMAIN rest |-> [rest[i] EXCEPT !.layout = The(@)]],
                       !.tools = {t \in @ : t.owner # id},
                       !.floating = {[f EXCEPT !.layout = The(@)] : f \in @},
                       !.active = IF @ = id THEN rest[1].id ELSE @]}

CloseAll(s, ids) ==
    FoldLeft(LAMBDA results, id : UNION {CloseWorkspace(r, id) : r \in results}, {s}, ids)

IdSeq(workspaces) == [i \in DOMAIN workspaces |-> workspaces[i].id]

CloseOtherWorkspaces(s, id) ==
    {[r EXCEPT !.active = id] : r \in CloseAll(s, SelectSeq(IdSeq(s.workspaces), LAMBDA x : x # id))}

CloseWorkspacesToRight(s, id) ==
    CloseAll(s, IdSeq(SubSeq(s.workspaces, IndexOf(s, id) + 1, Len(s.workspaces))))

------------------------------------------------------------------------------
\* Tools and their slots.
CloseOwnerToolTab(s, tool) ==
    LET owner == Tool(s, tool).owner
        In(l, own) == CleanupDockLayout(RemoveOrCloseToolSlots(l, tool, own))[1]
    IN [s EXCEPT !.workspaces = [i \in DOMAIN @ |->
                     [@[i] EXCEPT !.owned = @ \ {tool}, !.layout = In(@, s.workspaces[i].id = owner)]],
                 !.floating = {[f EXCEPT !.layout = In(@, FALSE)] : f \in @},
                 !.tools = {t \in @ : t.id # tool}]

CloseToolSlot(s, id, slot) ==
    LET layout == Require(s, id).layout
        x == SlotNamed(layout, slot)
    IN IF ~ContainsSlot(layout, slot) THEN {}
       ELSE IF x.tag = "owned" THEN {CloseOwnerToolTab(s, x.tool)}
       ELSE WithLayout(s, id, RemoveSlot(layout, slot))

\* Closing several: a slot that an earlier close took along is skipped.
CloseSlots(s, id, slots) ==
    FoldLeft(LAMBDA results, x :
                 UNION {IF ContainsSlot(Require(r, id).layout, x) THEN CloseToolSlot(r, id, x) ELSE {r} : r \in results},
             {s}, slots)

SlotIds(slots) == [i \in DOMAIN slots |-> slots[i].id]

CloseOtherToolSlots(s, id, slot) ==
    LET others == SelectSeq(SlotIds(SlotSeq(Require(s, id).layout)), LAMBDA x : x # slot)
    IN UNION {IF ContainsSlot(Require(r, id).layout, slot)
              THEN WithLayout(r, id, ActivateSlot(Require(r, id).layout, slot)) ELSE {r}
                : r \in CloseSlots(s, id, others)}

CloseToolSlotsToRight(s, id, slot) ==
    LET ids == SlotIds(GroupOf(Require(s, id).layout, slot).slots)
    IN CloseSlots(s, id, SubSeq(ids, SelectInSeq(ids, LAMBDA x : x = slot) + 1, Len(ids)))

\* A tool of another workspace is shown as a mirror, once per workspace.
MirrorToolTab(s, tool, id, group) ==
    LET layout == Require(s, id).layout
        shown == SelectSeq(SlotSeq(layout), LAMBDA x : x.tag = "mirror" /\ x.tool = tool)
    IN IF Tool(s, tool).owner = id THEN {}
       ELSE WithLayout(s, id,
              IF shown # <<>> THEN ActivateSlot(layout, shown[1].id)
              ELSE AddSlotToGroup(layout, group, MirrorSlot(NewId(Next1(s), "slot", "mirror"), tool)))

\* A floating window shows a mirror; the owned slot stays where it is.
FloatToolSlot(s, id, slot) ==
    LET x == SlotNamed(Require(s, id).layout, slot)
        floating == MirrorSlot(NewId(Next1(s), "slot", "floating"), x.tool)
    IN IF x.tag # "owned" THEN {}
       ELSE {[s EXCEPT !.floating = @ \cup
                {[id |-> NewId(Next1(s), "floating", "window"),
                  layout |-> Group(NewId(Next1(s), "group", "floating"), "content", <<floating>>, floating.id)]}]}

CloseFloatingWindow(s, window) == [s EXCEPT !.floating = {f \in @ : f.id # window}]

\* Fault: a tool moved to a group that is gone is dropped.
MoveWithoutFallback(s, id, slot, group) ==
    LET layout == Require(s, id).layout
    IN WithLayout(s, id, UNION {AddSlotToGroup(l, group, SlotNamed(layout, slot)) : l \in RemoveSlot(layout, slot)})

MoveToolSlotToGroup(s, id, slot, group) ==
    LET layout == Require(s, id).layout
    IN WithLayout(s, id,
         UNION {IF ContainsGroup(l, group) THEN AddSlotToGroup(l, group, SlotNamed(layout, slot))
                ELSE {AddSlotToFirstGroup(l, SlotNamed(layout, slot))} : l \in RemoveSlot(layout, slot)})

\* An auxiliary tool dropped beside a content group opens a side panel.
InsertedGroupRole(targetRole, kinds, side) ==
    IF targetRole = "content" /\ side # "up" /\ kinds # {} /\ kinds \subseteq (AllKinds \ {"terminal"})
    THEN "side_panel" ELSE targetRole

MoveToolSlotToSplit(s, id, slot, target, side) ==
    LET layout == Require(s, id).layout
        x == SlotNamed(layout, slot)
        role == InsertedGroupRole(GroupOf(layout, target).role, {t.kind : t \in {t \in s.tools : t.id = x.tool}}, side)
        Split1(l) == IF ContainsSlot(l, target)
                     THEN ToSet(CleanupDockLayout(SplitSlot(l, target, x, side, role, NewId(Next1(s), "group", 0))))
                     ELSE {AddSlotToFirstGroup(l, x)}
    IN IF slot = target THEN {s} ELSE WithLayout(s, id, UNION {Split1(l) : l \in RemoveSlot(layout, slot)})

MoveToolSlotToWorkspaceEdge(s, id, slot, side) ==
    LET layout == Require(s, id).layout
    IN WithLayout(s, id,
         UNION {SplitWorkspaceEdge(l, SlotNamed(layout, slot), side, NewId(Next1(s), "group", 0))
                  : l \in RemoveSlot(layout, slot)})

SplitToolSlot(s, id, target, tool, side) ==
    LET layout == Require(s, id).layout
        slot == OwnedSlot(NewId(Next1(s), "slot", "split"), tool)
    IN IF tool \notin Require(s, id).owned THEN {}
       ELSE WithLayout(s, id, {SplitSlot(layout, target, slot, side, GroupOf(layout, target).role, NewId(Next1(s), "group", 0))})

\* s with a new tool of workspace id, and that tool's slot.
WithTool(s, id, kind) ==
    LET tool == NewId(Next1(s), "tool", kind)
    IN [s EXCEPT !.tools = @ \cup {[id |-> tool, kind |-> kind, owner |-> id, host |-> Require(s, id).host]},
                 !.workspaces[IndexOf(s, id)].owned = @ \cup {tool}]

CreateTerminalToolTab(s, id, group) ==
    IF Require(s, id).host \notin AgentHosts THEN {}
    ELSE WithLayout(WithTool(s, id, "terminal"), id,
                    AddSidePanelSlot(Require(s, id).layout, group, NewSlot(Next1(s), "terminal")))

\* The sessions list and the resource monitor are opened at most once: a second
\* call shows the slot there is, or gives the tool a slot again.
OpenSingleToolTab(s, id, kind, group) ==
    LET layout == Require(s, id).layout
        own == {t \in s.tools : t.owner = id /\ t.kind = kind}
        existing == CHOOSE t \in own : TRUE
        shown == SelectSeq(SlotSeq(layout), LAMBDA x : x.tag = "owned" /\ x.tool = existing.id)
        again == OwnedSlot(NewId(Next1(s), "slot", kind), existing.id)
    IN IF own = {} THEN WithLayout(WithTool(s, id, kind), id, AddSidePanelSlot(layout, group, NewSlot(Next1(s), kind)))
       ELSE IF shown # <<>> THEN WithLayout(s, id, ActivateSlot(layout, shown[1].id))
       ELSE WithLayout(s, id, AddSidePanelSlot(layout, group, again))

OpenTerminalSessionsToolTab(s, id, group) ==
    IF SessionsEnabled(Require(s, id).host) THEN OpenSingleToolTab(s, id, "terminal_sessions", group) ELSE {}

OpenResourceMonitorToolTab(s, id, group) == OpenSingleToolTab(s, id, "resources", group)

------------------------------------------------------------------------------
\* Normalising and validating a changed snapshot.
NormalizeSnapshotGroupRoles(s) ==
    [s EXCEPT !.workspaces = [i \in DOMAIN @ |-> [@[i] EXCEPT !.layout = NormalizeWorkspaceGroupRoles(@)]],
              !.floating = {[f EXCEPT !.layout = SetAllGroupRoles(@)] : f \in @}]

CountOwned(s, id, kind) == Cardinality({t \in s.tools : t.owner = id /\ t.kind = kind})

ValidateSnapshot(s) ==
    /\ s.active \in WorkspaceIds(s)
    /\ \A i \in DOMAIN s.workspaces :
         LET w == s.workspaces[i]
         IN /\ ValidateLayout(w.layout, ToolIds(s))
            /\ \A tool \in w.owned : tool \in ToolIds(s) /\ Tool(s, tool).owner = w.id
            /\ CountOwned(s, w.id, "resources") <= 1
            /\ CountOwned(s, w.id, "ports") <= 1
    /\ \A f \in s.floating :
         ValidateLayout(f.layout, ToolIds(s)) /\ \A g \in GroupSet(f.layout) : g.role = "content"

Changed(s) == [NormalizeSnapshotGroupRoles(s) EXCEPT !.version = @ + 1]

------------------------------------------------------------------------------
\* The command.  An intent has no result when applying it is an error; what it
\* did to the port forwards by then stays done.

\* after_workspace_closed: the forwards of a host end with its last workspace.
Ended(s) == HostsOf(snapshot) \ HostsOf(s)

Store(s, started) ==
    /\ snapshot' = s
    /\ current' = {}
    /\ runtime' = (runtime \cup started) \ Ended(s)
    /\ UNCHANGED <<torn, rejected>>

\* Validation refuses the copy, or the file cannot be written.
Fail(s, started, valid) ==
    /\ runtime' = (runtime \cup started) \ Ended(s)
    /\ torn' = (torn \/ runtime' # runtime)
    /\ rejected' = (rejected \/ ~valid)
    /\ UNCHANGED <<snapshot, current>>

\* Applying the intent is an error: only the forwards already started stay.  When
\* what it asks for was legal, the fault lies with the layouts.
Refuse(started, legal) ==
    /\ runtime' = runtime \cup started
    /\ torn' = (torn \/ runtime' # runtime)
    /\ rejected' = (rejected \/ legal)
    /\ UNCHANGED <<snapshot, current>>

\* Fault: expected_version is not compared.
VersionIgnored(w) == w \in Window

VersionMatches(w) == w \in current

Dispatch(results, started, legal) ==
    \/ \E s \in {Changed(r) : r \in results} :
         LET valid == ValidateSnapshot(s)
         IN (valid /\ Store(s, started)) \/ Fail(s, started, valid)
    \/ results = {} /\ Refuse(started, legal)

\* Two kinds of layouts do make a legal intent fail.  No workspace can be closed
\* beside one, or beside a floating window, that has an empty content group.
EmptyGroupIn(l) == \E g \in GroupSet(l) : g.slots = <<>>
EmptyGroupBeside(ids) ==
    \/ \E i \in DOMAIN snapshot.workspaces :
          snapshot.workspaces[i].id \in ids /\ EmptyGroupIn(snapshot.workspaces[i].layout)
    \/ \E f \in snapshot.floating : EmptyGroupIn(f.layout)

\* And no workspace can be opened from one whose layout has no place, or hides it
\* behind another split, for a terminal or for the list of the sessions.
HidesPlace(h) ==
    LET src == Require(snapshot, snapshot.active)
        l == RemapLayout(snapshot, src, Remembered(snapshot, src, h), Next1(snapshot))
        Hides(role) == \A i \in DOMAIN l[1].kids : HasRole(l[1].kids[i], role) =>
                          \E j \in 1..i : IsSplit(l[1].kids[j])
    IN l # <<>> /\ IsSplit(l[1]) /\ (Hides("content") \/ (SessionsEnabled(h) /\ Hides("side_panel")))

Create ==
    \E h \in Host : /\ Len(snapshot.workspaces) < MaxOpen
                   /\ Dispatch(CreateWorkspace(snapshot, h), {h}, ~HidesPlace(h))

Activate(id) == Dispatch({[snapshot EXCEPT !.active = id]}, {}, TRUE)

Close(id) ==
    Dispatch(CloseWorkspace(snapshot, id), {},
             Len(snapshot.workspaces) > 1 /\ ~EmptyGroupBeside(WorkspaceIds(snapshot) \ {id}))

CloseOthers(id) ==
    Dispatch(CloseOtherWorkspaces(snapshot, id), {}, ~EmptyGroupBeside(WorkspaceIds(snapshot)))

CloseToRight(id) ==
    Dispatch(CloseWorkspacesToRight(snapshot, id), {}, ~EmptyGroupBeside(WorkspaceIds(snapshot)))

OnSlot(id) ==
    \E x \in Slots(Require(snapshot, id).layout) :
        \/ Dispatch(WithLayout(snapshot, id, ActivateSlot(Require(snapshot, id).layout, x.id)), {}, TRUE)
        \/ Dispatch(CloseToolSlot(snapshot, id, x.id), {}, TRUE)
        \/ Dispatch(CloseToolSlotsToRight(snapshot, id, x.id), {}, TRUE)
        \/ Dispatch(FloatToolSlot(snapshot, id, x.id), {}, x.tag = "owned")

\* The window sends an intent again with the new version when its own is refused, so
\* the slot it names may be gone, as the first terminal here: then all are closed.
CloseOtherSlots(id) ==
    \E x \in {y.id : y \in Slots(Require(snapshot, id).layout)} \cup {NewId(id[1], "slot", "terminal")} :
        Dispatch(CloseOtherToolSlots(snapshot, id, x), {}, TRUE)

Collapse(id) ==
    \E g \in GroupSet(Require(snapshot, id).layout), collapsed \in BOOLEAN :
        Dispatch(WithLayout(snapshot, id, {SetGroupCollapsed(Require(snapshot, id).layout, g.id, collapsed)}), {}, TRUE)

MoveSlot(id) ==
    \E x \in Slots(Require(snapshot, id).layout) :
        \/ \E g \in GroupSet(Require(snapshot, id).layout) :
             Dispatch(MoveToolSlotToGroup(snapshot, id, x.id, g.id), {}, TRUE)
        \/ \E side \in Side :
             \/ Dispatch(MoveToolSlotToWorkspaceEdge(snapshot, id, x.id, side), {}, TRUE)
             \/ \E y \in Slots(Require(snapshot, id).layout) :
                  Dispatch(MoveToolSlotToSplit(snapshot, id, x.id, y.id, side), {}, TRUE)

SplitTool(id) ==
    \E x \in Slots(Require(snapshot, id).layout), tool \in Require(snapshot, id).owned, side \in Side :
        Dispatch(SplitToolSlot(snapshot, id, x.id, tool, side), {}, TRUE)

OpenTool(id) ==
    \E group \in {g.id : g \in GroupSet(Require(snapshot, id).layout)} \cup {NoSlot} :
        \/ Dispatch(CreateTerminalToolTab(snapshot, id, group), {}, Require(snapshot, id).host \in AgentHosts)
        \/ Dispatch(OpenTerminalSessionsToolTab(snapshot, id, group), {}, SessionsEnabled(Require(snapshot, id).host))
        \/ Dispatch(OpenResourceMonitorToolTab(snapshot, id, group), {}, TRUE)

Mirror(id) ==
    \E tool \in ToolIds(snapshot), g \in GroupSet(Require(snapshot, id).layout) :
        Dispatch(MirrorToolTab(snapshot, tool, id, g.id), {}, Tool(snapshot, tool).owner # id)

CloseFloating ==
    \E f \in snapshot.floating : Dispatch({CloseFloatingWindow(snapshot, f.id)}, {}, TRUE)

\* The native window of a floating dock was destroyed: no version is compared.
FloatingDestroyed ==
    /\ snapshot.version < MaxVersion
    /\ \E f \in snapshot.floating :
         LET s == Changed(CloseFloatingWindow(snapshot, f.id))
         IN /\ snapshot' = IF ValidateSnapshot(s) THEN s ELSE snapshot
            /\ rejected' = (rejected \/ ~ValidateSnapshot(s))
            /\ current' = IF ValidateSnapshot(s) THEN {} ELSE current
            /\ author' = "none"
            /\ UNCHANGED <<runtime, torn>>

\* A window shows what a command of its own returned, what an event brought or what it
\* asked for after a mismatch.  It compares no versions, and answers and events are
\* not ordered, so what comes may also be older than what it shows, or come never.
Receive(w) ==
    /\ snapshot.version < MaxVersion
    /\ current' \in {current \cup {w}, current \ {w}}
    /\ author' = "none"
    /\ UNCHANGED <<snapshot, runtime, torn, rejected>>

Init ==
    /\ \E h \in Host : snapshot = DefaultSnapshot(h) /\ runtime = {h}
    /\ current = Window
    /\ author = "none"
    /\ torn = FALSE
    /\ rejected = FALSE

\* What an intent does is the same for every window whose version is accepted.
Senders == {w \in Window : VersionMatches(w)}
Intent ==
    /\ Senders # {}
    /\ snapshot.version < MaxVersion
    /\ \/ Create \/ CloseFloating
       \/ \E id \in WorkspaceIds(snapshot) :
            \/ Activate(id) \/ Close(id) \/ CloseOthers(id) \/ CloseToRight(id)
            \/ OnSlot(id) \/ CloseOtherSlots(id) \/ Collapse(id) \/ MoveSlot(id) \/ SplitTool(id)
            \/ OpenTool(id) \/ Mirror(id)
    /\ author' \in IF snapshot'.version = snapshot.version THEN {"none"} ELSE Senders

Next == FloatingDestroyed \/ Intent \/ \E w \in Window : Receive(w)

Spec == Init /\ [][Next]_vars

------------------------------------------------------------------------------
\* Properties.
AllSlots(s) ==
    UNION ({Slots(s.workspaces[i].layout) : i \in DOMAIN s.workspaces} \cup {Slots(f.layout) : f \in s.floating})

\* The variables have their types, and no workspace is open twice.
TypeOK ==
    /\ snapshot.version \in 0..MaxVersion
    /\ Cardinality(WorkspaceIds(snapshot)) = Len(snapshot.workspaces)
    /\ Len(snapshot.workspaces) \in 1..MaxOpen
    /\ current \subseteq Window
    /\ author \in Window \cup {"none"}
    /\ runtime \subseteq Host
    /\ torn \in BOOLEAN /\ rejected \in BOOLEAN

\* No legal intent fails because of the layouts that earlier ones left, be it that
\* applying it is an error or that validate_snapshot refuses what it built.  Two cases
\* are excepted, by name: no workspace can be closed beside an empty content group
\* (EmptyGroupBeside), nor opened from a layout that hides the place for its terminal
\* or its list of sessions (HidesPlace).
NothingRejected == ~rejected

\* Each tool belongs to one open workspace, which lists it, on that workspace's
\* host; an owned slot shows it only there, and every other slot is a mirror or
\* a placeholder.  validate_snapshot checks only a part of it.
ToolsBelongToOneWorkspace ==
    /\ \A t \in snapshot.tools :
         /\ t.owner \in WorkspaceIds(snapshot)
         /\ t.id \in Require(snapshot, t.owner).owned
         /\ t.host = Require(snapshot, t.owner).host
    /\ \A i \in DOMAIN snapshot.workspaces : \A x \in Slots(snapshot.workspaces[i].layout) :
         /\ x.tag = "owned" => x.tool \in snapshot.workspaces[i].owned
         /\ x.tag = "mirror" => x.tool \notin snapshot.workspaces[i].owned
    /\ \A f \in snapshot.floating : \A x \in Slots(f.layout) : x.tag # "owned"

\* A terminal that a workspace owns is shown in that workspace: moving, closing
\* and splitting around it never leaves a running session without a slot.
TerminalsAreShown ==
    \A t \in snapshot.tools : t.kind = "terminal" =>
        \E x \in Slots(Require(snapshot, t.owner).layout) : x.tag = "owned" /\ x.tool = t.id

\* A workspace always keeps a content group to open terminals in, although
\* validate_snapshot would accept one without.
ContentGroupKept ==
    \A i \in DOMAIN snapshot.workspaces : HasRole(snapshot.workspaces[i].layout, "content")

\* While no dispatch has failed half way, the hosts with started port forwards
\* are those of the open workspaces: opening starts them, the last close of a
\* host ends them, and closing one of several does not.
ForwardsFollowWorkspaces == ~torn => runtime = HostsOf(snapshot)

\* What no intent, legal or refused, ever leaves behind.
DockIsSound ==
    /\ TypeOK
    /\ ToolsBelongToOneWorkspace
    /\ TerminalsAreShown
    /\ ContentGroupKept
    /\ ForwardsFollowWorkspaces

\* Closing a tool or a workspace takes no display slot away from the workspaces
\* and windows that mirror it: the mirror becomes a placeholder there.
MirrorsOutliveTheirSource ==
    [][/\ \A i \in DOMAIN snapshot.workspaces : \A x \in Slots(snapshot.workspaces[i].layout) :
            LET id == snapshot.workspaces[i].id
            IN x.tag = "mirror" /\ x.tool \notin ToolIds(snapshot') /\ id \in WorkspaceIds(snapshot')
                 => ClosedSource(x.id) \in Slots(Require(snapshot', id).layout)
       /\ \A f \in snapshot.floating : \A x \in Slots(f.layout) : \A g \in snapshot'.floating :
            x.tag = "mirror" /\ x.tool \notin ToolIds(snapshot') /\ g.id = f.id
              => ClosedSource(x.id) \in Slots(g.layout)]_vars

\* The snapshot is a store that several windows change, each only from the version it
\* shows: a window that was told late, or told in the wrong order, overwrites nothing
\* another one did, and a floating window that is destroyed touches no workspace.
Versions == INSTANCE VersionedStore WITH
    version <- snapshot.version,
    shared <- <<snapshot.active, snapshot.workspaces, snapshot.tools>>
ImplementsVersionedStore == Versions!Spec
=============================================================================
