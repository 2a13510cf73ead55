------------------------------- MODULE Compositor ------------------------------
(***************************************************************************)
(* cognitive/exhibitor/src/compositor.rs: the compositor keeps the tree of *)
(* frames, the selection, the history of surfaces and the keyboard focus   *)
(* together.  One action per command and per notification it handles.      *)
(*                                                                         *)
(* The exhibitor is one thread and calls these handlers one by one, but in *)
(* any order: the commands come from the user, the surfaces from clients.  *)
(***************************************************************************)
EXTENDS FrameTree, FiniteSets

CONSTANTS Surfaces,       \* surfaces a client may show
          Floats,         \* those the placement strategy makes floating
          Satellites,     \* surfaces the pointer may hover that have no frame
          Titles,         \* titles of workspaces: 1..n
          Displays,       \* identifiers of outputs
          Geometries,     \* layouts the user chooses from
          Commands,       \* the handlers a run exercises
          OverflowChecks  \* the build panics on integer overflow

ASSUME SurfacesAssumption ==
    /\ Floats \subseteq Surfaces
    /\ Surfaces \intersect Satellites = {}
    /\ None \notin Surfaces \union Satellites

VARIABLES tree,         \* the frames
          selection,    \* the selected frame
          history,      \* surfaces, the most recently used first
          focus,        \* surface the coordinator gives the keyboard to
          displays,     \* frame the exhibitor draws for each display
          published,    \* workspace state last told to the coordinator
          panic         \* the "expect" that failed, or None

vars == <<tree, selection, history, focus, displays, published, panic>>

-----------------------------------------------------------------------------
Managed(t) == {t[f].sid : f \in Below(t, Root)} \ {None}
FrameOf(t, s) == CHOOSE f \in Below(t, Root) : t[f].sid = s

(* Frames nothing refers to any more are never used again.                 *)
Collected(t, held) ==
    LET reached == Below(t, Root) \union
                   UNION {Below(t, Last(Path(t, f))) : f \in held}
    IN  Freed(t, {f \in Frames \ reached : t[f] # Free})

Held(f) == {f} \union {displays[d] : d \in DOMAIN displays}

Keep(t) ==
    /\ tree' = Collected(t, Held(selection))
    /\ UNCHANGED <<selection, focus>>

(* select(f), where t is the tree after the handler is done with it        *)
Selecting(t, f) ==
    /\ tree' = Collected(t, Held(f))
    /\ selection' = f
    /\ focus' = IF t[f].sid # None THEN t[f].sid ELSE focus
(* Mutant: the coordinator is not told.                                    *)
SelectUnfocused(t, f) ==
    /\ tree' = Collected(PopRecursively(t, f), Held(f))
    /\ selection' = f
    /\ UNCHANGED focus
Select(t, f) == Selecting(PopRecursively(t, f), f)

(* SurfaceHistory::remove and its copy in pop.                             *)
ForgottenNot(s) == history     \* Mutant: the surface stays in the history.
Forgotten(s) == RemoveFirst(history, s)

Fail(expect) ==
    /\ panic' = expect
    /\ UNCHANGED <<tree, selection, history, focus, displays, published>>

(* Bound: a handler runs only while the model has frames left for it.      *)
Runs(handler, frames) ==
    /\ panic = None
    /\ handler \in Commands
    /\ Cardinality(FreeFrames(tree)) >= frames

-----------------------------------------------------------------------------
(* Displays and workspaces                                                 *)

NextTitle(t) ==
    LET unused == {title \in Titles : FindWorkspace(t, title) = {}}
    IN  CHOOSE title \in unused : \A other \in unused : title <= other

(* root.append(display); workspace.settle(display) *)
WithDisplay(t, id) ==
    LET d == Fresh(t)
        shown == AppendChild([t EXCEPT ![d] = NewDisplay(id)], Root, d)
        w == Fresh(shown)
    IN  [tree |-> Settle([shown EXCEPT ![w] = NewWorkspace(NextTitle(t))], w, d, FALSE),
         display |-> d, workspace |-> w]

(* The program starts with a root only; the first output is found before   *)
(* any surface or command arrives.                                         *)
Init ==
    LET first == CHOOSE id \in Displays : \A other \in Displays : id <= other
        start == WithDisplay([f \in Frames |-> IF f = Root THEN NewRoot ELSE Free], first)
    IN  /\ tree = start.tree
        /\ selection = start.workspace
        /\ history = <<>>
        /\ focus = None
        /\ displays = [id \in {first} |-> start.display]
        /\ published = ToWorkspaceState(start.tree)
        /\ panic = None

CreateDisplay(id) ==
    LET new == WithDisplay(tree, id) IN
    /\ Runs("create_display", 2)
    /\ id \notin DOMAIN displays
    /\ \E title \in Titles : FindWorkspace(tree, title) = {}
    /\ Select(new.tree, new.workspace)
    /\ published' = ToWorkspaceState(new.tree)
    /\ displays' = [d \in DOMAIN displays \union {id} |->
                        IF d = id THEN new.display ELSE displays[d]]
    /\ UNCHANGED <<history, panic>>

(* find_most_recent *)
MostRecent(t, f) ==
    LET inside == SelectSeq(history, LAMBDA s : FindWithSid(t, f, s) # {})
    IN  IF inside = <<>> THEN f ELSE CHOOSE g \in FindWithSid(t, f, Head(inside)) : TRUE

(* Mutant: the coordinator is not told of the new workspace.               *)
BringWorkspaceSilently(title, focused) ==
    LET existing == FindWorkspace(tree, title)
        container == tree[FindTop(tree, selection)].parent
        w == Fresh(tree)
        settled == Settle([tree EXCEPT ![w] = NewWorkspace(title)], w, container, FALSE)
    IN  IF existing # {}
        THEN [tree |-> tree, frame |-> CHOOSE f \in existing : TRUE, state |-> published]
        ELSE [tree |-> PopRecursively(settled, selection), frame |-> w, state |-> published]

(* bring_workspace with create_new_workspace: popped afterwards is the new *)
(* workspace, if it gets the focus, or else the old selection.             *)
BringWorkspace(title, focused) ==
    LET existing == FindWorkspace(tree, title)
        container == tree[FindTop(tree, selection)].parent
        w == Fresh(tree)
        settled == Settle([tree EXCEPT ![w] = NewWorkspace(title)], w, container, FALSE)
        created == PopRecursively(settled, IF focused THEN w ELSE selection)
    IN  IF existing # {}
        THEN [tree |-> tree, frame |-> CHOOSE f \in existing : TRUE, state |-> published]
        ELSE [tree |-> created, frame |-> w, state |-> ToWorkspaceState(created)]

(* focus_workspace: no workspace beside w is active, and w is.             *)
ActivatedAlso(t, w) == [t EXCEPT ![w].active = TRUE]    \* Mutant: the others stay active.
Activated(t, w) ==
    LET deactivated == FoldSet(LAMBDA f, u : [u EXCEPT ![f].active = FALSE], t,
                               Children(t, t[w].parent))
    IN  [deactivated EXCEPT ![w].active = TRUE]

FocusWorkspace(title) ==
    LET brought == BringWorkspace(title, TRUE)
        w == brought.frame
        activated == Activated(brought.tree, w)
        recent == MostRecent(activated, w)
    IN
    /\ Runs("focus_workspace", 1)
    /\ IF FindWorkspace(tree, title) = {} /\ FindTop(tree, selection) = None
       THEN Fail("selection should have top")
       ELSE /\ Select(activated, recent)
            /\ published' = ToWorkspaceState(activated)
            /\ UNCHANGED <<history, displays, panic>>

(* Settling does not look whether the target is below the frame.  Relaxing *)
(* goes round the circle this makes, and selecting up along it, for ever.  *)
Circular(t, f, target) == target \in Below(t, f)

JumpToWorkspace(title) ==
    LET old == FindTop(tree, selection)
        brought == BringWorkspace(title, FALSE)
        resettled == Resettle(brought.tree, selection, brought.frame)
    IN
    /\ Runs("jump_to_workspace", 1)
    /\ IF old = None THEN Fail("selection should have top")
       ELSE IF old # brought.frame /\ Circular(brought.tree, selection, brought.frame)
       THEN Fail("recursion along a circle of frames")
       ELSE /\ IF old = brought.frame THEN Keep(brought.tree)
               ELSE Select(resettled, MostRecent(resettled, old))
            /\ published' = brought.state
            /\ UNCHANGED <<history, displays, panic>>

DiveToWorkspace(title) ==
    LET old == FindTop(tree, selection)
        brought == BringWorkspace(title, FALSE)
    IN
    /\ Runs("dive_to_workspace", 1)
    /\ IF old = None THEN Fail("selection should have top")
       ELSE IF old # brought.frame /\ Circular(brought.tree, selection, brought.frame)
       THEN Fail("recursion along a circle of frames")
       ELSE /\ IF old = brought.frame THEN Keep(brought.tree)
               ELSE Select(Jump(brought.tree, selection, "on", brought.frame), selection)
            /\ published' = brought.state
            /\ UNCHANGED <<history, displays, panic>>

-----------------------------------------------------------------------------
(* Surfaces                                                                *)

Manage(s) ==
    LET target == IF s \in Floats THEN FindTop(tree, selection)
                  ELSE FindBuildable(tree, selection)
        leaf == NewLeaf(s, IF s \in Floats THEN "vertical" ELSE "stacked")
        f == Fresh(tree)
    IN
    /\ Runs("manage", 1)
    /\ s \notin Managed(tree)
    /\ IF target = None THEN Fail("searching a target for the surface")
       ELSE /\ Select(Settle([tree EXCEPT ![f] = leaf], f, target, s \in Floats), f)
            /\ history' = <<s>> \o history
            /\ UNCHANGED <<displays, published, panic>>

Unmanage(s) ==
    LET f == FrameOf(tree, s)
        left == Forgotten(s)
        recent == IF left # <<>> THEN FrameOf(tree, Head(left))
                  ELSE FindBuildable(tree, selection)
    IN
    /\ Runs("unmanage", 0)
    /\ s \in Managed(tree)
    /\ IF tree[selection].sid # s
       THEN /\ Keep(DestroySelf(tree, f))
            /\ history' = left
            /\ UNCHANGED <<displays, published, panic>>
       ELSE IF left # <<>> /\ Head(left) \notin Managed(tree)
       THEN Fail("Find previous frame")
       ELSE IF recent = f THEN Fail("selection freed")
       ELSE /\ Selecting(DestroySelf(PopRecursively(tree, recent), f), recent)
            /\ history' = left
            /\ UNCHANGED <<displays, published, panic>>

(* pop_surface, for a click or for a surface picked from the history *)
PopSurface(s) ==
    /\ IF s \in Managed(tree) THEN Select(tree, FrameOf(tree, s)) ELSE Keep(tree)
    /\ history' = <<s>> \o Forgotten(s)
    /\ UNCHANGED <<displays, published, panic>>

(* on_button: the surface last seen under the pointer, which may be drawn   *)
(* as part of another one or may be gone since the display was redrawn.    *)
Click(s) ==
    /\ Runs("click", 0)
    /\ s \in Managed(tree) \union Satellites
    /\ PopSurface(s)

(* Exhibitor::on_dock_surface: the display draws the frame made for it.    *)
RedrawnAsBefore(id, f) == displays      \* Mutant: it draws the frame it had.
Redrawn(id, f) == [displays EXCEPT ![id] = f]

DockSurface(s, id) ==
    LET f == Fresh(tree)
        distanced == Distance([tree EXCEPT ![f] = NewLeaf(s, "stacked")],
                              displays[id], "vertical")
    IN
    /\ Runs("dock", 2)
    /\ id \in DOMAIN displays /\ s \notin Managed(tree)
    /\ tree' = Dock(distanced.tree, f, distanced.frame)
    /\ displays' = Redrawn(id, distanced.frame)
    /\ UNCHANGED <<selection, history, focus, published, panic>>

(* move_globally, where the pointer is above the contents of another top   *)
(* frame; of several workspaces in one place it meets the latest used one. *)
Drag(s, target) ==
    LET f == FrameOf(tree, s)
        InFront(w) == \A v \in Children(tree, tree[w].parent) :
            tree[v].mode = "workspace" /\ v # w =>
                \E i, j \in DOMAIN tree[tree[w].parent].time :
                    /\ tree[tree[w].parent].time[i] = w
                    /\ tree[tree[w].parent].time[j] = v
                    /\ i < j
    IN
    /\ Runs("drag", 0)
    /\ s \in Managed(tree) /\ tree[f].mobility = "floating"
    /\ target \in Below(tree, Root) \ {Root} /\ IsTop(tree, target)
    /\ target # FindTop(tree, f)
    /\ tree[target].mode = "workspace" => InFront(target)
    /\ Keep(PopRecursively(Resettle(tree, f, target), f))
    /\ UNCHANGED <<history, displays, published, panic>>

-----------------------------------------------------------------------------
(* Commands on the selection                                               *)

Configure(geometry) ==
    LET parent == tree[selection].parent
        target == IF tree[selection].space # <<>> THEN selection ELSE parent
    IN
    /\ Runs("configure", 0)
    /\ IsReorientable(tree, selection)
    /\ IF parent = None THEN Fail("reconfigured frame should have parent")
       ELSE /\ Keep([tree EXCEPT ![target].geometry = geometry])
            /\ UNCHANGED <<history, displays, published, panic>>

FocusDirection(direction) ==
    /\ Runs("focus", 0)
    /\ \E f \in FindAdjacent(tree, selection, direction) : Select(tree, f)
    /\ UNCHANGED <<history, displays, published, panic>>

(* Backward counts from the front of the history, forward from its end.    *)
FocusBackward ==
    /\ Runs("focus_history", 0)
    /\ Len(history) > 1
    /\ PopSurface(history[2])

FocusForward ==
    /\ Runs("focus_history", 0)
    /\ IF history # <<>> THEN PopSurface(Last(history))
       ELSE OverflowChecks /\ Fail("attempt to subtract with overflow")

Moved(direction, side) ==
    \E target \in FindAdjacent(tree, selection, direction) :
        Keep(Deramify(Jump(tree, selection, side, target), tree[selection].parent))

CommandJump(direction) ==
    /\ Runs("jump", 0)
    /\ direction \notin {"begin", "end"}
    /\ Moved(direction, IF direction \in Backwards THEN "before" ELSE "after")
    /\ UNCHANGED <<history, displays, published, panic>>

CommandDive(direction) ==
    /\ Runs("dive", 1)
    /\ direction # "begin"
    /\ Moved(direction, "on")
    /\ UNCHANGED <<history, displays, published, panic>>

CommandAnchorize ==
    /\ Runs("anchorize", 0)
    /\ IF tree[selection].mobility = "anchored"
       THEN IF FindTop(tree, selection) = None THEN Fail("selection should have top")
            ELSE /\ Keep(Deanchorize(tree, selection))
                 /\ UNCHANGED <<history, displays, published, panic>>
       ELSE IF ~IsTop(tree, selection) /\ ~HasParent(tree, selection)
       THEN Fail("should have parent")
       ELSE /\ Keep(Anchorize(tree, selection))
            /\ UNCHANGED <<history, displays, published, panic>>

Rootless(f) == ~IsTop(tree, f) /\ ~HasParent(tree, f)

CommandRamify ==
    /\ Runs("ramify", 1)
    /\ IF Rootless(selection) THEN Fail("should have parent")
       ELSE /\ Select(Ramify(tree, selection, "stacked").tree, selection)
            /\ UNCHANGED <<history, displays, published, panic>>

(* exalt looks for its target from the parent, or from the grandparent if  *)
(* the parent is stacked, and takes a stacked grandparent as it is.        *)
ExaltBase ==
    LET above == tree[selection].parent
    IN  IF tree[above].geometry = "stacked" THEN tree[above].parent ELSE above
ExaltRamifies ==
    tree[selection].parent = ExaltBase \/ tree[ExaltBase].geometry # "stacked"
ExaltTarget ==
    IF ExaltRamifies THEN Ramify(tree, ExaltBase, "stacked")
    ELSE [tree |-> tree, frame |-> ExaltBase]

ExaltableAlways(above) == TRUE      \* Mutant: windows settle among workspaces.
Exaltable(above) == ~IsTop(tree, above)

Exalt ==
    LET above == tree[selection].parent IN
    /\ Runs("exalt", 1)
    /\ IF above = None THEN Fail("exalted frame must have parent")
       ELSE /\ Exaltable(above)
            /\ IF ExaltBase = None THEN Fail("exalted frame must have grand parent")
               ELSE IF ExaltRamifies /\ Rootless(ExaltBase) THEN Fail("should have parent")
               ELSE /\ Keep(Resettle(ExaltTarget.tree, selection, ExaltTarget.frame))
                    /\ UNCHANGED <<history, displays, published, panic>>

(* Whether exalt gets as far as choosing a target.                         *)
Exalts ==
    LET above == tree[selection].parent
    IN  /\ above # None /\ Exaltable(above)
        /\ ExaltBase # None /\ (ExaltRamifies => ~Rootless(ExaltBase))
        /\ FreeFrames(tree) # {}

-----------------------------------------------------------------------------
Next ==
    \/ \E id \in Displays : CreateDisplay(id) \/ \E s \in Surfaces : DockSurface(s, id)
    \/ \E title \in Titles :
        FocusWorkspace(title) \/ JumpToWorkspace(title) \/ DiveToWorkspace(title)
    \/ \E s \in Surfaces : Manage(s) \/ Unmanage(s)
    \/ \E s \in Surfaces \union Satellites : Click(s)
    \/ \E s \in Surfaces, target \in Frames : Drag(s, target)
    \/ \E geometry \in Geometries : Configure(geometry)
    \/ \E direction \in DOMAIN Axis :
        FocusDirection(direction) \/ CommandJump(direction) \/ CommandDive(direction)
    \/ FocusBackward \/ FocusForward
    \/ CommandAnchorize \/ CommandRamify \/ Exalt

Spec == Init /\ [][Next]_vars

-----------------------------------------------------------------------------
InTree == Below(tree, Root)
Attached(f) == f \in InTree
Workspaces == {f \in InTree : tree[f].mode = "workspace"}
Above(f) == ToSet(Tail(Path(tree, f)))

(* No "expect" of a handler ever fails, no recursion is without end and no *)
(* number out of range: the compositor thread lives on.                    *)
NoPanic == panic = None

(* info/concepts.md:13: there always exists a selection.  A selection      *)
(* outside the tree cannot be seen, and what settles there is lost.        *)
SelectionAttached == panic = None => Attached(selection)

(* Whichever frame a direction finds and whichever frame exalt settles in, *)
(* it is not inside the selection that jumps, dives or is exalted there:   *)
(* settling (settling.rs:104) does not check and would tie the selection   *)
(* into a circle.                                                          *)
TargetsOutside ==
    panic = None =>
        /\ \A direction \in DOMAIN Axis :
            FindAdjacent(tree, selection, direction) \intersect Below(tree, selection) = {}
        /\ Exalts => ~Circular(ExaltTarget.tree, selection, ExaltTarget.frame)

(* Whatever closes, settles or is selected, handlers find the frames they  *)
(* need and settle frames outside of themselves, and there is a selection  *)
(* in the tree to go on with.                                              *)
HandlersGoOn == NoPanic /\ SelectionAttached /\ TargetsOutside

(* The two orders of a frame list its children once each, and frames keep  *)
(* their layers: displays in the root, workspaces in displays and not in   *)
(* each other, windows in workspaces; leaves are the frames with a surface *)
(* and have no children.                                                   *)
ListsOK ==
    \A p \in Frames : \A order \in {tree[p].space, tree[p].time} :
        IsInjective(order) /\ ToSet(order) = {f \in Frames : tree[f].parent = p}

LayersOK ==
    ListsOK /\ \A f \in InTree :
        LET modes == {tree[g].mode : g \in Above(f)} IN
        /\ tree[f].mode = "display" => tree[f].parent = Root
        /\ tree[f].mode = "workspace" => "display" \in modes /\ "workspace" \notin modes
        /\ tree[f].mode = "leaf" <=> tree[f].sid # None
        /\ tree[f].mode = "leaf" => tree[f].space = <<>>
        /\ tree[f].mode = "leaf" /\ tree[f].mobility # "docked" => "workspace" \in modes

(* A surface has one frame and a title one workspace, so that finding by   *)
(* surface or title finds the right one.                                   *)
NamesUnique ==
    LET Distinct(frames, Name(_)) == \A f, g \in frames : Name(f) = Name(g) => f = g
    IN  /\ Distinct({f \in InTree : tree[f].sid # None}, LAMBDA f : tree[f].sid)
        /\ Distinct(Workspaces, LAMBDA f : tree[f].name)

(* The history lists each window of the tree once and nothing else, so     *)
(* that the window to select after a close can be found.                   *)
HistoryOK ==
    /\ IsInjective(history)
    /\ ToSet(history) \subseteq Managed(tree)
    /\ \A f \in InTree : tree[f].sid \in Surfaces \ ToSet(history)
                         => tree[f].mobility = "docked"

(* The keyboard goes to the selected window.                               *)
FocusFollowsSelection ==
    panic = None /\ tree[selection].sid # None => focus = tree[selection].sid

(* The frame the exhibitor draws for a display is that display's frame.    *)
DisplaysCurrent ==
    \A id \in DOMAIN displays :
        LET f == tree[displays[id]] IN f.mode = "display" /\ f.name = id /\ f.parent = Root

(* What the coordinator was told about workspaces is what the tree has.    *)
PublishedCurrent == panic = None => published = ToWorkspaceState(tree)

(* Windows leave the tree only when they are destroyed: no command loses   *)
(* one.                                                                    *)
SurfacesKept ==
    [][\A s \in Managed(tree) \ Managed(tree') : Unmanage(s)]_vars

SameDisplay(t, v, w) == DisplayOf(t, v) = DisplayOf(t, w)
SoleActive(t, w) ==
    \A v \in Below(t, Root) :
        t[v].mode = "workspace" /\ SameDisplay(t, v, w) => (t[v].active <=> v = w)

(* focus_workspace makes the workspace the only active one on its display. *)
FocusedWorkspaceSole ==
    [][\A title \in Titles : FocusWorkspace(title) =>
        panic' # None \/ \A w \in FindWorkspace(tree', title) : SoleActive(tree', w)]_vars

(* compositor.rs:523: exalt "jumps frame one level higher", in the tree.   *)
ExaltStaysInTree == [][Exalt => panic' # None \/ selection \in Below(tree', Root)]_vars
=============================================================================
