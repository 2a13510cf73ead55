------------------------------ MODULE MCCompositor -----------------------------
(* The compositor under careful use: the situations in which a command     *)
(* loses a window or the selection, each shown by a run of its own, are    *)
(* avoided.  Everything else may happen in any order.                      *)
EXTENDS Compositor, TLC

Symmetry == Permutations(Surfaces)

(* Which of the frames a node occupies does not matter: states are the same *)
(* when their trees look the same.                                         *)
View ==
    LET Place(order, f) == CHOOSE i \in DOMAIN order : order[i] = f
        shape[f \in Frames] ==
            << [tree[f] EXCEPT !.parent = None, !.time = <<>>,
                               !.space = [i \in DOMAIN @ |-> shape[@[i]]]],
               [i \in DOMAIN tree[f].space |-> Place(tree[f].time, tree[f].space[i])],
               f = selection,
               {id \in DOMAIN displays : displays[id] = f} >>
    IN  <<shape[Root], shape[Last(Path(tree, selection))], history, focus, published, panic>>

(* The next selection is not among the containers the closing window takes *)
(* along.                                                                  *)
CarefulUnmanage(s) ==
    LET left == Forgotten(s)
        next == IF tree[selection].sid # s \/ left # <<>> THEN selection
                ELSE FindBuildable(tree, selection)
    IN  /\ s \in Managed(tree)
        /\ next = FrameOf(tree, s) \/ next \notin Cascade(tree, FrameOf(tree, s))
        /\ Unmanage(s)

(* The container exalt settles in is not removed with the exalted frame.   *)
CarefulExalt ==
    /\ ~IsTop(tree, selection) /\ ExaltBase # None
    /\ Runs("exalt", 1)
    /\ ExaltTarget.frame \notin Cascade(ExaltTarget.tree, selection)
    /\ Exalt

(* The workspace is not the only one beside the docks of its display.      *)
CarefulDiveToWorkspace(title) ==
    /\ ~IsTop(tree, selection)
    /\ \A w \in FindWorkspace(tree, title) :
        IsTop(tree, tree[w].parent) \/ ~OnlyChild(tree, tree[w].parent)
    /\ DiveToWorkspace(title)

InWorkspace(f) == tree[FindTop(tree, f)].mode = "workspace"

CarefulNext ==
    \/ \E id \in Displays : CreateDisplay(id) \/ \E s \in Surfaces : DockSurface(s, id)
    \/ \E title \in Titles :
        \/ FocusWorkspace(title)
        \/ ~IsTop(tree, selection) /\ JumpToWorkspace(title)
        \/ CarefulDiveToWorkspace(title)
    \/ \E s \in Surfaces :
        \/ Manage(s)
        \/ CarefulUnmanage(s)
        \/ s \in Managed(tree) /\ InWorkspace(FrameOf(tree, s)) /\ Click(s)
    \/ \E s \in Surfaces, w \in Workspaces : Drag(s, w)
    \/ \E geometry \in Geometries : Configure(geometry)
    \/ \E direction \in DOMAIN Axis :
        FocusDirection(direction) \/ CommandJump(direction) \/ CommandDive(direction)
    \/ FocusBackward \/ FocusForward
    \/ CommandAnchorize \/ CommandRamify \/ CarefulExalt

CarefulSpec == Init /\ [][CarefulNext]_vars
=============================================================================
