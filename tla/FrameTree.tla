------------------------------- MODULE FrameTree -------------------------------
(***************************************************************************)
(* The operations on trees of frames: settling.rs, searching.rs and        *)
(* packing.rs of cognitive/frames.  A tree t maps every frame to its       *)
(* parameters, its parent and its children in space and in time order      *)
(* (module FrameOrder; module FrameNode has the pointers below).           *)
(*                                                                         *)
(* Sizes and positions are left out: relax, homogenize and set_size change *)
(* nothing else.  Where a search depends on positions (find_pointed) the   *)
(* model takes any frame the search may reach.                             *)
(***************************************************************************)
EXTENDS Naturals, SequencesExt

CONSTANTS MaxFrames,    \* bound on the frames allocated at one time
          None          \* no surface, no title, no frame

Frames == 1..MaxFrames
Root == 1

Free == [mode |-> "free", mobility |-> "anchored", geometry |-> "stacked",
         sid |-> None, name |-> None, active |-> FALSE,
         parent |-> None, space |-> <<>>, time |-> <<>>]

(* Parameters::new_*; name is the title of a workspace, the id of a display *)
NewFrame(mode, mobility, geometry) ==
    [Free EXCEPT !.mode = mode, !.mobility = mobility, !.geometry = geometry]
NewRoot == NewFrame("root", "floating", "stacked")
NewDisplay(id) == [NewFrame("display", "floating", "stacked") EXCEPT !.name = id]
NewWorkspace(title) ==
    [NewFrame("workspace", "anchored", "stacked") EXCEPT !.name = title, !.active = TRUE]
NewLeaf(sid, geometry) == [NewFrame("leaf", "anchored", geometry) EXCEPT !.sid = sid]

FreeFrames(t) == {f \in Frames : t[f].mode = "free"}
Fresh(t) == CHOOSE f \in FreeFrames(t) : \A g \in FreeFrames(t) : f <= g

Children(t, f) == ToSet(t[f].space)
HasParent(t, f) == t[f].parent # None
IsTop(t, f) == t[f].mobility = "docked" \/ t[f].mode \notin {"container", "leaf"}
IsReorientable(t, f) == ~IsTop(t, f) \/ t[f].mode = "workspace"
OnlyChild(t, f) == Len(t[f].space) = 1

-----------------------------------------------------------------------------
(* frame.rs: the manipulators                                              *)

Adopt(t, p, f, order) ==
    [t EXCEPT ![p].space = order, ![p].time = Append(@, f), ![f].parent = p]

Prepend(t, p, f) == Adopt(t, p, f, <<f>> \o t[p].space)
AppendChild(t, p, f) == Adopt(t, p, f, Append(t[p].space, f))

JoinAt(t, a, f, offset) ==
    LET p == t[a].parent
        siblings == t[p].space
        place == CHOOSE i \in DOMAIN siblings : siblings[i] = a
    IN  IF p = None THEN t ELSE Adopt(t, p, f, InsertAt(siblings, place + offset, f))
Prejoin(t, a, f) == JoinAt(t, a, f, 0)
Adjoin(t, a, f) == JoinAt(t, a, f, 1)

Without(order, f) == SelectSeq(order, LAMBDA g : g # f)
ToFront(order, f) == <<f>> \o Without(order, f)

(* remove *)
DetachOne(t, f) ==
    LET p == t[f].parent
    IN  IF p = None THEN t
        ELSE [t EXCEPT ![p].space = Without(@, f), ![p].time = Without(@, f),
                       ![f].parent = None]
Detach(t, frames) == FoldSet(LAMBDA f, u : DetachOne(u, f), t, frames)

(* deallocate *)
Freed(t, frames) == FoldSet(LAMBDA f, u : [u EXCEPT ![f] = Free], t, frames)

-----------------------------------------------------------------------------
(* searching.rs                                                            *)

(* f, its parent, the parent of that, and so on.                           *)
Path(t, f) ==
    LET up[g \in Frames] == <<g>> \o (IF HasParent(t, g) THEN up[t[g].parent] ELSE <<>>)
    IN  up[f]

(* f, its children, their children, and so on.                             *)
Below(t, f) ==
    LET down[g \in Frames] == {g} \union UNION {down[h] : h \in Children(t, g)}
    IN  down[f]

FindTop(t, f) ==
    LET tops == SelectSeq(Path(t, f), LAMBDA g : IsTop(t, g))
    IN  IF tops = <<>> THEN None ELSE Head(tops)

FindBuildable(t, f) == IF t[f].sid # None THEN t[f].parent ELSE f

FindWithSid(t, f, sid) == {g \in Below(t, f) : t[g].sid = sid}

(* Mutant: a workspace that is not active is not found.                    *)
FindActiveWorkspace(t, title) ==
    {f \in Below(t, Root) : t[f].mode = "workspace" /\ t[f].name = title /\ t[f].active}
FindWorkspace(t, title) ==
    {f \in Below(t, Root) : t[f].mode = "workspace" /\ t[f].name = title}

Axis == [north |-> "vertical", south |-> "vertical",
         west |-> "horizontal", east |-> "horizontal",
         begin |-> "stacked", end |-> "stacked"]
Backwards == {"north", "west", "begin"}

FindNeighbouring(t, f, direction) ==
    LET siblings == t[t[f].parent].space
        place == CHOOSE i \in DOMAIN siblings : siblings[i] = f
        next == IF direction \in Backwards THEN place - 1 ELSE place + 1
    IN  IF /\ HasParent(t, f)
           /\ t[t[f].parent].geometry = Axis[direction]
           /\ next \in DOMAIN siblings
        THEN siblings[next] ELSE None

(* find_contiguous for distance 1: the neighbour of f, or of the first     *)
(* frame above f that has one, unless a top frame is met before.           *)
FindContiguous(t, f, direction) ==
    LET search[g \in Frames] ==
            LET neighbour == FindNeighbouring(t, g, direction)
                next == IF neighbour # None THEN neighbour ELSE t[g].parent
            IN  IF next = None \/ (next # None /\ IsTop(t, next)) THEN None
                ELSE IF neighbour # None THEN neighbour ELSE search[next]
    IN  search[f]

(* find_adjacent for distance 1.  find_pointed stops at a leaf, or at any  *)
(* frame above where the point lies on no child: in the pixels the integer *)
(* division of homogenize leaves over, or beside floating frames.          *)
FindAdjacentAround(t, f, direction) ==     \* Mutant: the point is looked up from one frame above.
    LET contiguous == FindContiguous(t, f, direction)
    IN  IF contiguous = None THEN {} ELSE Below(t, t[contiguous].parent) \ {t[contiguous].parent}
FindAdjacent(t, f, direction) ==
    LET contiguous == FindContiguous(t, f, direction)
    IN  IF contiguous = None THEN {} ELSE Below(t, contiguous)

-----------------------------------------------------------------------------
(* Mutants: a frame above goes although it has other children; a workspace *)
(* goes with its last window.                                              *)
CascadeUncounted(t, f) ==
    LET p == t[f].parent
    IN  {f} \union IF p # None /\ ~IsTop(t, p) THEN {p} ELSE {}
CascadeBeyondTop(t, f) ==
    LET p == t[f].parent
    IN  {f} \union IF p # None /\ OnlyChild(t, p) THEN {p} ELSE {}

(* packing.rs: remove_self takes f out of the tree, together with every    *)
(* frame above that has no other child, up to the next top frame.          *)
Cascade(t, f) ==
    LET cut[g \in Frames] ==
            LET p == t[g].parent
            IN  IF p = None THEN {}
                ELSE {g} \union IF OnlyChild(t, p) /\ ~IsTop(t, p) THEN cut[p] ELSE {}
    IN  cut[f]

RemoveSelf(t, f) == Detach(t, Cascade(t, f))

-----------------------------------------------------------------------------
(* settling.rs                                                             *)

SetMobility(t, f, mobility) == [t EXCEPT ![f].mobility = mobility]

(* settle; floating says whether an area is given *)
Settle(t, f, target, floating) ==
    LET b == FindBuildable(t, target)
    IN  CASE b = None -> t
          [] b # None /\ t[b].geometry = "stacked" ->
                SetMobility(Prepend(t, b, f), f, IF floating THEN "floating" ELSE "anchored")
          [] OTHER -> SetMobility(AppendChild(t, b, f), f, "anchored")

Resettle(t, f, target) ==
    Settle(RemoveSelf(t, f), f, target,
           t[f].mobility = "floating" /\ t[target].mode = "workspace")

(* pop_recursively on the root: f becomes first in time among its          *)
(* siblings, and in space where they are stacked; then so does its parent. *)
PopOne(t, f) ==
    LET p == t[f].parent
    IN  IF p = None THEN t
        ELSE [t EXCEPT ![p].time = ToFront(@, f),
                       ![p].space = IF t[p].geometry = "stacked" THEN ToFront(@, f) ELSE @]
PopRecursively(t, f) == FoldLeft(PopOne, t, Path(t, f))

(* ramify returns one of the frames around f, or a new distancer above f.  *)
RamifyReuses(t, f) ==
    IF IsTop(t, f) THEN None
    ELSE IF OnlyChild(t, f) THEN f
    ELSE IF OnlyChild(t, t[f].parent) THEN t[f].parent
    ELSE None

Distance(t, f, geometry) ==
    LET d == Fresh(t)
        distancer == IF IsTop(t, f)
                     THEN [NewFrame(t[f].mode, t[f].mobility, geometry) EXCEPT
                              !.name = t[f].name, !.active = t[f].active]
                     ELSE NewFrame("container", "anchored", geometry)
        joined == DetachOne(Prejoin([t EXCEPT ![d] = distancer], f, d), f)
        reset == [joined EXCEPT ![f].mobility = "anchored",
                                ![f].mode = IF @ = "leaf" THEN @ ELSE "container",
                                ![f].name = None, ![f].active = FALSE]
    IN  [tree |-> Prepend(reset, d, f), frame |-> d]

Ramify(t, f, geometry) ==
    LET reused == RamifyReuses(t, f)
    IN  IF reused # None THEN [tree |-> t, frame |-> reused] ELSE Distance(t, f, geometry)

(* deramify: a single child that is a leaf is merged into f, one that has  *)
(* a single child itself is replaced by that.                              *)
Deramify(t, f) ==
    LET first == t[f].space[1]
        second == t[first].space[1]
    IN  CASE OnlyChild(t, f) /\ OnlyChild(t, first) ->
                Freed(Prepend(Detach(t, {first, second}), f, second), {first})
          [] OnlyChild(t, f) /\ t[first].space = <<>> ->
                Freed([DetachOne(t, first) EXCEPT ![f].mode = t[first].mode,
                                                  ![f].sid = t[first].sid], {first})
          [] OTHER -> t

(* jumpin on the side "on": the frame settles in the target or around it.  *)
DiveTarget(t, target) ==
    LET p == t[target].parent
    IN  IF ~IsTop(t, p) /\ OnlyChild(t, p) THEN [tree |-> t, frame |-> p]
        ELSE IF t[target].mode = "leaf" THEN Ramify(t, target, "stacked")
        ELSE [tree |-> t, frame |-> target]

Jumpin(t, f, side, target) ==
    IF ~HasParent(t, target) THEN t
    ELSE CASE side = "before" -> Prejoin(t, target, f)
           [] side = "after"  -> Adjoin(t, target, f)
           [] side = "on"     -> LET dived == DiveTarget(t, target)
                                 IN  Settle(dived.tree, f, dived.frame, FALSE)
Jump(t, f, side, target) == Jumpin(RemoveSelf(t, f), f, side, target)

Dock(t, f, target) ==
    Prepend([t EXCEPT ![target].geometry = "vertical", ![f].mobility = "docked"], target, f)

Anchorize(t, f) ==
    IF ~IsTop(t, f) /\ t[f].mobility = "floating" THEN SetMobility(t, f, "anchored") ELSE t

Deanchorize(t, f) ==
    LET workspace == FindTop(t, f)
        moved == IF t[f].parent = workspace THEN t
                 ELSE Prepend(RemoveSelf(t, f), workspace, f)
    IN  IF ~IsTop(t, f) /\ t[f].mobility = "anchored"
        THEN SetMobility(moved, f, "floating") ELSE t

DestroySelf(t, f) ==
    LET removed == RemoveSelf(t, f)
    IN  Freed(removed, Below(removed, f))

-----------------------------------------------------------------------------
(* converting.rs: the workspaces of each display.                          *)
DisplayOf(t, f) ==
    LET displays == SelectSeq(Path(t, f), LAMBDA g : t[g].mode = "display")
    IN  IF displays = <<>> THEN None ELSE t[Head(displays)].name

(* Workspaces inside a workspace are not listed.                           *)
Listed(t, f) ==
    /\ t[f].mode = "workspace"
    /\ \A g \in ToSet(Tail(Path(t, f))) : t[g].mode # "workspace"

ToWorkspaceState(t) ==
    {<<DisplayOf(t, f), t[f].name, t[f].active>> : f \in {g \in Below(t, Root) : Listed(t, g)}}
=============================================================================
