------------------------------ MODULE FrameOrder ------------------------------
(***************************************************************************)
(* What a tree of frames promises to the rest of the compositor: every     *)
(* frame keeps its children in two independent orders.  The SPACE order    *)
(* places them on the screen, the TIME order lists the most recently used  *)
(* child first.  Both orders always hold exactly the children.             *)
(*                                                                         *)
(* This is the abstract specification of cognitive/frames/src/frame.rs;    *)
(* module FrameNode describes the pointers that implement it.              *)
(***************************************************************************)
EXTENDS SequencesExt

CONSTANTS Frames,   \* identities of the heap nodes frames can occupy
          None      \* the null link

VARIABLES live,     \* frames that are allocated
          matter,   \* parent of each frame, or None
          space,    \* children of each frame in space order
          time      \* children of each frame in time order

vars == <<live, matter, space, time>>

Blank == [f \in Frames |-> <<>>]

(***************************************************************************)
(* p is neither f nor below f: some set of frames holds p and everything   *)
(* above p, but not f.                                                     *)
(***************************************************************************)
NotBelow(p, f) ==
    \E above \in SUBSET Frames :
        /\ p \in above /\ f \notin above
        /\ \A g \in above : matter[g] # None => matter[g] \in above

(* f may become a child of p: both exist and f is in no tree above p.      *)
Joinable(f, p) ==
    /\ {f, p} \subseteq live
    /\ matter[f] = None
    /\ NotBelow(p, f)

Without(order, f) == [p \in Frames |-> RemoveFirst(order[p], f)]
IndexIn(s, f) == CHOOSE i \in DOMAIN s : s[i] = f

-----------------------------------------------------------------------------
Init ==
    /\ live = {}
    /\ matter = [f \in Frames |-> None]
    /\ space = Blank
    /\ time = Blank

New(f) ==
    /\ f \notin live
    /\ live' = live \union {f}
    /\ UNCHANGED <<matter, space, time>>

(* A new child is first (or last) in space and last in time.               *)
Prepend(p, f) ==
    /\ Joinable(f, p)
    /\ space' = [space EXCEPT ![p] = <<f>> \o @]
    /\ time' = [time EXCEPT ![p] = Append(@, f)]
    /\ matter' = [matter EXCEPT ![f] = p]
    /\ UNCHANGED live

AppendChild(p, f) ==
    /\ Joinable(f, p)
    /\ space' = [space EXCEPT ![p] = Append(@, f)]
    /\ time' = [time EXCEPT ![p] = Append(@, f)]
    /\ matter' = [matter EXCEPT ![f] = p]
    /\ UNCHANGED live

(* f is placed next to its new sibling a; last in time again.              *)
JoinAt(a, f, offset) ==
    LET p == matter[a] IN
    /\ p # None
    /\ Joinable(f, p)
    /\ space' = [space EXCEPT ![p] = InsertAt(@, IndexIn(@, a) + offset, f)]
    /\ time' = [time EXCEPT ![p] = Append(@, f)]
    /\ matter' = [matter EXCEPT ![f] = p]
    /\ UNCHANGED live

Prejoin(a, f) == JoinAt(a, f, 0)
Adjoin(a, f)  == JoinAt(a, f, 1)

(* f becomes the most recently used child of its parent.                   *)
Pop(f) ==
    /\ matter[f] # None
    /\ time' = [Without(time, f) EXCEPT ![matter[f]] = <<f>> \o @]
    /\ UNCHANGED <<live, matter, space>>

RemoveFrame(f) ==
    /\ matter[f] # None
    /\ space' = Without(space, f)
    /\ time' = Without(time, f)
    /\ matter' = [matter EXCEPT ![f] = None]
    /\ UNCHANGED live

(* f and everything below it is freed.                                     *)
Destroy(f) ==
    /\ f \in live /\ matter[f] = None
    /\ \E below \in SUBSET live :
        /\ f \in below
        /\ \A g \in Frames : g \in below <=> g = f \/ matter[g] \in below
        /\ live' = live \ below
        /\ matter' = [g \in Frames |-> IF g \in below THEN None ELSE matter[g]]
        /\ space' = [g \in Frames |-> IF g \in below THEN <<>> ELSE space[g]]
        /\ time' = [g \in Frames |-> IF g \in below THEN <<>> ELSE time[g]]

Next ==
    \/ \E f \in Frames : New(f) \/ Pop(f) \/ RemoveFrame(f) \/ Destroy(f)
    \/ \E f, g \in Frames :
        Prepend(g, f) \/ AppendChild(g, f) \/ Prejoin(g, f) \/ Adjoin(g, f)

Spec == Init /\ [][Next]_vars

-----------------------------------------------------------------------------
Children(p) == {f \in Frames : matter[f] = p}

(* Every frame lists each of its children exactly once in each order.      *)
OrdersAgree ==
    \A p \in Frames : \A s \in {space[p], time[p]} :
        /\ ToSet(s) = Children(p)
        /\ Len(s) = Cardinality(Children(p))
=============================================================================
