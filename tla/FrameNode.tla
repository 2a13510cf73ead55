------------------------------ MODULE FrameNode ------------------------------
(***************************************************************************)
(* The frame nodes of cognitive/frames/src/frame.rs: heap objects joined   *)
(* by raw pointers.  A node has a pointer to its parent ("matter") and, in *)
(* each of the orders "space" and "time", pointers to the previous and the *)
(* next sibling and to the first and the last child.  The code updates     *)
(* them inside "unsafe" blocks, so nothing but the algorithm itself keeps  *)
(* the pointers consistent or keeps them from naming a freed node.         *)
(***************************************************************************)
CONSTANTS Frames, None

ASSUME NoneAssumption == None \notin Frames

VARIABLES live,     \* nodes that are allocated
          matter,   \* pointer to the parent
          space,    \* edges in space order
          time      \* edges in time order

vars == <<live, matter, space, time>>

Links == [Frames -> Frames \union {None}]
(* Mutant: a node is allocated and its pointers are left as they were.     *)
UnlinkedGarbage == [f \in Frames |-> "uninitialized"]
Unlinked == [f \in Frames |-> None]

Edges == [prev : Links, next : Links, first : Links, last : Links]
NoEdges == [prev |-> Unlinked, next |-> Unlinked,
            first |-> Unlinked, last |-> Unlinked]

-----------------------------------------------------------------------------
(* The private manipulators, on one order's edges e.                       *)

(* prepend_time, prepend_space *)
PrependEdge(e, p, f) ==
    IF e.first[p] = None
    THEN [e EXCEPT !.first[p] = f, !.last[p] = f]
    ELSE [e EXCEPT !.prev[e.first[p]] = f, !.next[f] = e.first[p], !.first[p] = f]

(* append_time, append_space *)
AppendEdge(e, p, f) ==
    IF e.last[p] = None
    THEN [e EXCEPT !.first[p] = f, !.last[p] = f]
    ELSE [e EXCEPT !.next[e.last[p]] = f, !.prev[f] = e.last[p], !.last[p] = f]

(* join_space *)
JoinEdge(e, a, b) == [e EXCEPT !.next[a] = b, !.prev[b] = a]

(* unjoin_time, unjoin_space: the neighbours, or the parent p where there  *)
(* is no neighbour, forget f.                                              *)
ForgetNext(e, p, f) ==
    IF e.next[f] # None
    THEN [e EXCEPT !.prev[e.next[f]] = e.prev[f]]
    ELSE [e EXCEPT !.last[p] = e.prev[f]]

(* Mutant: the parent keeps f as its first child.                          *)
ForgetPrevHalf(e, p, f) ==
    IF e.prev[f] # None THEN [e EXCEPT !.next[e.prev[f]] = e.next[f]] ELSE e
ForgetPrev(e, p, f) ==
    IF e.prev[f] # None
    THEN [e EXCEPT !.next[e.prev[f]] = e.next[f]]
    ELSE [e EXCEPT !.first[p] = e.next[f]]

UnjoinEdge(e, p, f) ==
    [ForgetPrev(ForgetNext(e, p, f), p, f) EXCEPT !.prev[f] = None, !.next[f] = None]

-----------------------------------------------------------------------------
(* Mutant: the caller compares the two frames and not what is above.       *)
NotBelowOne(p, f) == p # f
NotBelow(p, f) ==
    \E above \in SUBSET Frames :
        /\ p \in above /\ f \notin above
        /\ \A g \in above : matter[g] # None => matter[g] \in above

(* What the manipulators ask of their callers and do not check: the frame  *)
(* inserted is fresh or was removed from its parent before, and does not   *)
(* contain the frame it is inserted into.  What the compositor does about  *)
(* the latter is the subject of TargetsOutside and NoPanic of Compositor.  *)
Joinable(f, p) ==
    /\ f \in live /\ p \in live
    /\ matter[f] = None
    /\ NotBelow(p, f)

Init ==
    /\ live = {}
    /\ matter = Unlinked
    /\ space = NoEdges
    /\ time = NoEdges

New(f) ==
    /\ f \notin live
    /\ live' = live \union {f}
    /\ UNCHANGED <<matter, space, time>>

Prepend(p, f) ==
    /\ Joinable(f, p)
    /\ time' = AppendEdge(time, p, f)
    /\ space' = PrependEdge(space, p, f)
    /\ matter' = [matter EXCEPT ![f] = p]
    /\ UNCHANGED live

AppendChild(p, f) ==
    /\ Joinable(f, p)
    /\ time' = AppendEdge(time, p, f)
    /\ space' = AppendEdge(space, p, f)
    /\ matter' = [matter EXCEPT ![f] = p]
    /\ UNCHANGED live

Prejoin(a, f) ==
    /\ matter[a] # None
    /\ Joinable(f, matter[a])
    /\ time' = AppendEdge(time, matter[a], f)
    /\ space' = IF space.prev[a] # None
                THEN JoinEdge(JoinEdge(space, space.prev[a], f), f, a)
                ELSE PrependEdge(space, matter[a], f)
    /\ matter' = [matter EXCEPT ![f] = matter[a]]
    /\ UNCHANGED live

Adjoin(a, f) ==
    /\ matter[a] # None
    /\ Joinable(f, matter[a])
    /\ time' = AppendEdge(time, matter[a], f)
    /\ space' = IF space.next[a] # None
                THEN JoinEdge(JoinEdge(space, a, f), f, space.next[a])
                ELSE AppendEdge(space, matter[a], f)
    /\ matter' = [matter EXCEPT ![f] = matter[a]]
    /\ UNCHANGED live

(* Mutant: pop moves the frame to the wrong end.                           *)
PopLast(f) ==
    /\ matter[f] # None
    /\ time' = AppendEdge(UnjoinEdge(time, matter[f], f), matter[f], f)
    /\ UNCHANGED <<live, matter, space>>
Pop(f) ==
    /\ matter[f] # None
    /\ time' = PrependEdge(UnjoinEdge(time, matter[f], f), matter[f], f)
    /\ UNCHANGED <<live, matter, space>>

RemoveFrame(f) ==
    /\ matter[f] # None
    /\ time' = UnjoinEdge(time, matter[f], f)
    /\ space' = UnjoinEdge(space, matter[f], f)
    /\ matter' = [matter EXCEPT ![f] = None]
    /\ UNCHANGED live

(* Mutant: destroy frees a frame and leaves its children.                  *)
BelowAlone(f, nodes) == nodes = {f}
(* The nodes destroy frees: f and, recursively, its children.              *)
Below(f, nodes) ==
    \A g \in Frames : g \in nodes <=> g = f \/ matter[g] \in nodes

Erased(link, nodes) == [f \in Frames |-> IF f \in nodes THEN None ELSE link[f]]
ErasedEdges(e, nodes) ==
    [prev |-> Erased(e.prev, nodes), next |-> Erased(e.next, nodes),
     first |-> Erased(e.first, nodes), last |-> Erased(e.last, nodes)]

(* Frames are destroyed only after they were removed from their parent.    *)
(* The contents of a freed node are gone; the model keeps them blank.      *)
Destroy(f) ==
    /\ f \in live /\ matter[f] = None
    /\ \E nodes \in SUBSET Frames :
        /\ Below(f, nodes)
        /\ live' = live \ nodes
        /\ matter' = Erased(matter, nodes)
        /\ space' = ErasedEdges(space, nodes)
        /\ time' = ErasedEdges(time, nodes)

Next ==
    \/ \E f \in Frames : New(f) \/ Pop(f) \/ RemoveFrame(f) \/ Destroy(f)
    \/ \E f, g \in Frames :
        Prepend(g, f) \/ AppendChild(g, f) \/ Prejoin(g, f) \/ Adjoin(g, f)

Spec == Init /\ [][Next]_vars

-----------------------------------------------------------------------------
(* Every pointer field holds a node or null.  (Node::default, Edges)       *)
TypeOK ==
    /\ live \subseteq Frames
    /\ matter \in Links
    /\ space \in Edges
    /\ time \in Edges

(* next and prev are each other's inverse and join children of one parent. *)
SiblingsLinked(e, m) ==
    \A a, b \in Frames :
        /\ e.next[a] = b <=> e.prev[b] = a
        /\ e.next[a] = b => m[a] = m[b] /\ m[a] # None

(* The first (last) child of p is the child with no previous (next) one.   *)
EndsLinked(e, m) ==
    \A p, a \in Frames :
        /\ e.first[p] = a <=> m[a] = p /\ e.prev[a] = None
        /\ e.last[p] = a <=> m[a] = p /\ e.next[a] = None

(* Following a link never goes round in a circle.                          *)
NoCircle(link) ==
    \A ring \in SUBSET Frames : ring # {} => \E f \in ring : link[f] \notin ring

EdgesOK(e, m) ==
    /\ SiblingsLinked(e, m)
    /\ EndsLinked(e, m)
    /\ NoCircle(e.next)
    /\ NoCircle(e.prev)

(* Both doubly linked lists of every frame are sound: walking either of    *)
(* them from the first child, in either direction, ends after visiting     *)
(* every child once, whatever prepend, append, prejoin, adjoin, pop and    *)
(* remove did before.                                                      *)
LinksOK == EdgesOK(space, matter) /\ EdgesOK(time, matter)

(* The frames form a forest, so the recursions of destroy, find_top and    *)
(* pop_recursively end.                                                    *)
Forest == NoCircle(matter)

(* Nothing that is allocated points to a node that is not: a pointer read  *)
(* through the unsafe blocks never names freed memory.                     *)
NoDanglingPointer ==
    LET reached == live \union {None} IN
    /\ \A f \in Frames : matter[f] \in reached
    /\ \A f \in Frames : \A e \in {space, time} :
        {e.prev[f], e.next[f], e.first[f], e.last[f]} \subseteq reached
=============================================================================
