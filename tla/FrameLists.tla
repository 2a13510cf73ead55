------------------------------ MODULE FrameLists ------------------------------
(***************************************************************************)
(* The lists of children read off the pointers of FrameNode, and what the  *)
(* manipulators promise about them: FrameNode implements FrameOrder.       *)
(***************************************************************************)
EXTENDS FrameNode, Integers, Sequences

(* The frames met when walking from the first child along next (the        *)
(* FrameTimeIterator and the FrameSpaceIterator of frame.rs).              *)
Walk(e, p) ==
    LET from[f \in Frames] ==
            <<f>> \o (IF e.next[f] = None THEN <<>> ELSE from[e.next[f]])
    IN  IF e.first[p] = None THEN <<>> ELSE from[e.first[p]]

Walks(e) == [p \in Frames |-> Walk(e, p)]

Order == INSTANCE FrameOrder WITH space <- Walks(space), time <- Walks(time)

(* Every manipulation of the pointers is, read as lists, the manipulation  *)
(* its documentation promises: prepend puts the child first in space and   *)
(* last in time, pop moves it to the front of the time order and leaves    *)
(* the space order alone, and so on.                                       *)
ImplementsOrder == Order!Spec
=============================================================================
