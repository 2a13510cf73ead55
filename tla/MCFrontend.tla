------------------------------ MODULE MCFrontend -------------------------------
(***************************************************************************)
(* Frontend for model checking: groups of interfaces that act on the same  *)
(* state, with bounds of their own.                                        *)
(***************************************************************************)
EXTENDS Frontend

Group(uses, clientsMax, requestsMax, changesMax, displaysMax) ==
    [uses |-> uses, clients |-> clientsMax, requests |-> requestsMax, changes |-> changesMax,
     displays |-> displaysMax, objects |-> MaxObjects]

(* Groups whose clients have surfaces.                                     *)
Surfaces(uses) == {"compositor"} \union uses

(* Two clients that each make a pool and a buffer, bind an output they     *)
(* listed and ask, so that one request overrides the other.                *)
TwoScreenshots ==
    [Group({"shm", "registry", "screenshot"}, 2, 10, 0, 1) EXCEPT !.objects = 2]

MCGroups ==
    {TwoScreenshots,
     Group(Surfaces({"xdg"}), 1, 7, 0, 0),
     Group(Surfaces({"shell"}), 1, 6, 0, 0),
     Group(Surfaces({"subsurfaces"}), 1, 6, 0, 0),
     Group(Surfaces({"regions"}), 1, 5, 0, 0),
     Group({"dmabuf"}, 1, 6, 0, 0),
     Group({"shm", "pool", "buffer", "hardware", "screenshot", "registry", "output"}, 1, 6, 0, 1),
     Group({"shm", "pool", "buffer"}, 2, 4, 0, 0),
     Group({"registry", "output"}, 2, 4, 2, 0),
     Group(Surfaces({"buffers", "hardware", "frames"}), 1, 6, 2, 0),
     Group(Surfaces({"xdg", "keyboard", "sizes"}), 1, 3, 3, 0),
     Group(Surfaces({"xdg", "sizes"}), 1, 4, 2, 0),
     Group(Surfaces({"keyboard"}), 2, 3, 2, 0),
     Group(Surfaces({"pointer"}), 2, 3, 1, 0),
     Group(Surfaces({"data"}), 1, 5, 3, 0),
     Group(Surfaces({"data"}), 2, 3, 2, 0)}

================================================================================
