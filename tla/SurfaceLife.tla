------------------------------ MODULE SurfaceLife ------------------------------
(***************************************************************************)
(* The storage of surfaces together with the exhibitor, which receives its *)
(* signals one by one in a thread of its own and looks the surface up in   *)
(* the storage when it does: the storage may have moved on since.          *)
(***************************************************************************)
EXTENDS SurfaceStorage

VARIABLE managed    \* surfaces the compositor has frames for

life == <<surfaces, lastSurface, signals, managed>>

Init == SurfaceInit /\ managed = {}

Received == Head(signals)

(* Mutant: only surfaces that can be looked up are let go.                 *)
DeliverStored ==
    /\ signals # <<>>
    /\ managed' = IF Received.sid \notin Stored THEN managed
                  ELSE IF Received.kind = "ready" THEN managed \union {Received.sid}
                  ELSE managed \ {Received.sid}
    /\ signals' = Tail(signals)
    /\ UNCHANGED <<surfaces, lastSurface>>

(* on_surface_ready and on_surface_destroyed.                              *)
Deliver ==
    /\ signals # <<>>
    /\ managed' = IF Received.kind = "destroyed" THEN managed \ {Received.sid}
                  ELSE IF Received.sid \in Stored THEN managed \union {Received.sid}
                  ELSE managed
    /\ signals' = Tail(signals)
    /\ UNCHANGED <<surfaces, lastSurface>>

(* What clients ask of their surfaces, besides relating them.  Only the    *)
(* shell is asked to show and hide surfaces.                               *)
Request ==
    \/ CreateSurface
    \/ \E s \in Known :
        \/ Attach(s) \/ Commit(s)
        \/ ShowSurface(s, "in_shell") \/ HideSurface(s, "in_shell")
        \/ DetachSurface(s) \/ DestroySurface(s)
        \/ UnrelateSurface(s)

Next ==
    \/ Request /\ UNCHANGED managed
    \/ (\E s, p \in Known : RelateSurfaces(s, p)) /\ UNCHANGED managed
    \/ Deliver

Spec == Init /\ [][Next]_life

(***************************************************************************)
(* Careful use, as the roles of the Wayland protocol ask for it: a surface *)
(* becomes a satellite when it has no parent and is not in the shell (the  *)
(* shell hides a toplevel before it relates it), and not of itself or of   *)
(* its own satellites, however deep.                                       *)
(***************************************************************************)
NotAbove(s, p) ==
    \E above \in SUBSET Sids :
        /\ p \in above /\ s \notin above
        /\ \A t \in above \intersect Stored :
            surfaces[t].parent \in Stored => surfaces[t].parent \in above

CarefulRelate(s, p) ==
    /\ s \in Stored
    /\ surfaces[s].parent \notin Stored
    /\ "in_shell" \notin surfaces[s].reasons
    /\ NotAbove(s, p)
    /\ RelateSurfaces(s, p)

CarefulNext ==
    \/ Request /\ UNCHANGED managed
    \/ (\E s, p \in Known : CarefulRelate(s, p)) /\ UNCHANGED managed
    \/ Deliver

Fairness == WF_life(Deliver)

CarefulSpec == Init /\ [][CarefulNext]_life /\ Fairness

-----------------------------------------------------------------------------
(* Surfaces are stored under IDs that were given out, and only these are   *)
(* signalled and have frames.                                              *)
TypeOK ==
    /\ lastSurface \in 0..MaxSurfaces
    /\ Stored \subseteq Known
    /\ surfaces \in [Stored -> Surface]
    /\ signals \in Seq(Signal) /\ \A i \in DOMAIN signals : signals[i].sid \in Known
    /\ managed \subseteq Known

(* A stored parent draws its satellite, and so unrelating finds it there.  *)
(* relate_surfaces and unrelate_surface change two surfaces of the map one *)
(* after the other, and either may be missing.                             *)
ParentsDrawSatellites ==
    \A s \in Stored : surfaces[s].parent \in Stored => s \in surfaces[surfaces[s].parent].satellites

(* A surface is drawn as part of itself and of its parent only.  Needs     *)
(* careful use: a second relate leaves the surface with its first parent,  *)
(* and unrelating it then takes it away from the second only.              *)
DrawnWithParentOnly ==
    \A s \in Stored :
        /\ s \in surfaces[s].satellites
        /\ \A t \in DrawnWith(s) : surfaces[t].parent = s

(* The recursion of get_renderer_context over the satellites ends: there   *)
(* is no circle of surfaces drawn with each other.                         *)
ContextEnds ==
    \A circle \in SUBSET Stored :
        circle # {} => \E s \in circle : DrawnWith(s) \intersect circle = {}

(* surfaces.rs:138: "Satelliting surface can not be shown in shell."       *)
NoSatelliteInShell ==
    \A s \in Stored : "in_shell" \in surfaces[s].reasons => surfaces[s].parent = Invalid

(* The compositor has a frame for s once it has received all signals.      *)
WillBeManaged(s) ==
    \/ /\ s \in managed
       /\ \A i \in DOMAIN signals : signals[i].sid # s
    \/ \E i \in DOMAIN signals :
       /\ signals[i] = [kind |-> "ready", sid |-> s]
       /\ \A j \in DOMAIN signals : j > i => signals[j].sid # s

(* A window the compositor has, or will have when it has caught up, is     *)
(* ready to be shown: whenever a surface stops being ready a signal is on  *)
(* its way, also when client and compositor act at the same time.          *)
ManagedIsReady ==
    \A s \in Stored : WillBeManaged(s) => surfaces[s].reasons = Ready

(* The compositor keeps no frame of a surface that is gone from the        *)
(* storage without the signal that removes it being on its way, even if    *)
(* the signal to show it is received after the surface was destroyed.      *)
NoGhost ==
    \A s \in managed \ Stored :
        \E i \in DOMAIN signals : signals[i] = [kind |-> "destroyed", sid |-> s]

(* Frames of destroyed surfaces are removed in the end: the exhibitor's    *)
(* event loop keeps receiving.                                             *)
GhostsLeave ==
    \A s \in Sids : (s \in managed /\ s \in Known \ Stored) ~> (s \notin managed)
================================================================================
