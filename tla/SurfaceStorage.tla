---------------------------- MODULE SurfaceStorage ----------------------------
(***************************************************************************)
(* Surfaces as the coordinator stores them (resource_storage.rs and        *)
(* surfaces.rs) and the signals about them it emits to the exhibitor.      *)
(*                                                                         *)
(* Every operation runs under the lock of the storage and emits its signal *)
(* before it gives the lock back, so signals are queued in the order of    *)
(* the operations.  Clients name surfaces they created, also those already *)
(* destroyed: Proxy::terminate destroys every surface a client ever had.   *)
(***************************************************************************)
EXTENDS Naturals, Sequences

CONSTANTS
    MaxSurfaces,    \* bound: surfaces ever created
    MaxSignals      \* bound: signals waiting for the exhibitor

ASSUME BoundsAssumption == MaxSurfaces \in Nat /\ MaxSignals \in Nat

VARIABLES
    surfaces,       \* stored surfaces, by ID
    lastSurface,    \* last_surface_id
    signals         \* what the exhibitor has still to receive

storage == <<surfaces, lastSurface, signals>>

Invalid == 0                       \* SurfaceId::invalid()
Sids == 1..MaxSurfaces
Reasons == {"drawable", "in_shell"}
Ready == Reasons

(* buffer and pending say whether there is data to draw; the satellites    *)
(* are kept without their order.                                           *)
Surface == [parent : Sids \union {Invalid}, satellites : SUBSET Sids,
            buffer : BOOLEAN, pending : BOOLEAN, reasons : SUBSET Reasons]

Signal == [kind : {"ready", "destroyed"}, sid : Sids]

Stored == DOMAIN surfaces
Known == 1..lastSurface            \* the IDs clients have been given

(* Mutant: the surface is made before its ID is.                           *)
NewSurfaceUnnamed(s) ==
    [parent |-> Invalid, satellites |-> {s - 1}, buffer |-> FALSE, pending |-> FALSE,
     reasons |-> {}]

NewSurface(s) ==
    [parent |-> Invalid, satellites |-> {s}, buffer |-> FALSE, pending |-> FALSE, reasons |-> {}]

Emit(kind, s) ==
    /\ Len(signals) < MaxSignals
    /\ signals' = Append(signals, [kind |-> kind, sid |-> s])

Update(s, surface) == surfaces' = [surfaces EXCEPT ![s] = surface]

SurfaceInit == surfaces = <<>> /\ lastSurface = 0 /\ signals = <<>>

CreateSurface ==
    LET s == lastSurface + 1
    IN  /\ s \in Sids
        /\ lastSurface' = s
        /\ surfaces' = [t \in Stored \union {s} |-> IF t = s THEN NewSurface(s) ELSE surfaces[t]]
        /\ UNCHANGED signals

(* attach_shm, attach_egl_image and attach_dmabuf, of an image that exists. *)
Attach(s) ==
    /\ s \in Stored
    /\ Update(s, [surfaces[s] EXCEPT !.pending = TRUE])
    /\ UNCHANGED <<lastSurface, signals>>

(* Mutant: whether the surface has a parent is not asked.                  *)
ShownAnyway(surface, reason) == [surface EXCEPT !.reasons = @ \union {reason}]

(* Surface::show: a satellite is not shown in the shell.                   *)
Shown(surface, reason) ==
    IF reason = "in_shell" /\ surface.parent # Invalid THEN surface
    ELSE [surface EXCEPT !.reasons = @ \union {reason}]

(* The surface, whose parts may have changed before, is shown.             *)
ShowAs(s, surface, reason) ==
    LET shown == Shown(surface, reason)
    IN  /\ Update(s, shown)
        /\ IF shown.reasons = Ready /\ surface.reasons # Ready THEN Emit("ready", s)
           ELSE UNCHANGED signals
        /\ UNCHANGED lastSurface

ShowSurface(s, reason) == s \in Stored /\ ShowAs(s, surfaces[s], reason)

(* commit_surface, with Surface::commit: drawable from the first commit on. *)
Commit(s) ==
    LET committed == [surfaces[s] EXCEPT !.buffer = surfaces[s].pending]
    IN  /\ s \in Stored
        /\ IF surfaces[s].buffer
           THEN Update(s, committed) /\ UNCHANGED <<lastSurface, signals>>
           ELSE ShowAs(s, committed, "drawable")

(* Mutant: hiding is left to the next commit to be told.                   *)
HideSilently(s, reason) ==
    /\ s \in Stored
    /\ Update(s, [surfaces[s] EXCEPT !.reasons = @ \ {reason}])
    /\ UNCHANGED <<lastSurface, signals>>

HideSurface(s, reason) ==
    /\ s \in Stored
    /\ Update(s, [surfaces[s] EXCEPT !.reasons = @ \ {reason}])
    /\ IF surfaces[s].reasons \ {reason} # Ready /\ surfaces[s].reasons = Ready
       THEN Emit("destroyed", s) ELSE UNCHANGED signals
    /\ UNCHANGED lastSurface

DetachSurface(s) == Emit("destroyed", s) /\ UNCHANGED <<surfaces, lastSurface>>

(* Mutant: a surface that is not on the screen goes without a signal.      *)
DestroyUnsignalled(s) ==
    /\ surfaces' = [t \in Stored \ {s} |-> surfaces[t]]
    /\ UNCHANGED <<lastSurface, signals>>

(* The signal goes out whether the surface is stored or not.               *)
DestroySurface(s) ==
    /\ Emit("destroyed", s)
    /\ surfaces' = [t \in Stored \ {s} |-> surfaces[t]]
    /\ UNCHANGED lastSurface

(* Mutant: the flag that says whether the list holds s is turned round.   *)
AddSatelliteAgain(surface, s) ==
    IF s \in surface.satellites THEN [surface EXCEPT !.satellites = @ \union {s}] ELSE surface

AddSatellite(surface, s) == [surface EXCEPT !.satellites = @ \union {s}]

Relation(s, p) ==
    [t \in Stored |->
        LET surface ==
                IF t = s THEN [surfaces[s] EXCEPT !.parent = p, !.reasons = @ \ {"in_shell"}]
                ELSE surfaces[t]
        IN  IF t = p THEN AddSatellite(surface, s) ELSE surface]

(* No signal tells that the surface leaves the shell.                      *)
RelateSurfaces(s, p) ==
    /\ s \in Stored
    /\ surfaces' = Relation(s, p)
    /\ UNCHANGED <<lastSurface, signals>>

(* Mutant: the parent is read after it was reset.                          *)
UnrelateForgotten(s) ==
    /\ s \in Stored
    /\ Update(s, [surfaces[s] EXCEPT !.parent = Invalid])
    /\ UNCHANGED <<lastSurface, signals>>

Unrelated(s) ==
    LET p == surfaces[s].parent
    IN  [t \in Stored |->
            LET surface == IF t = s THEN [surfaces[t] EXCEPT !.parent = Invalid] ELSE surfaces[t]
            IN  IF t = p THEN [surface EXCEPT !.satellites = @ \ {s}] ELSE surface]

UnrelateSurface(s) ==
    /\ s \in Stored
    /\ surfaces' = Unrelated(s)
    /\ UNCHANGED <<lastSurface, signals>>

(* What get_renderer_context reaches in one step from s, itself left out.  *)
DrawnWith(s) == (surfaces[s].satellites \intersect Stored) \ {s}
===============================================================================
