--------------------------------- MODULE Roles ---------------------------------
(***************************************************************************)
(* Requests that give surfaces a role and a form: windows and popups of    *)
(* the two shells, subsurfaces, regions, positioners and cursors.          *)
(*                                                                         *)
(* Objects name the surface they are about, which they may outlive.        *)
(***************************************************************************)
EXTENDS Proxies

Mine(c, o) == objects[c][o].surface

Live(c, s) == c \in Connected /\ s \in proxy[c].surfaces \intersect Stored

(* Proxy::show.  The object that was there first goes on being configured. *)
ShownThrough(c, s, o) ==
    IF s \in DOMAIN proxy[c].shells THEN UNCHANGED proxy
    ELSE Proxied(c, [proxy[c] EXCEPT !.shells = With(@, s, [object |-> o, size |-> Unset])])

Unshelled(c, s) == Proxied(c, [proxy[c] EXCEPT !.shells = Without(@, {s})])

(* The surface whose window was made through xdg surface o, if any.        *)
SurfaceOfShell(c, o) ==
    {s \in DOMAIN proxy[c].shells : proxy[c].shells[s].object = o}

(* Proxy::relate, with the position given afterwards.                      *)
RelatedAt(s, p, placed) ==
    IF s \in Stored THEN RelateSurfaces(s, p) /\ Formed(s, [forms[s] EXCEPT !.position = placed])
    ELSE UNCHANGED <<storage, forms>>

Unrelates(s) == IF s \in Stored THEN UnrelateSurface(s) ELSE UNCHANGED storage

-----------------------------------------------------------------------------
(* zxdg_shell_v6.                                                          *)
GetXdgSurface(c, s) ==
    /\ Request(c, "xdg") /\ Live(c, s)
    /\ Creates(c, [kind |-> "xdg", surface |-> s])
    /\ UNCHANGED <<storage, forms, proxy>> /\ OnlySurfaces

XdgSurfaceDestroy(c, o) ==
    /\ Request(c, "xdg") /\ Is(c, o, "xdg")
    /\ IF Mine(c, o) \in Stored THEN HideSurface(Mine(c, o), "in_shell") ELSE UNCHANGED storage
    /\ Unshelled(c, Mine(c, o))
    /\ Gone(c, o)
    /\ UNCHANGED forms /\ OnlySurfaces

GetToplevel(c, o) ==
    /\ Request(c, "xdg") /\ Is(c, o, "xdg")
    /\ Creates(c, [kind |-> "toplevel"])
    /\ ShownThrough(c, Mine(c, o), o)
    /\ IF Mine(c, o) \in Stored THEN ShowSurface(Mine(c, o), "in_shell") ELSE UNCHANGED storage
    /\ UNCHANGED forms /\ OnlySurfaces

(* The window stays; another toplevel may be made for it.                  *)
ToplevelDestroy(c, o) ==
    /\ Request(c, "xdg") /\ Is(c, o, "toplevel")
    /\ Gone(c, o)
    /\ UNCHANGED <<storage, forms, proxy>> /\ OnlySurfaces

(* Positions are taken from a positioner, if there is one.  A parent that  *)
(* is no window, and so no popups of popups, leaves the surface alone.     *)
GetPopup(c, o, p, r) ==
    /\ Request(c, "xdg") /\ Is(c, o, "xdg") /\ Is(c, p, "xdg") /\ Mine(c, o) # Mine(c, p)
    /\ Creates(c, [kind |-> "popup", surface |-> Mine(c, o)])
    /\ IF SurfaceOfShell(c, p) = {} THEN UNCHANGED <<storage, forms>>
       ELSE \E s \in SurfaceOfShell(c, p) :
                RelatedAt(Mine(c, o), s, Is(c, r, "positioner") /\ objects[c][r].placed)
    /\ UNCHANGED proxy /\ OnlySurfaces

PopupDestroy(c, o) ==
    /\ Request(c, "xdg") /\ Is(c, o, "popup")
    /\ Unrelates(Mine(c, o))
    /\ Gone(c, o)
    /\ UNCHANGED <<forms, proxy>> /\ OnlySurfaces

CreatePositioner(c) ==
    /\ Request(c, "xdg") /\ Creates(c, [kind |-> "positioner", placed |-> FALSE])
    /\ UNCHANGED <<storage, forms, proxy>> /\ OnlySurfaces

(* An offset or an anchor is set; the rest does not say where.             *)
PositionerSet(c, o) ==
    /\ Request(c, "xdg") /\ Is(c, o, "positioner")
    /\ Becomes(c, o, [objects[c][o] EXCEPT !.placed = TRUE])
    /\ UNCHANGED <<storage, forms, proxy>> /\ OnlySurfaces

PositionerDestroy(c, o) ==
    /\ Request(c, "xdg") /\ Is(c, o, "positioner")
    /\ Gone(c, o)
    /\ UNCHANGED <<storage, forms, proxy>> /\ OnlySurfaces

-----------------------------------------------------------------------------
(* wl_shell; its objects remember what the surface was made last.          *)
GetShellSurface(c, s) ==
    /\ Request(c, "shell") /\ Live(c, s)
    /\ Creates(c, [kind |-> "shell", surface |-> s, type |-> "none"])
    /\ UNCHANGED <<storage, forms, proxy>> /\ OnlySurfaces

(* A popup is unrelated first.                                             *)
UnrelatedAndShown(s) ==
    /\ surfaces' = [Unrelated(s) EXCEPT ![s].reasons = @ \union {"in_shell"}]
    /\ IF surfaces[s].reasons = Ready \ {"in_shell"} THEN Emit("ready", s) ELSE UNCHANGED signals
    /\ UNCHANGED lastSurface

SetToplevel(c, o) ==
    LET s == Mine(c, o)
    IN  /\ Request(c, "shell") /\ Is(c, o, "shell")
        /\ Becomes(c, o, [objects[c][o] EXCEPT !.type = "toplevel"])
        /\ ShownThrough(c, s, o)
        /\ IF s \notin Stored THEN UNCHANGED storage
           ELSE IF objects[c][o].type = "popup" THEN UnrelatedAndShown(s)
           ELSE ShowSurface(s, "in_shell")
        /\ UNCHANGED forms /\ OnlySurfaces

(* A window is hidden first, which the exhibitor is told.                  *)
HiddenAndRelated(s, p) ==
    /\ surfaces' = Relation(s, p)
    /\ IF surfaces[s].reasons = Ready THEN Emit("destroyed", s) ELSE UNCHANGED signals
    /\ UNCHANGED lastSurface

(* set_transient and set_popup.                                            *)
SetPopup(c, o, p, placed) ==
    LET s == Mine(c, o)
        shown == objects[c][o].type = "toplevel"
    IN  /\ Request(c, "shell") /\ Is(c, o, "shell") /\ Live(c, p) /\ s # p
        /\ Becomes(c, o, [objects[c][o] EXCEPT !.type = "popup"])
        /\ IF shown THEN Unshelled(c, s) ELSE UNCHANGED proxy
        /\ IF s \in Stored
           THEN /\ IF shown THEN HiddenAndRelated(s, p) ELSE RelateSurfaces(s, p)
                /\ Formed(s, [forms[s] EXCEPT !.position = placed])
           ELSE UNCHANGED <<storage, forms>>
        /\ OnlySurfaces

-----------------------------------------------------------------------------
(* wl_subcompositor.                                                       *)
GetSubsurface(c, s, p) ==
    /\ Request(c, "subsurfaces") /\ Live(c, s) /\ Live(c, p) /\ s # p
    /\ Creates(c, [kind |-> "subsurface", surface |-> s])
    /\ RelatedAt(s, p, FALSE)
    /\ UNCHANGED proxy /\ OnlySurfaces

SubsurfaceDestroy(c, o) ==
    /\ Request(c, "subsurfaces") /\ Is(c, o, "subsurface")
    /\ Unrelates(Mine(c, o))
    /\ Gone(c, o)
    /\ UNCHANGED <<forms, proxy>> /\ OnlySurfaces

SubsurfaceSetPosition(c, o, placed) ==
    LET s == Mine(c, o)
    IN  /\ Request(c, "subsurfaces") /\ Is(c, o, "subsurface")
        /\ s \in Stored /\ Formed(s, [forms[s] EXCEPT !.position = placed])
        /\ UNCHANGED <<storage, proxy, objects>> /\ OnlySurfaces

-----------------------------------------------------------------------------
(* Regions, of which the code knows the area that holds all, and cursors.  *)
CreateRegion(c) ==
    /\ Request(c, "regions") /\ Creates(c, [kind |-> "region", area |-> "none"])
    /\ UNCHANGED <<storage, forms, proxy>> /\ OnlySurfaces

(* An area of no width or height is left out; corner says whether all of   *)
(* the region starts at position zero.                                     *)
RegionAdd(c, o, corner) ==
    /\ Request(c, "regions") /\ Is(c, o, "region")
    /\ Becomes(c, o, [objects[c][o] EXCEPT
            !.area = IF @ = "corner" \/ corner THEN "corner" ELSE "inside"])
    /\ UNCHANGED <<storage, forms, proxy>> /\ OnlySurfaces

RegionDestroy(c, o) ==
    /\ Request(c, "regions") /\ Is(c, o, "region")
    /\ Gone(c, o)
    /\ UNCHANGED <<storage, forms, proxy>> /\ OnlySurfaces

(* set_input_region and set_opaque_region.                                 *)
SetRegion(c, s, o) ==
    /\ Request(c, "regions") /\ Live(c, s)
    /\ IF Is(c, o, "region") /\ objects[c][o].area # "none"
       THEN Formed(s, [forms[s] EXCEPT !.requested = OfRegion,
                                       !.offset = objects[c][o].area = "inside"])
       ELSE UNCHANGED forms
    /\ UNCHANGED <<storage, proxy, objects>> /\ OnlySurfaces

(* The surface becomes the cursor, which Session has.                      *)
SetCursor(c, s, inside) ==
    /\ Request(c, "regions") /\ Live(c, s)
    /\ Formed(s, [forms[s] EXCEPT !.offset = inside])
    /\ UNCHANGED <<storage, proxy, objects>> /\ OnlySurfaces
================================================================================
