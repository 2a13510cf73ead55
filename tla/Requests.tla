-------------------------------- MODULE Requests -------------------------------
(***************************************************************************)
(* Requests of clients about surfaces, their images, outputs, screenshots, *)
(* input devices and selections, each with all it makes the proxy and the  *)
(* coordinator do.                                                         *)
(***************************************************************************)
EXTENDS Proxies

Own(c) == proxy[c].surfaces \intersect Stored

CompositorCreateSurface(c) ==
    /\ Request(c, "compositor")
    /\ CreateSurface
    /\ forms' = With(forms, lastSurface + 1, Form)
    /\ owner' = With(owner, lastSurface + 1, c)
    /\ AddTo(c, "surfaces", lastSurface + 1)
    /\ UNCHANGED <<memory, objects, transfer, shots, inbox, offerer, shooter, entered, offered>>

(* Mutant: the mediator forgets a surface as soon as it is destroyed.      *)
SurfaceDestroyForgotten(c, s) ==
    /\ Request(c, "compositor") /\ s \in Own(c)
    /\ DestroySurface(s) /\ forms' = Without(forms, {s})
    /\ owner' = Without(owner, {s})
    /\ UNCHANGED <<memory, proxy, objects, transfer, shots, inbox, offerer, shooter, entered, offered>>

(* Proxy and mediator remember the surface until the client is removed.    *)
SurfaceDestroy(c, s) ==
    /\ Request(c, "compositor") /\ s \in Own(c)
    /\ DestroySurface(s) /\ forms' = Without(forms, {s})
    /\ UNCHANGED <<proxy, objects>> /\ OnlySurfaces

(* The first buffer attached since the surface was drawn is the one        *)
(* released when it is drawn again.                                        *)
SurfaceAttach(c, s, b) ==
    /\ Request(c, "buffers") /\ s \in Own(c) /\ b \in DOMAIN proxy[c].buffers
    /\ AddTo(c, "held", s)
    /\ IF b \in DOMAIN views \union images THEN Attach(s) ELSE UNCHANGED storage
    /\ UNCHANGED <<forms, objects>> /\ OnlySurfaces

(* Attaching no buffer unmaps the surface at once.                         *)
SurfaceAttachNull(c, s) ==
    /\ Request(c, "buffers") /\ s \in Own(c)
    /\ surfaces' = Unrelated(s) /\ UNCHANGED lastSurface
    /\ Emit("destroyed", s)
    /\ UNCHANGED <<forms, proxy, objects>> /\ OnlySurfaces

SurfaceFrame(c, s) ==
    /\ Request(c, "frames") /\ s \in Own(c)
    /\ AddTo(c, "frames", s)
    /\ UNCHANGED <<storage, forms, objects>> /\ OnlySurfaces

(* Surface::commit: the first image gives its size to a surface of which   *)
(* none was requested, and to a satellite.                                 *)
Committed(s) ==
    LET form == forms[s]
    IN  IF surfaces[s].buffer \/ ~surfaces[s].pending THEN form
        ELSE [form EXCEPT !.requested = IF @ = Unset THEN OfImage ELSE @,
                          !.desired = IF surfaces[s].parent = Invalid THEN @ ELSE OfImage]

SurfaceCommit(c, s) ==
    /\ Request(c, "frames") /\ s \in Own(c)
    /\ Commit(s) /\ Formed(s, Committed(s))
    /\ UNCHANGED <<proxy, objects>> /\ OnlySurfaces

-----------------------------------------------------------------------------
(* Memory shared with clients: "shm" is what makes pools and buffers,      *)
(* "pool" and "buffer" is what is done to those there are.                 *)
NextId == Len(makers) + 1

(* IDs of a kind are never used again; one counter does for all kinds.     *)
Create(c) ==
    /\ Cardinality({i \in Ids : makers[i] = c}) < MaxImages
    /\ makers' = Append(makers, c)

ShmCreatePool(c) ==
    /\ Request(c, "shm") /\ Create(c)
    /\ pools' = With(pools, NextId, {})
    /\ AddTo(c, "pools", NextId)
    /\ UNCHANGED <<views, images, replaced, objects>> /\ OnlyMemory

(* What is known of a buffer is never forgotten, nor are those destroyed.  *)
RelateBuffer(c, b, p) == Proxied(c, [proxy[c] EXCEPT !.buffers = With(@, b, p)])

ShmCreateBuffer(c, p) ==
    /\ Request(c, "shm") /\ p \in proxy[c].pools /\ Create(c)
    /\ IF p \in DOMAIN pools
       THEN /\ pools' = [pools EXCEPT ![p] = @ \union {NextId}]
            /\ views' = With(views, NextId, p)
            /\ RelateBuffer(c, NextId, p)
       ELSE UNCHANGED <<pools, views, proxy>>
    /\ UNCHANGED <<images, replaced, objects>> /\ OnlyMemory

ShmBufferDestroy(c, v) ==
    /\ Request(c, "buffer") /\ v \in DOMAIN proxy[c].buffers \intersect DOMAIN views
    /\ views' = Without(views, {v})
    /\ pools' = [p \in DOMAIN pools |-> pools[p] \ {v}]
    /\ UNCHANGED <<proxy, images, makers, replaced, objects>> /\ OnlyMemory

(* destroy_memory_pool: the views the pool knows of go with it.            *)
WithoutPool(p) ==
    IF p \in DOMAIN pools THEN pools' = Without(pools, {p}) /\ views' = Without(views, pools[p])
    ELSE UNCHANGED <<pools, views>>

ShmPoolDestroy(c, p) ==
    /\ Request(c, "pool") /\ p \in proxy[c].pools
    /\ DropFrom(c, "pools", p)
    /\ WithoutPool(p)
    /\ UNCHANGED <<images, makers, replaced, objects>> /\ OnlyMemory

(* The new pool knows of no views; those of the old one are stored until   *)
(* their buffers are destroyed.                                            *)
ReplaceMemoryPool(p) ==
    /\ pools' = [q \in DOMAIN pools \union {p} |-> IF q = p THEN {} ELSE pools[q]]
    /\ replaced' = replaced \union (IF p \in DOMAIN pools THEN pools[p] ELSE {})

ShmPoolResize(c, p) ==
    /\ Request(c, "pool") /\ p \in proxy[c].pools
    /\ ReplaceMemoryPool(p)
    /\ UNCHANGED <<proxy, views, images, makers, objects>> /\ OnlyMemory

-----------------------------------------------------------------------------
(* Hardware images, which the graphics manager can make or not.            *)
CreateImage(c) ==
    /\ Create(c)
    /\ images' = images \union {NextId}
    /\ RelateBuffer(c, NextId, None)

DrmCreateBuffer(c) ==
    /\ Request(c, "hardware") /\ CreateImage(c)
    /\ UNCHANGED <<pools, views, replaced, objects>> /\ OnlyMemory

ImageDestroy(c, b) ==
    /\ \E interface \in {"hardware", "dmabuf"} : Request(c, interface)
    /\ b \in images \intersect DOMAIN proxy[c].buffers
    /\ images' = images \ {b}
    /\ UNCHANGED <<proxy, pools, views, makers, replaced, objects>> /\ OnlyMemory

Planes == 0..2

DmabufCreateParams(c) ==
    /\ Request(c, "dmabuf") /\ Creates(c, [kind |-> "params", planes |-> {}])
    /\ UNCHANGED <<memory, proxy>> /\ OnlyMemory

(* A plane that is out of bounds, or added already, is left out.           *)
ParamsAdd(c, o, i) ==
    /\ Request(c, "dmabuf") /\ Is(c, o, "params")
    /\ IF i \in Planes THEN Becomes(c, o, [objects[c][o] EXCEPT !.planes = @ \union {i}])
       ELSE UNCHANGED objects
    /\ UNCHANGED <<memory, proxy>> /\ OnlyMemory

(* As many planes as there are have to be the first ones.                  *)
Complete(planes) == \A i \in 0..(Cardinality(planes) - 1) : i \in planes

(* Nothing is told if planes are missing.                                  *)
ParamsCreate(c, o) ==
    /\ Request(c, "dmabuf") /\ Is(c, o, "params")
    /\ IF Complete(objects[c][o].planes) THEN CreateImage(c) ELSE UNCHANGED <<makers, images, proxy>>
    /\ UNCHANGED <<pools, views, replaced, objects>> /\ OnlyMemory

-----------------------------------------------------------------------------
(* Outputs and screenshots.                                                *)

(* What is known of an output object is never forgotten.                   *)
RelateOutput(c, o, output) == Proxied(c, [proxy[c] EXCEPT !.outputs = With(@, o, output)])

(* A registry tells of the globals there are when it is asked for, and of  *)
(* none that come later.                                                   *)
GetRegistry(c) ==
    /\ Request(c, "registry")
    /\ Creates(c, [kind |-> "registry", listed |-> proxy[c].globals])
    /\ UNCHANGED <<memory, proxy>> /\ OnlyMemory

(* A global is bound by its name, whether the registry told it or not;     *)
(* there may be none of it.                                                *)
BindOutput(c, r, i) ==
    /\ Request(c, "registry") /\ Is(c, r, "registry")
    /\ IF i \in DOMAIN proxy[c].globals
       THEN /\ Creates(c, [kind |-> "output"])
            /\ RelateOutput(c, Len(objects[c]) + 1, proxy[c].globals[i])
       ELSE UNCHANGED <<objects, proxy>>
    /\ UNCHANGED memory /\ OnlyMemory

OutputRelease(c, o) ==
    /\ Request(c, "output") /\ Is(c, o, "output")
    /\ Gone(c, o)
    /\ UNCHANGED <<memory, proxy>> /\ OnlyMemory

(* Whether there is memory for a screenshot to a buffer in pool p: the     *)
(* pool gives it back unless a surface or the exhibitor uses it.  With a   *)
(* hardware buffer, that of the request before is used.                    *)
Returned(c, p) ==
    IF p = None THEN {proxy[c].memory} ELSE IF p \in DOMAIN pools THEN BOOLEAN ELSE {FALSE}

(* The pool of the buffer, which may be destroyed, is destroyed; the proxy *)
(* goes on counting it as its own.  Nothing is told if the output is not   *)
(* known, or there is no memory.                                           *)
Shoot(c, o, b) ==
    LET p == proxy[c].buffers[b]
        known == o \in DOMAIN proxy[c].outputs
    IN  /\ Request(c, "screenshot") /\ b \in DOMAIN proxy[c].buffers
        /\ WithoutPool(p)
        /\ \E free \in Returned(c, p) :
            /\ Proxied(c, [proxy[c] EXCEPT !.memory = free, !.shooter = @ \/ (free /\ known)])
            /\ shooter' = IF free /\ known THEN c ELSE shooter
            /\ shots' = IF free /\ known THEN shots + 1 ELSE shots
        /\ UNCHANGED <<storage, forms, images, makers, replaced, objects, transfer, inbox, owner,
                       offerer, entered, offered>>

-----------------------------------------------------------------------------
(* Input devices and selections.                                           *)
OnlyDevices == UNCHANGED <<storage, forms, memory, shots, owner, shooter>>

InterfaceOf(d) == IF d \in Devices THEN d ELSE "data"

(* A keyboard, a pointer or a data device, one of a kind; nothing is told  *)
(* about the focus or the selection there is.                              *)
GetDevice(c, d) ==
    /\ Request(c, InterfaceOf(d)) /\ d \notin proxy[c].devices
    /\ AddTo(c, "devices", d)
    /\ UNCHANGED <<objects, inbox, entered, offered, transfer, offerer>> /\ OnlyDevices

ReleaseDevice(c, d) ==
    /\ Request(c, InterfaceOf(d)) /\ d \in proxy[c].devices
    /\ DropFrom(c, "devices", d)
    /\ entered' = [e \in Devices |-> IF e = d THEN entered[e] \ ({c} \X Sids) ELSE entered[e]]
    /\ offered' = IF d = "data" THEN [offered EXCEPT ![c] = None] ELSE offered
    /\ UNCHANGED <<objects, inbox, transfer, offerer>> /\ OnlyDevices

CreateDataSource(c) ==
    /\ Request(c, "data") /\ Creates(c, [kind |-> "source"])
    /\ UNCHANGED <<proxy, inbox, entered, offered, transfer, offerer>> /\ OnlyDevices

(* A selection lasts longer than its source.                               *)
DataSourceDestroy(c, o) ==
    /\ Request(c, "data") /\ Is(c, o, "source")
    /\ Gone(c, o)
    /\ UNCHANGED <<proxy, inbox, entered, offered, transfer, offerer>> /\ OnlyDevices

(* Sources that are destroyed are not selected.                            *)
SetSelection(c, o) ==
    /\ Request(c, "data") /\ "data" \in proxy[c].devices /\ o \in DOMAIN objects[c]
    /\ IF Is(c, o, "source")
       THEN /\ Proxied(c, [proxy[c] EXCEPT !.source = o])
            /\ offerer' = c /\ transfer' = transfer + 1
            /\ Send([kind |-> "offered"])
       ELSE UNCHANGED <<proxy, offerer, transfer, inbox>>
    /\ UNCHANGED <<objects, entered, offered>> /\ OnlyDevices

(* Who was offered a selection asks for its data.                          *)
DataOfferReceive(c) ==
    /\ Request(c, "data") /\ offered[c] # None
    /\ Send([kind |-> "requested"])
    /\ UNCHANGED <<proxy, objects, entered, offered, transfer, offerer>> /\ OnlyDevices
================================================================================
