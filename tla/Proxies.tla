-------------------------------- MODULE Proxies --------------------------------
(***************************************************************************)
(* What the Wayland thread keeps of its clients, and what it shares with   *)
(* the exhibitor through the coordinator: surfaces (SurfaceStorage) with   *)
(* their sizes, memory pools and views, images, focus, selection, outputs. *)
(* A proxy keeps what the requests of one client made; the mediator knows  *)
(* whose a surface is.  Requests are in the modules that extend this one.  *)
(*                                                                         *)
(* A behaviour is about one group of interfaces, those that act on the     *)
(* same state, and has bounds of its own.                                  *)
(***************************************************************************)
EXTENDS SurfaceStorage, FiniteSets

CONSTANTS
    Groups,         \* groups of interfaces, with their bounds
    MaxClients,     \* bound: clients that ever connect
    MaxImages,      \* bound: memory pools, views and hardware images a client ever creates
    MaxObjects,     \* bound: protocol objects a client ever creates
    MaxSizes,       \* bound: sizes the exhibitor gives to surfaces
    MaxInbox        \* bound: messages waiting for the thread

(* "displays" are created before clients come.                             *)
ASSUME ProxiesAssumption ==
    /\ MaxClients \in Nat /\ MaxImages \in Nat /\ MaxObjects \in Nat /\ MaxSizes \in Nat
    /\ MaxInbox \in Nat
    /\ \A g \in Groups :
        /\ g.clients \in 0..MaxClients /\ g.objects \in 0..MaxObjects
        /\ {g.requests, g.changes, g.displays} \subseteq Nat

VARIABLES
    forms,        \* sizes, offset and position of stored surfaces
    pools,        \* stored memory pools, and their views
    views,        \* stored memory views, and the pools they were made from
    images,       \* stored EGL images and dmabufs
    makers,       \* whose a pool, view or image is, by ID
    replaced,     \* views of memory that was replaced
    focus,        \* kfsid and pfsid of the coordinator
    transfer,     \* selections made; the last one is in force
    shots,        \* screenshots the exhibitor has to take
    displays,     \* how many displays the exhibitor created
    inbox,        \* messages for the thread
    outputs,      \* output_infos of the engine
    lastClient,   \* the last ID the local dispatcher gave to a client
    sources,      \* clients whose sockets the local dispatcher watches
    proxy,        \* the proxies of clients
    objects,      \* protocol objects of clients, in the order of creation
    owner,        \* clients of surfaces, as the mediator knows them
    offerer,      \* transfer_offerer
    shooter,      \* screenshoter_cid
    hungup,       \* clients that closed their connections
    entered,      \* surfaces clients were told to be entered, not yet left
    offered,      \* the selection clients were last told of
    due,          \* surfaces drawn, whose frame callback is not done yet
    group,        \* the interfaces clients use in this behaviour, and bounds
    requests, changes

memory == <<pools, views, images, makers, replaced>>
mediator == <<owner, offerer, shooter>>
told == <<entered, offered, due>>
clients == <<lastClient, hungup>>

(* What no request of a client changes.                                    *)
others == <<focus, displays, outputs, sources, clients, due, group, changes>>

frontend == <<storage, forms, memory, focus, transfer, shots, displays, inbox, outputs, sources,
              proxy, objects, mediator, clients, told, group, requests, changes>>

Clients == 1..MaxClients

None == 0

Devices == {"keyboard", "pointer"}

Ids == DOMAIN makers

Oids == 1..MaxObjects

Pairs == Clients \X Sids

(* Sizes: not set yet, set by the exhibitor, taken from a region or from   *)
(* the image.                                                              *)
Unset == 0
Sizes == 1..MaxSizes
OfRegion == MaxSizes + 1
OfImage == MaxSizes + 2

(* Whether offset and position are others than zero is all that is kept.   *)
Form == [desired |-> Unset, requested |-> Unset, offset |-> FALSE, position |-> FALSE]

(* shells has the object a surface's windows are configured through, with  *)
(* the size last told, buffers the pools of shared memory they are in (of  *)
(* hardware images None), source the data source that was selected.        *)
NewProxy ==
    [surfaces |-> {}, frames |-> {}, held |-> {}, shells |-> <<>>, pools |-> {}, buffers |-> <<>>,
     devices |-> {}, globals |-> outputs, outputs |-> <<>>, source |-> None, memory |-> FALSE,
     shooter |-> FALSE]

Connected == DOMAIN proxy

ClientOf(s) == IF s \in DOMAIN owner THEN owner[s] ELSE None

Without(f, S) == [x \in DOMAIN f \ S |-> f[x]]

With(f, x, y) == [z \in DOMAIN f \union {x} |-> IF z = x THEN y ELSE f[z]]

(* With displays created, and known to the engine, before clients come.    *)
Init ==
    /\ SurfaceInit
    /\ forms = <<>>
    /\ pools = <<>> /\ views = <<>> /\ images = {} /\ makers = <<>> /\ replaced = {}
    /\ focus = [d \in Devices |-> Invalid] /\ transfer = None /\ shots = 0
    /\ group \in Groups /\ displays = group.displays
    /\ outputs = [i \in 1..displays |-> i]
    /\ inbox = <<>> /\ sources = {} /\ proxy = <<>> /\ objects = <<>>
    /\ hungup = {} /\ lastClient = 0
    /\ owner = <<>> /\ offerer = None /\ shooter = None
    /\ entered = [d \in Devices |-> {}] /\ offered = [c \in Clients |-> None]
    /\ due = {} /\ requests = 0 /\ changes = 0

Send(m) == Len(inbox) < MaxInbox /\ inbox' = Append(inbox, m)

-----------------------------------------------------------------------------
(* A request of an interface of the group.                                 *)
Request(c, interface) ==
    /\ c \in Connected /\ interface \in group.uses
    /\ requests < group.requests /\ requests' = requests + 1
    /\ UNCHANGED others

Proxied(c, p) == proxy' = [proxy EXCEPT ![c] = p]

AddTo(c, field, x) == Proxied(c, [proxy[c] EXCEPT ![field] = @ \union {x}])

DropFrom(c, field, x) == Proxied(c, [proxy[c] EXCEPT ![field] = @ \ {x}])

(* Numbers of objects are not used again: clients use again those the      *)
(* server says are deleted, which it does of callbacks and memory pools    *)
(* only, and by these nothing of the proxy is found.                       *)
Creates(c, object) ==
    /\ Len(objects[c]) < group.objects
    /\ objects' = [objects EXCEPT ![c] = Append(@, object)]

Becomes(c, o, object) == objects' = [objects EXCEPT ![c][o] = object]

Gone(c, o) == Becomes(c, o, [kind |-> "gone"])

Is(c, o, kind) == c \in Connected /\ o \in DOMAIN objects[c] /\ objects[c][o].kind = kind

(* Calls of the coordinator about surfaces, which only change the storage. *)
OnlySurfaces == UNCHANGED <<memory, transfer, shots, inbox, mediator, entered, offered>>

(* Calls about memory pools and views, and hardware images.                *)
OnlyMemory == UNCHANGED <<storage, forms, transfer, shots, inbox, mediator, entered, offered>>

Formed(s, form) == forms' = IF s \in Stored THEN [forms EXCEPT ![s] = form] ELSE forms
================================================================================
