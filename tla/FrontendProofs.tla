----------------------------- MODULE FrontendProofs -----------------------------
(***************************************************************************)
(* Proofs about the frontend, for any number of clients, surfaces, images  *)
(* and messages: what belongs to whom, who is told of the focus and of the *)
(* selection, and that sizes and outputs are told right.                   *)
(***************************************************************************)
EXTENDS Frontend, NumberFacts, FiniteSetTheorems, TLAPS

Forms == [desired : Nat, requested : Nat, offset : BOOLEAN, position : BOOLEAN]

Window == [object : Nat, size : Nat]

Proxy ==
    [surfaces : SUBSET Sids, frames : SUBSET Sids, held : SUBSET Sids,
     shells : UNION {[S -> Window] : S \in SUBSET Sids}, pools : SUBSET Nat,
     buffers : UNION {[S -> Nat] : S \in SUBSET Nat},
     devices : SUBSET (Devices \union {"data"}), globals : Seq(Nat),
     outputs : UNION {[S -> Nat] : S \in SUBSET Nat}, source : Nat, memory : BOOLEAN,
     shooter : BOOLEAN]

(* Objects that name surfaces, and the others.                             *)
Object ==
    [kind : {"xdg", "popup", "subsurface"}, surface : Sids]
    \union [kind : {"shell"}, surface : Sids, type : {"none", "toplevel", "popup"}]
    \union [kind : {"gone", "output", "source", "toplevel"}]
    \union [kind : {"registry"}, listed : Seq(Nat)]
    \union [kind : {"params"}, planes : SUBSET Planes]
    \union [kind : {"positioner"}, placed : BOOLEAN]
    \union [kind : {"region"}, area : {"none", "corner", "inside"}]

Message ==
    [kind : Devices, old : Sids \union {Invalid}, new : Sids \union {Invalid}]
    \union [kind : {"frame", "reconfigured"}, sid : Sids]
    \union [kind : {"display"}, output : Nat]
    \union [kind : {"screenshot", "offered", "requested"}]
    \union [kind : {"terminate"}, client : Clients]

TypeOK ==
    /\ lastSurface \in 0..MaxSurfaces /\ Stored \subseteq Known
    /\ forms \in [Stored -> Forms]
    /\ makers \in Seq(Clients)
    /\ DOMAIN pools \subseteq DOMAIN makers /\ DOMAIN views \subseteq DOMAIN makers
    /\ focus \in [Devices -> Known \union {Invalid}]
    /\ transfer \in Nat /\ displays \in Nat
    /\ inbox \in Seq(Message)
    /\ outputs \in Seq(Nat) /\ Len(outputs) <= displays
    /\ lastClient \in 0..MaxClients
    /\ proxy \in [Connected -> Proxy] /\ Connected \subseteq 1..lastClient
    /\ objects \in [Connected -> Seq(Object)]
    /\ entered \in [Devices -> SUBSET Pairs]
    /\ offered \in [Clients -> Nat]
    /\ group \in Groups

(* Proxies and the mediator agree whose a surface is, from its creation to *)
(* the removal of its client, and so do windows and objects.               *)
SurfacesOwned ==
    /\ Stored \subseteq DOMAIN owner /\ DOMAIN owner \subseteq Known
    /\ \A s \in DOMAIN owner : owner[s] \in Connected /\ s \in proxy[owner[s]].surfaces
    /\ \A c \in Connected :
        /\ \A s \in proxy[c].surfaces : s \in DOMAIN owner /\ owner[s] = c
        /\ DOMAIN proxy[c].shells \subseteq proxy[c].surfaces
        /\ \A o \in DOMAIN objects[c] :
                objects[c][o].kind \in {"xdg", "shell"} => objects[c][o].surface \in proxy[c].surfaces

(* A pool that is stored is still counted by its client, although the code *)
(* destroys and makes pools behind the proxy; the views it does not know   *)
(* of are the ones of replaced memory.                                     *)
MemoryOwned ==
    /\ \A p \in DOMAIN pools : makers[p] \in Connected /\ p \in proxy[makers[p]].pools
    /\ \A c \in Connected : \A p \in proxy[c].pools : p \in DOMAIN makers /\ makers[p] = c
    /\ \A v \in DOMAIN views \ replaced :
        /\ views[v] \in DOMAIN pools /\ v \in pools[views[v]]
        /\ makers[v] = makers[views[v]]

-----------------------------------------------------------------------------
(* Messages about the focus of device d, as positions in the inbox.        *)
FirstOf(d, i) == inbox[i].kind = d /\ \A j \in 1..(i - 1) : inbox[j].kind # d

LastOf(d, i) == inbox[i].kind = d /\ \A j \in (i + 1)..Len(inbox) : inbox[j].kind # d

Follows(d, i, j) ==
    /\ i < j /\ inbox[i].kind = d /\ inbox[j].kind = d
    /\ \A k \in (i + 1)..(j - 1) : inbox[k].kind # d

(* Each message starts where the one before ends, the last one at the      *)
(* focus there is, and who has been entered is where the first one starts. *)
FocusChain(d) ==
    /\ \A i \in 1..Len(inbox) :
        inbox[i].kind = d =>
            /\ {inbox[i].old, inbox[i].new} \subseteq Known \union {Invalid}
            /\ LastOf(d, i) => inbox[i].new = focus[d]
            /\ FirstOf(d, i) => entered[d] \subseteq {<<ClientOf(inbox[i].old), inbox[i].old>>}
            /\ \A j \in 1..Len(inbox) : Follows(d, i, j) => inbox[j].old = inbox[i].new
    /\ ~Queued({d}) => entered[d] \subseteq {<<ClientOf(focus[d]), focus[d]>>}
    /\ \A x \in entered[d] : Tells(d, x[1], x[2])

(* The message by which the keyboard comes to client c, to stay.           *)
Comes(c, i) ==
    /\ inbox[i].kind = "keyboard"
    /\ ClientOf(inbox[i].old) # ClientOf(inbox[i].new)
    /\ \A j \in i..Len(inbox) : inbox[j].kind = "keyboard" => ClientOf(inbox[j].new) = c

(* Unless a selection is still to be offered, the client with the keyboard *)
(* has the one there is, or gets it when the keyboard comes to it.         *)
SelectionComes ==
    /\ LET c == ClientOf(focus["keyboard"])
       IN  c # None /\ ~Queued({"offered"}) =>
                offered[c] \in {None, transfer} \/ \E i \in 1..Len(inbox) : Comes(c, i)
    /\ \A c \in Clients :
        offered[c] # None => c \in Connected /\ "data" \in proxy[c].devices /\ transfer # None

IInv ==
    /\ TypeOK /\ SurfacesOwned /\ MemoryOwned /\ OutputsAgree /\ RegistriesListed /\ SizeCurrent
    /\ \A d \in Devices : FocusChain(d)
    /\ SelectionComes

-----------------------------------------------------------------------------
(* What requests of client c about surfaces may do: to its proxy, to its   *)
(* objects, and to the surfaces stored.                                    *)
OnlyProxy(c) ==
    /\ proxy' \in [Connected -> Proxy]
    /\ \A e \in Connected \ {c} : proxy'[e] = proxy[e]

OnlyWindows(c) ==
    /\ OnlyProxy(c)
    /\ proxy'[c].surfaces = proxy[c].surfaces /\ proxy'[c].pools = proxy[c].pools
    /\ proxy'[c].devices = proxy[c].devices /\ proxy'[c].globals = proxy[c].globals
    /\ \A s \in DOMAIN proxy'[c].shells :
        /\ s \in proxy[c].surfaces
        /\ \/ proxy'[c].shells[s].size = Unset
           \/ s \in DOMAIN proxy[c].shells /\ proxy'[c].shells[s] = proxy[c].shells[s]

(* An object names a surface of its client, or outputs there are.          *)
Names(object, S) ==
    /\ object.kind \in {"xdg", "shell"} => object.surface \in S
    /\ object.kind = "registry" => Listed(object.listed)

OnlyObjects(c) ==
    /\ objects' \in [Connected -> Seq(Object)]
    /\ \A e \in Connected \ {c} : objects'[e] = objects[e]
    /\ \A o \in DOMAIN objects'[c] : Names(objects'[c][o], proxy[c].surfaces)

SameSurfaces == lastSurface' = lastSurface /\ Stored' \subseteq Stored /\ owner' = owner

FormsKept ==
    /\ forms' \in [Stored' -> Forms]
    /\ \A s \in Stored' : forms'[s].desired \in {forms[s].desired, OfImage}

Elsewhere == UNCHANGED <<others, memory, transfer, inbox, offerer, shooter, entered, offered>>

SurfaceEffect(c) ==
    /\ c \in Connected /\ Elsewhere
    /\ OnlyWindows(c) /\ OnlyObjects(c) /\ SameSurfaces /\ FormsKept

Inv == TypeOK /\ SurfacesOwned /\ RegistriesListed

LEMMA ProxyOf == ASSUME TypeOK, NEW c \in Connected PROVE proxy[c] \in Proxy
BY DEF TypeOK, Connected

LEMMA ProxiedOnly ==
    ASSUME TypeOK, NEW c \in Connected, NEW p \in Proxy, Proxied(c, p)
    PROVE  OnlyProxy(c) /\ proxy'[c] = p
BY DEF TypeOK, Proxied, OnlyProxy, Connected

LEMMA WindowsUnchanged ==
    ASSUME Inv, NEW c \in Connected, UNCHANGED proxy
    PROVE  OnlyWindows(c)
BY DEF Inv, TypeOK, SurfacesOwned, OnlyWindows, OnlyProxy, Connected

LEMMA WindowsAdded ==
    ASSUME Inv, NEW c \in Connected, NEW s \in Sids, NEW field \in {"held", "frames"}, AddTo(c, field, s)
    PROVE  OnlyWindows(c)
<1>0. proxy[c] \in Proxy
  BY ProxyOf DEF Inv
<1>1. CASE field = "held"
  <2> DEFINE p == [proxy[c] EXCEPT !.held = @ \union {s}]
  <2>1. p \in Proxy /\ p = [proxy[c] EXCEPT !["held"] = proxy[c]["held"] \union {s}]
    BY <1>0 DEF Proxy
  <2>2. OnlyProxy(c) /\ proxy'[c] = p
    BY <1>1, <2>1, ProxiedOnly DEF AddTo, Inv
  <2> QED BY <1>0, <2>2 DEF OnlyWindows, Inv, SurfacesOwned, Proxy
<1>2. CASE field = "frames"
  <2> DEFINE p == [proxy[c] EXCEPT !.frames = @ \union {s}]
  <2>1. p \in Proxy /\ p = [proxy[c] EXCEPT !["frames"] = proxy[c]["frames"] \union {s}]
    BY <1>0 DEF Proxy
  <2>2. OnlyProxy(c) /\ proxy'[c] = p
    BY <1>2, <2>1, ProxiedOnly DEF AddTo, Inv
  <2> QED BY <1>0, <2>2 DEF OnlyWindows, Inv, SurfacesOwned, Proxy
<1> QED BY <1>1, <1>2

LEMMA WindowsShown ==
    ASSUME Inv, NEW c \in Connected, NEW s \in proxy[c].surfaces, NEW o \in Nat, ShownThrough(c, s, o)
    PROVE  OnlyWindows(c)
<1>0. proxy[c] \in Proxy
  BY ProxyOf DEF Inv
<1>1. CASE s \in DOMAIN proxy[c].shells
  BY <1>1, WindowsUnchanged DEF ShownThrough
<1>2. CASE s \notin DOMAIN proxy[c].shells
  <2> DEFINE shells == With(proxy[c].shells, s, [object |-> o, size |-> Unset])
             p == [proxy[c] EXCEPT !.shells = shells]
  <2>1. DOMAIN shells = DOMAIN proxy[c].shells \union {s}
    BY DEF With
  <2>2. s \in Sids /\ DOMAIN proxy[c].shells \in SUBSET Sids 
        /\ proxy[c].shells \in [DOMAIN proxy[c].shells -> Window]
    BY <1>0 DEF Proxy
  <2>3. shells \in [DOMAIN shells -> Window] /\ DOMAIN shells \in SUBSET Sids
    BY <2>1, <2>2 DEF With, Window, Unset
  <2>4. shells[s].size = Unset /\ \A t \in DOMAIN proxy[c].shells : shells[t] = proxy[c].shells[t]
    BY <1>2 DEF With
  <2> HIDE DEF shells
  <2>5. shells \in UNION {[S -> Window] : S \in SUBSET Sids}
    BY <2>3
  <2>5a. p \in Proxy
    BY <1>0, <2>5 DEF Proxy
  <2>6. OnlyProxy(c) /\ proxy'[c] = p
    BY <1>2, <2>5a, ProxiedOnly DEF ShownThrough, Inv, shells
  <2>7. DOMAIN proxy[c].shells \subseteq proxy[c].surfaces
    BY DEF Inv, SurfacesOwned
  <2>8. p.shells = shells /\ p.surfaces = proxy[c].surfaces /\ p.pools = proxy[c].pools
        /\ p.devices = proxy[c].devices /\ p.globals = proxy[c].globals
    BY <1>0 DEF Proxy
  <2> QED BY <2>1, <2>4, <2>6, <2>7, <2>8 DEF OnlyWindows
<1> QED BY <1>1, <1>2

LEMMA WindowsUnshelled ==
    ASSUME Inv, NEW c \in Connected, NEW s, Unshelled(c, s)
    PROVE  OnlyWindows(c)
<1>0. proxy[c] \in Proxy
  BY ProxyOf DEF Inv
<1> DEFINE shells == Without(proxy[c].shells, {s})
           p == [proxy[c] EXCEPT !.shells = shells]
<1>1. /\ DOMAIN shells = DOMAIN proxy[c].shells \ {s}
      /\ \A t \in DOMAIN shells : shells[t] = proxy[c].shells[t]
  BY DEF Without
<1>2. DOMAIN proxy[c].shells \in SUBSET Sids /\ proxy[c].shells \in [DOMAIN proxy[c].shells -> Window]
  BY <1>0 DEF Proxy
<1>3. shells \in [DOMAIN shells -> Window] /\ DOMAIN shells \in SUBSET Sids
  BY <1>1, <1>2 DEF Without
<1> HIDE DEF shells
<1>4. p \in Proxy
  BY <1>0, <1>3 DEF Proxy
<1>5. OnlyProxy(c) /\ proxy'[c] = p
  BY <1>4, ProxiedOnly DEF Unshelled, Inv, shells
<1>6. DOMAIN proxy[c].shells \subseteq proxy[c].surfaces
  BY DEF Inv, SurfacesOwned
<1>7. p.shells = shells /\ p.surfaces = proxy[c].surfaces /\ p.pools = proxy[c].pools
      /\ p.devices = proxy[c].devices /\ p.globals = proxy[c].globals
  BY <1>0 DEF Proxy
<1> QED BY <1>1, <1>5, <1>6, <1>7 DEF OnlyWindows

LEMMA ObjectsUnchanged ==
    ASSUME Inv, NEW c \in Connected, UNCHANGED objects
    PROVE  OnlyObjects(c)
BY DEF Inv, TypeOK, SurfacesOwned, RegistriesListed, OnlyObjects, Connected, Names

LEMMA ObjectsCreated ==
    ASSUME Inv, NEW c \in Connected, NEW object \in Object, Names(object, proxy[c].surfaces),
           Creates(c, object)
    PROVE  OnlyObjects(c)
<1>1. objects \in [Connected -> Seq(Object)] /\ objects' = [objects EXCEPT ![c] = Append(@, object)]
  BY DEF Inv, TypeOK, Creates
<1>2. \A o \in DOMAIN objects[c] : Names(objects[c][o], proxy[c].surfaces)
  BY DEF Inv, SurfacesOwned, RegistriesListed, Names
<1> QED BY <1>1, <1>2 DEF OnlyObjects

LEMMA ObjectsChanged ==
    ASSUME Inv, NEW c \in Connected, NEW object \in Object, Names(object, proxy[c].surfaces),
           NEW o \in DOMAIN objects[c], Becomes(c, o, object)
    PROVE  OnlyObjects(c)
<1>1. objects \in [Connected -> Seq(Object)] /\ objects' = [objects EXCEPT ![c][o] = object]
  BY DEF Inv, TypeOK, Becomes
<1>2. \A i \in DOMAIN objects[c] : Names(objects[c][i], proxy[c].surfaces)
  BY DEF Inv, SurfacesOwned, RegistriesListed, Names
<1> QED BY <1>1, <1>2 DEF OnlyObjects

LEMMA StorageSame ==
    ASSUME NEW s, NEW p, NEW r,
           \/ Attach(s) \/ ShowSurface(s, r) \/ HideSurface(s, r) \/ Commit(s)
           \/ RelateSurfaces(s, p) \/ UnrelateSurface(s) \/ UNCHANGED storage
           \/ UnrelatedAndShown(s) \/ HiddenAndRelated(s, p)
           \/ surfaces' = Unrelated(s) /\ UNCHANGED lastSurface
    PROVE  lastSurface' = lastSurface /\ Stored' = Stored
<1>1. CASE Attach(s)
  BY <1>1 DEF Attach, Update, Stored
<1>2. CASE ShowSurface(s, r) \/ Commit(s)
  BY <1>2 DEF ShowSurface, Commit, ShowAs, Update, Stored
<1>3. CASE HideSurface(s, r)
  BY <1>3 DEF HideSurface, Update, Stored
<1>4. CASE RelateSurfaces(s, p) \/ HiddenAndRelated(s, p)
  BY <1>4 DEF RelateSurfaces, HiddenAndRelated, Relation, Stored
<1>5. CASE UnrelateSurface(s) \/ (surfaces' = Unrelated(s) /\ UNCHANGED lastSurface)
  BY <1>5 DEF UnrelateSurface, Unrelated, Stored
<1>6. CASE UnrelatedAndShown(s)
  <2>1. DOMAIN surfaces' = DOMAIN Unrelated(s)
    BY <1>6 DEF UnrelatedAndShown
  <2> QED BY <1>6, <2>1 DEF UnrelatedAndShown, Unrelated, Stored
<1>7. CASE UNCHANGED storage
  BY <1>7 DEF storage, Stored
<1> QED BY <1>1, <1>2, <1>3, <1>4, <1>5, <1>6, <1>7

LEMMA SizesAreNumbers == Unset \in Nat /\ OfImage \in Nat /\ OfRegion \in Nat
                         /\ Sizes \subseteq Nat
BY ProxiesAssumption DEF Unset, OfImage, OfRegion, Sizes

LEMMA FormsUnchanged ==
    ASSUME Inv, UNCHANGED forms, Stored' = Stored
    PROVE  FormsKept
BY DEF Inv, TypeOK, FormsKept

LEMMA FormsFormed ==
    ASSUME Inv, Stored' = Stored, NEW s, NEW form, Formed(s, form),
           s \in Stored => form \in Forms /\ form.desired \in {forms[s].desired, OfImage}
    PROVE  FormsKept
BY DEF Inv, TypeOK, FormsKept, Formed

LEMMA IsSurfaceEffect ==
    ASSUME NEW c, NEW interface, Request(c, interface), OnlySurfaces, FormsKept,
           lastSurface' = lastSurface, Stored' \subseteq Stored, OnlyWindows(c), OnlyObjects(c)
    PROVE  SurfaceEffect(c)
BY DEF Request, OnlySurfaces, SurfaceEffect, Elsewhere, SameSurfaces, mediator, others

LEMMA RelatedKept ==
    ASSUME Inv, NEW s, NEW p, NEW placed \in BOOLEAN, RelatedAt(s, p, placed)
    PROVE  lastSurface' = lastSurface /\ Stored' = Stored /\ FormsKept
<1>1. CASE s \in Stored
  <2> DEFINE form == [forms[s] EXCEPT !.position = placed]
  <2>1. lastSurface' = lastSurface /\ Stored' = Stored
    BY <1>1, StorageSame DEF RelatedAt
  <2>2. form \in Forms /\ form.desired = forms[s].desired
    BY <1>1 DEF Forms, Inv, TypeOK
  <2> QED BY <1>1, <2>1, <2>2, FormsFormed DEF RelatedAt
<1>2. CASE s \notin Stored
  BY <1>2, StorageSame, FormsUnchanged DEF RelatedAt
<1> QED BY <1>1, <1>2

-----------------------------------------------------------------------------
(* Requests about surfaces that are stored.                                *)
LEMMA SurfaceRequests ==
    ASSUME Inv, NEW c, NEW s \in Sids, SurfaceRequest(c, s)
    PROVE  SurfaceEffect(c)
<1>1. c \in Connected /\ s \in Own(c)
  BY DEF SurfaceRequest, SurfaceDestroy, SurfaceAttachNull, SurfaceFrame, SurfaceCommit, SurfaceAttach,
         Request
<1>2. s \in proxy[c].surfaces /\ s \in Stored /\ forms[s] \in Forms
  BY <1>1 DEF Own, Inv, TypeOK
<1>3. CASE SurfaceDestroy(c, s)
  <2>1. OnlyWindows(c) /\ OnlyObjects(c)
    BY <1>1, <1>3, WindowsUnchanged, ObjectsUnchanged DEF SurfaceDestroy
  <2>2. lastSurface' = lastSurface /\ Stored' = Stored \ {s}
    BY <1>3 DEF SurfaceDestroy, DestroySurface, Stored
  <2>3. FormsKept
    BY <1>3, <2>2 DEF SurfaceDestroy, Without, FormsKept, Inv, TypeOK
  <2> QED BY <1>3, <2>1, <2>2, <2>3, IsSurfaceEffect DEF SurfaceDestroy
<1>4. CASE SurfaceAttachNull(c, s)
  <2>1. OnlyWindows(c) /\ OnlyObjects(c)
    BY <1>1, <1>4, WindowsUnchanged, ObjectsUnchanged DEF SurfaceAttachNull
  <2>2. lastSurface' = lastSurface /\ Stored' = Stored
    BY <1>4, StorageSame DEF SurfaceAttachNull
  <2>3. FormsKept
    BY <1>4, <2>2, FormsUnchanged DEF SurfaceAttachNull
  <2> QED BY <1>4, <2>1, <2>2, <2>3, IsSurfaceEffect DEF SurfaceAttachNull
<1>5. CASE SurfaceFrame(c, s)
  <2>1. OnlyWindows(c) /\ OnlyObjects(c)
    BY <1>1, <1>5, WindowsAdded, ObjectsUnchanged DEF SurfaceFrame
  <2>2. lastSurface' = lastSurface /\ Stored' = Stored
    BY <1>5, StorageSame DEF SurfaceFrame
  <2>3. FormsKept
    BY <1>5, <2>2, FormsUnchanged DEF SurfaceFrame
  <2> QED BY <1>5, <2>1, <2>2, <2>3, IsSurfaceEffect DEF SurfaceFrame
<1>6. CASE SurfaceCommit(c, s)
  <2>1. OnlyWindows(c) /\ OnlyObjects(c)
    BY <1>1, <1>6, WindowsUnchanged, ObjectsUnchanged DEF SurfaceCommit
  <2>2. lastSurface' = lastSurface /\ Stored' = Stored
    BY <1>6, StorageSame DEF SurfaceCommit
  <2>3. Committed(s) \in Forms /\ Committed(s).desired \in {forms[s].desired, OfImage}
    BY <1>2, SizesAreNumbers DEF Committed, Forms
  <2>4. FormsKept
    BY <1>6, <2>2, <2>3, FormsFormed DEF SurfaceCommit
  <2> QED BY <1>6, <2>1, <2>2, <2>4, IsSurfaceEffect DEF SurfaceCommit
<1>7. ASSUME NEW b \in Ids, SurfaceAttach(c, s, b)
      PROVE  SurfaceEffect(c)
  <2>1. OnlyWindows(c) /\ OnlyObjects(c)
    BY <1>1, <1>7, WindowsAdded, ObjectsUnchanged DEF SurfaceAttach
  <2>2. lastSurface' = lastSurface /\ Stored' = Stored
    BY <1>7, StorageSame DEF SurfaceAttach
  <2>3. FormsKept
    BY <1>7, <2>2, FormsUnchanged DEF SurfaceAttach
  <2> QED BY <1>7, <2>1, <2>2, <2>3, IsSurfaceEffect DEF SurfaceAttach
<1> QED BY <1>3, <1>4, <1>5, <1>6, <1>7 DEF SurfaceRequest

(* Requests that give a surface a role, through the surface.               *)
LEMMA RoleRequests ==
    ASSUME Inv, NEW c, NEW s \in Sids, RoleRequest(c, s)
    PROVE  SurfaceEffect(c)
<1>1. c \in Connected
  BY DEF RoleRequest, GetXdgSurface, GetShellSurface, GetSubsurface, SetRegion, SetCursor, Request
<1>2. Live(c, s)
  BY DEF RoleRequest, GetXdgSurface, GetShellSurface, GetSubsurface, SetRegion, SetCursor
<1>3. s \in proxy[c].surfaces /\ s \in Stored /\ forms[s] \in Forms
  BY <1>2 DEF Live, Inv, TypeOK
<1>4. CASE GetXdgSurface(c, s)
  <2> DEFINE object == [kind |-> "xdg", surface |-> s]
  <2>1. object \in Object /\ Names(object, proxy[c].surfaces)
    BY <1>3 DEF Object, Names
  <2>2. OnlyWindows(c) /\ OnlyObjects(c)
    BY <1>1, <1>4, <2>1, WindowsUnchanged, ObjectsCreated DEF GetXdgSurface
  <2>3. lastSurface' = lastSurface /\ Stored' = Stored
    BY <1>4, StorageSame DEF GetXdgSurface
  <2>4. FormsKept
    BY <1>4, <2>3, FormsUnchanged DEF GetXdgSurface
  <2> QED BY <1>4, <2>2, <2>3, <2>4, IsSurfaceEffect DEF GetXdgSurface
<1>5. CASE GetShellSurface(c, s)
  <2> DEFINE object == [kind |-> "shell", surface |-> s, type |-> "none"]
  <2>1. object \in Object /\ Names(object, proxy[c].surfaces)
    BY <1>3 DEF Object, Names
  <2>2. OnlyWindows(c) /\ OnlyObjects(c)
    BY <1>1, <1>5, <2>1, WindowsUnchanged, ObjectsCreated DEF GetShellSurface
  <2>3. lastSurface' = lastSurface /\ Stored' = Stored
    BY <1>5, StorageSame DEF GetShellSurface
  <2>4. FormsKept
    BY <1>5, <2>3, FormsUnchanged DEF GetShellSurface
  <2> QED BY <1>5, <2>2, <2>3, <2>4, IsSurfaceEffect DEF GetShellSurface
<1>6. ASSUME NEW p \in Sids, GetSubsurface(c, s, p)
      PROVE  SurfaceEffect(c)
  <2> DEFINE object == [kind |-> "subsurface", surface |-> s]
  <2>1. object \in Object /\ Names(object, proxy[c].surfaces)
    BY DEF Object, Names
  <2>2. OnlyWindows(c) /\ OnlyObjects(c)
    BY <1>1, <1>6, <2>1, WindowsUnchanged, ObjectsCreated DEF GetSubsurface
  <2>3. lastSurface' = lastSurface /\ Stored' = Stored /\ FormsKept
    BY <1>3, <1>6, RelatedKept DEF GetSubsurface
  <2> QED BY <1>6, <2>2, <2>3, IsSurfaceEffect DEF GetSubsurface
<1>7. ASSUME NEW o \in Oids, SetRegion(c, s, o)
      PROVE  SurfaceEffect(c)
  <2>1. OnlyWindows(c) /\ OnlyObjects(c)
    BY <1>1, <1>7, WindowsUnchanged, ObjectsUnchanged DEF SetRegion
  <2>2. lastSurface' = lastSurface /\ Stored' = Stored
    BY <1>7, StorageSame DEF SetRegion
  <2>3. CASE UNCHANGED forms
    BY <1>7, <2>1, <2>2, <2>3, FormsUnchanged, IsSurfaceEffect DEF SetRegion
  <2>4. CASE ~UNCHANGED forms
    <3> DEFINE inside == objects[c][o].area = "inside"
               form == [forms[s] EXCEPT !.requested = OfRegion, !.offset = inside]
    <3>1. inside \in BOOLEAN
      OBVIOUS
    <3>2. form \in Forms /\ form.desired = forms[s].desired
      <4> HIDE DEF inside
      <4> QED BY <1>3, <3>1, SizesAreNumbers DEF Forms
    <3>3. FormsKept
      BY <1>7, <2>2, <2>4, <3>2, FormsFormed DEF SetRegion
    <3> QED BY <1>7, <2>1, <2>2, <3>3, IsSurfaceEffect DEF SetRegion
  <2> QED BY <2>3, <2>4
<1>8. ASSUME NEW inside \in BOOLEAN, SetCursor(c, s, inside)
      PROVE  SurfaceEffect(c)
  <2> DEFINE form == [forms[s] EXCEPT !.offset = inside]
  <2>1. OnlyWindows(c) /\ OnlyObjects(c)
    BY <1>1, <1>8, WindowsUnchanged, ObjectsUnchanged DEF SetCursor
  <2>2. lastSurface' = lastSurface /\ Stored' = Stored
    BY <1>8, StorageSame DEF SetCursor
  <2>3. form \in Forms /\ form.desired = forms[s].desired
    BY <1>3 DEF Forms
  <2>4. FormsKept
    BY <1>8, <2>2, <2>3, FormsFormed DEF SetCursor
  <2> QED BY <1>8, <2>1, <2>2, <2>4, IsSurfaceEffect DEF SetCursor
<1> QED BY <1>4, <1>5, <1>6, <1>7, <1>8 DEF RoleRequest

(* What an object names, and that it is gone.                              *)
LEMMA MineOf ==
    ASSUME Inv, NEW c, NEW o, NEW kind \in {"xdg", "shell"}, Is(c, o, kind)
    PROVE  /\ c \in Connected /\ o \in DOMAIN objects[c] /\ objects[c][o] \in Object
           /\ Mine(c, o) \in proxy[c].surfaces /\ Mine(c, o) \in Sids
<1>1. c \in Connected /\ o \in DOMAIN objects[c] /\ objects[c][o].kind = kind
  BY DEF Is
<1>2. objects[c] \in Seq(Object) /\ proxy[c].surfaces \in SUBSET Sids
  BY <1>1, ProxyOf DEF Inv, TypeOK, Proxy
<1>3. objects[c][o] \in Object
  BY <1>1, <1>2
<1>4. Mine(c, o) \in proxy[c].surfaces
  BY <1>1 DEF Inv, SurfacesOwned, Mine
<1> QED BY <1>1, <1>2, <1>3, <1>4

LEMMA ObjectGone ==
    ASSUME Inv, NEW c, NEW o, NEW kind, Is(c, o, kind), Gone(c, o)
    PROVE  OnlyObjects(c)
<1>1. [kind |-> "gone"] \in Object /\ Names([kind |-> "gone"], proxy[c].surfaces)
  BY DEF Object, Names
<1> QED BY <1>1, ObjectsChanged DEF Is, Gone

LEMMA ObjectMade ==
    ASSUME Inv, NEW c \in Connected, NEW object \in Object, object.kind \notin {"xdg", "shell", "registry"},
           Creates(c, object)
    PROVE  OnlyObjects(c)
BY ObjectsCreated DEF Names

(* A request that only makes an object or makes it go.                     *)
LEMMA OnlyObjectsChange ==
    ASSUME Inv, NEW c \in Connected, NEW interface, Request(c, interface), OnlyObjects(c),
           UNCHANGED <<storage, forms, proxy>>, OnlySurfaces
    PROVE  SurfaceEffect(c)
<1>1. lastSurface' = lastSurface /\ Stored' = Stored
  BY DEF storage, Stored
<1> QED BY <1>1, WindowsUnchanged, FormsUnchanged, IsSurfaceEffect

(* Requests through objects of the xdg shell.                              *)
LEMMA XdgRequests ==
    ASSUME Inv, NEW c, NEW o \in Oids, XdgRequest(c, o)
    PROVE  SurfaceEffect(c)
<1>1. c \in Connected
  BY DEF XdgRequest, XdgSurfaceDestroy, GetToplevel, ToplevelDestroy, PopupDestroy, PositionerSet,
         PositionerDestroy, GetPopup, Request
<1>2. CASE XdgSurfaceDestroy(c, o)
  <2>1. OnlyWindows(c) /\ OnlyObjects(c)
    BY <1>1, <1>2, WindowsUnshelled, ObjectGone DEF XdgSurfaceDestroy
  <2>2. lastSurface' = lastSurface /\ Stored' = Stored
    BY <1>2, StorageSame DEF XdgSurfaceDestroy
  <2>3. FormsKept
    BY <1>2, <2>2, FormsUnchanged DEF XdgSurfaceDestroy
  <2> QED BY <1>2, <2>1, <2>2, <2>3, IsSurfaceEffect DEF XdgSurfaceDestroy
<1>3. CASE GetToplevel(c, o)
  <2>1. OnlyWindows(c)
    BY <1>1, <1>3, MineOf, WindowsShown DEF GetToplevel, Oids
  <2>2. OnlyObjects(c)
    BY <1>1, <1>3, ObjectMade DEF GetToplevel, Object
  <2>3. lastSurface' = lastSurface /\ Stored' = Stored
    BY <1>3, StorageSame DEF GetToplevel
  <2>4. FormsKept
    BY <1>3, <2>3, FormsUnchanged DEF GetToplevel
  <2> QED BY <1>3, <2>1, <2>2, <2>3, <2>4, IsSurfaceEffect DEF GetToplevel
<1>4. CASE ToplevelDestroy(c, o)
  BY <1>1, <1>4, ObjectGone, OnlyObjectsChange DEF ToplevelDestroy
<1>5. CASE PositionerDestroy(c, o)
  BY <1>1, <1>5, ObjectGone, OnlyObjectsChange DEF PositionerDestroy
<1>6. CASE PositionerSet(c, o)
  <2> DEFINE object == [objects[c][o] EXCEPT !.placed = TRUE]
  <2>1. o \in DOMAIN objects[c] /\ objects[c][o].kind = "positioner" /\ objects[c] \in Seq(Object)
    BY <1>1, <1>6 DEF PositionerSet, Is, Inv, TypeOK
  <2>2. objects[c][o] \in [kind : {"positioner"}, placed : BOOLEAN]
    BY <2>1 DEF Object
  <2>3. object \in Object /\ Names(object, proxy[c].surfaces)
    BY <2>2 DEF Object, Names
  <2>4. OnlyObjects(c)
    BY <1>1, <1>6, <2>1, <2>3, ObjectsChanged DEF PositionerSet
  <2> QED BY <1>1, <1>6, <2>4, OnlyObjectsChange DEF PositionerSet
<1>7. CASE PopupDestroy(c, o)
  <2>1. OnlyWindows(c) /\ OnlyObjects(c)
    BY <1>1, <1>7, WindowsUnchanged, ObjectGone DEF PopupDestroy
  <2>2. lastSurface' = lastSurface /\ Stored' = Stored
    BY <1>7, StorageSame DEF PopupDestroy, Unrelates
  <2>3. FormsKept
    BY <1>7, <2>2, FormsUnchanged DEF PopupDestroy
  <2> QED BY <1>7, <2>1, <2>2, <2>3, IsSurfaceEffect DEF PopupDestroy
<1>8. ASSUME NEW p \in Oids, NEW r \in Oids, GetPopup(c, o, p, r)
      PROVE  SurfaceEffect(c)
  <2> DEFINE object == [kind |-> "popup", surface |-> Mine(c, o)]
  <2>1. object \in Object
    BY <1>8, MineOf DEF GetPopup, Object
  <2>2. OnlyWindows(c) /\ OnlyObjects(c)
    BY <1>1, <1>8, <2>1, WindowsUnchanged, ObjectMade DEF GetPopup
  <2>3. CASE UNCHANGED <<storage, forms>>
    <3>1. lastSurface' = lastSurface /\ Stored' = Stored
      BY <2>3, StorageSame
    <3>2. FormsKept
      BY <2>3, <3>1, FormsUnchanged
    <3> QED BY <1>8, <2>2, <3>1, <3>2, IsSurfaceEffect DEF GetPopup
  <2>4. CASE ~UNCHANGED <<storage, forms>>
    <3> DEFINE placed == Is(c, r, "positioner") /\ objects[c][r].placed
    <3>1. PICK s : RelatedAt(Mine(c, o), s, placed)
      BY <1>8, <2>4 DEF GetPopup
    <3>2. placed \in BOOLEAN
      <4>1. CASE Is(c, r, "positioner")
        <5>1. r \in DOMAIN objects[c] /\ objects[c][r].kind = "positioner" /\ objects[c] \in Seq(Object)
          BY <1>1, <4>1 DEF Is, Inv, TypeOK
        <5>2. objects[c][r] \in [kind : {"positioner"}, placed : BOOLEAN]
          BY <5>1 DEF Object
        <5> QED BY <5>2
      <4>2. CASE ~Is(c, r, "positioner")
        BY <4>2
      <4> QED BY <4>1, <4>2
    <3> HIDE DEF placed
    <3>3. lastSurface' = lastSurface /\ Stored' = Stored /\ FormsKept
      BY <3>1, <3>2, RelatedKept
    <3> QED BY <1>8, <2>2, <3>3, IsSurfaceEffect DEF GetPopup
  <2> QED BY <2>3, <2>4
<1> QED BY <1>2, <1>3, <1>4, <1>5, <1>6, <1>7, <1>8 DEF XdgRequest

(* Requests through objects of wl_shell.                                   *)
LEMMA ShellObject ==
    ASSUME Inv, NEW c, NEW o, Is(c, o, "shell"), NEW type \in {"toplevel", "popup"},
           Becomes(c, o, [objects[c][o] EXCEPT !.type = type])
    PROVE  OnlyObjects(c)
<1> DEFINE object == [objects[c][o] EXCEPT !.type = type]
<1>1. c \in Connected /\ o \in DOMAIN objects[c] /\ objects[c][o] \in Object
      /\ Mine(c, o) \in proxy[c].surfaces
  BY MineOf
<1>2. objects[c][o] \in [kind : {"shell"}, surface : Sids, type : {"none", "toplevel", "popup"}]
  BY <1>1 DEF Object, Is
<1>3. object \in Object /\ object.surface = Mine(c, o) /\ object.kind = "shell"
  BY <1>2 DEF Object, Mine
<1>4. Names(object, proxy[c].surfaces)
  BY <1>1, <1>3 DEF Names
<1> QED BY <1>1, <1>3, <1>4, ObjectsChanged

LEMMA ShellRequests ==
    ASSUME Inv, NEW c, NEW o \in Oids, ShellRequest(c, o)
    PROVE  SurfaceEffect(c)
<1>1. c \in Connected
  BY DEF ShellRequest, SetToplevel, SetPopup, Request
<1>2. CASE SetToplevel(c, o)
  <2>1. OnlyWindows(c)
    BY <1>1, <1>2, MineOf, WindowsShown DEF SetToplevel, Oids
  <2>2. OnlyObjects(c)
    BY <1>2, ShellObject DEF SetToplevel
  <2>3. lastSurface' = lastSurface /\ Stored' = Stored
    BY <1>2, StorageSame DEF SetToplevel
  <2>4. FormsKept
    BY <1>2, <2>3, FormsUnchanged DEF SetToplevel
  <2> QED BY <1>2, <2>1, <2>2, <2>3, <2>4, IsSurfaceEffect DEF SetToplevel
<1>3. ASSUME NEW p \in Sids, NEW placed \in BOOLEAN, SetPopup(c, o, p, placed)
      PROVE  SurfaceEffect(c)
  <2> DEFINE s == Mine(c, o)
             form == [forms[s] EXCEPT !.position = placed]
  <2>1. OnlyWindows(c)
    BY <1>1, <1>3, WindowsUnshelled, WindowsUnchanged DEF SetPopup
  <2>2. OnlyObjects(c)
    BY <1>3, ShellObject DEF SetPopup
  <2>3. CASE s \in Stored
    <3>1. lastSurface' = lastSurface /\ Stored' = Stored
      BY <1>3, <2>3, StorageSame DEF SetPopup
    <3>2. form \in Forms /\ form.desired = forms[s].desired
      BY <2>3 DEF Forms, Inv, TypeOK
    <3>3. FormsKept
      BY <1>3, <2>3, <3>1, <3>2, FormsFormed DEF SetPopup
    <3> QED BY <1>3, <2>1, <2>2, <3>1, <3>3, IsSurfaceEffect DEF SetPopup
  <2>4. CASE s \notin Stored
    <3>1. lastSurface' = lastSurface /\ Stored' = Stored /\ UNCHANGED forms
      BY <1>3, <2>4, StorageSame DEF SetPopup
    <3> QED BY <1>3, <2>1, <2>2, <3>1, FormsUnchanged, IsSurfaceEffect DEF SetPopup
  <2> QED BY <2>3, <2>4
<1> QED BY <1>2, <1>3 DEF ShellRequest

(* Requests through subsurfaces and regions.                               *)
LEMMA PartRequests ==
    ASSUME Inv, NEW c, NEW o \in Oids, PartRequest(c, o)
    PROVE  SurfaceEffect(c)
<1>1. c \in Connected
  BY DEF PartRequest, SubsurfaceDestroy, RegionDestroy, SubsurfaceSetPosition, RegionAdd, Request
<1>2. CASE SubsurfaceDestroy(c, o)
  <2>1. OnlyWindows(c) /\ OnlyObjects(c)
    BY <1>1, <1>2, WindowsUnchanged, ObjectGone DEF SubsurfaceDestroy
  <2>2. lastSurface' = lastSurface /\ Stored' = Stored
    BY <1>2, StorageSame DEF SubsurfaceDestroy, Unrelates
  <2>3. FormsKept
    BY <1>2, <2>2, FormsUnchanged DEF SubsurfaceDestroy
  <2> QED BY <1>2, <2>1, <2>2, <2>3, IsSurfaceEffect DEF SubsurfaceDestroy
<1>3. CASE RegionDestroy(c, o)
  BY <1>1, <1>3, ObjectGone, OnlyObjectsChange DEF RegionDestroy
<1>4. ASSUME NEW where \in BOOLEAN, SubsurfaceSetPosition(c, o, where)
      PROVE  SurfaceEffect(c)
  <2> DEFINE s == Mine(c, o)
             form == [forms[s] EXCEPT !.position = where]
  <2>1. OnlyWindows(c) /\ OnlyObjects(c)
    BY <1>1, <1>4, WindowsUnchanged, ObjectsUnchanged DEF SubsurfaceSetPosition
  <2>2. lastSurface' = lastSurface /\ Stored' = Stored
    BY <1>4, StorageSame DEF SubsurfaceSetPosition
  <2>3. form \in Forms /\ form.desired = forms[s].desired
    BY <1>4 DEF Forms, Inv, TypeOK, SubsurfaceSetPosition
  <2>4. FormsKept
    BY <1>4, <2>2, <2>3, FormsFormed DEF SubsurfaceSetPosition
  <2> QED BY <1>4, <2>1, <2>2, <2>4, IsSurfaceEffect DEF SubsurfaceSetPosition
<1>5. ASSUME NEW corner \in BOOLEAN, RegionAdd(c, o, corner)
      PROVE  SurfaceEffect(c)
  <2> DEFINE area == IF objects[c][o].area = "corner" \/ corner THEN "corner" ELSE "inside"
             object == [objects[c][o] EXCEPT !.area = area]
  <2>1. o \in DOMAIN objects[c] /\ objects[c][o].kind = "region" /\ objects[c] \in Seq(Object)
    BY <1>1, <1>5 DEF RegionAdd, Is, Inv, TypeOK
  <2>2. objects[c][o] \in [kind : {"region"}, area : {"none", "corner", "inside"}]
    BY <2>1 DEF Object
  <2>3. area \in {"corner", "inside"}
    OBVIOUS
  <2>4. Becomes(c, o, object)
    BY <1>5 DEF RegionAdd
  <2> HIDE DEF area
  <2>5. object \in Object /\ Names(object, proxy[c].surfaces)
    BY <2>2, <2>3 DEF Object, Names
  <2>6. OnlyObjects(c)
    BY <1>1, <2>1, <2>4, <2>5, ObjectsChanged
  <2> QED BY <1>1, <1>5, <2>6, OnlyObjectsChange DEF RegionAdd
<1> QED BY <1>2, <1>3, <1>4, <1>5 DEF PartRequest

LEMMA PlainRequests ==
    ASSUME Inv, NEW c, CreatePositioner(c) \/ CreateRegion(c)
    PROVE  SurfaceEffect(c)
<1>1. c \in Connected
  BY DEF CreatePositioner, CreateRegion, Request
<1>2. [kind |-> "positioner", placed |-> FALSE] \in Object
      /\ [kind |-> "region", area |-> "none"] \in Object
  BY DEF Object
<1>3. OnlyObjects(c)
  BY <1>1, <1>2, ObjectMade DEF CreatePositioner, CreateRegion
<1> QED BY <1>1, <1>3, OnlyObjectsChange DEF CreatePositioner, CreateRegion

-----------------------------------------------------------------------------
(* What requests of client c about memory and outputs may do.              *)
SameWindows(c) ==
    /\ OnlyProxy(c)
    /\ proxy'[c].surfaces = proxy[c].surfaces /\ proxy'[c].shells = proxy[c].shells
    /\ proxy'[c].devices = proxy[c].devices /\ proxy'[c].globals = proxy[c].globals

MakersOK ==
    makers \in Seq(Clients) /\ DOMAIN pools \subseteq DOMAIN makers /\ DOMAIN views \subseteq DOMAIN makers

MemoryEffect(c) ==
    /\ c \in Connected
    /\ UNCHANGED <<others, storage, forms, transfer, inbox, owner, offerer, entered, offered>>
    /\ SameWindows(c) /\ OnlyObjects(c) /\ MakersOK' /\ MemoryOwned'

InvM == Inv /\ MemoryOwned /\ OutputsAgree

LEMMA IsMemoryEffect ==
    ASSUME NEW c, NEW interface, Request(c, interface), OnlyMemory, SameWindows(c), OnlyObjects(c),
           MakersOK', MemoryOwned'
    PROVE  MemoryEffect(c)
BY DEF Request, OnlyMemory, MemoryEffect, mediator, others

LEMMA ProxySame ==
    ASSUME Inv, NEW c \in Connected, UNCHANGED proxy
    PROVE  SameWindows(c)
BY DEF Inv, TypeOK, SameWindows, OnlyProxy, Connected

(* A change of the fields of a proxy that are about memory.                *)
LEMMA ProxyChanged ==
    ASSUME Inv, NEW c \in Connected, NEW p \in Proxy, Proxied(c, p),
           p.surfaces = proxy[c].surfaces, p.shells = proxy[c].shells,
           p.devices = proxy[c].devices, p.globals = proxy[c].globals
    PROVE  SameWindows(c) /\ proxy'[c] = p
BY ProxiedOnly DEF Inv, SameWindows

LEMMA PoolAdded ==
    ASSUME Inv, NEW c \in Connected, NEW x \in Nat, AddTo(c, "pools", x)
    PROVE  SameWindows(c) /\ proxy'[c].pools = proxy[c].pools \union {x}
<1> DEFINE p == [proxy[c] EXCEPT !.pools = @ \union {x}]
<1>1. p \in Proxy /\ p = [proxy[c] EXCEPT !["pools"] = proxy[c]["pools"] \union {x}]
  BY ProxyOf DEF Inv, Proxy
<1>2. p.surfaces = proxy[c].surfaces /\ p.shells = proxy[c].shells /\ p.devices = proxy[c].devices
      /\ p.globals = proxy[c].globals /\ p.pools = proxy[c].pools \union {x}
  BY ProxyOf DEF Inv, Proxy
<1> QED BY <1>1, <1>2, ProxyChanged DEF AddTo

LEMMA PoolDropped ==
    ASSUME Inv, NEW c \in Connected, NEW x, DropFrom(c, "pools", x)
    PROVE  SameWindows(c) /\ proxy'[c].pools = proxy[c].pools \ {x}
<1> DEFINE p == [proxy[c] EXCEPT !.pools = @ \ {x}]
<1>1. p \in Proxy /\ p = [proxy[c] EXCEPT !["pools"] = proxy[c]["pools"] \ {x}]
  BY ProxyOf DEF Inv, Proxy
<1>2. p.surfaces = proxy[c].surfaces /\ p.shells = proxy[c].shells /\ p.devices = proxy[c].devices
      /\ p.globals = proxy[c].globals /\ p.pools = proxy[c].pools \ {x}
  BY ProxyOf DEF Inv, Proxy
<1> QED BY <1>1, <1>2, ProxyChanged DEF DropFrom

LEMMA BufferAdded ==
    ASSUME Inv, NEW c \in Connected, NEW b \in Nat, NEW pool \in Nat, RelateBuffer(c, b, pool)
    PROVE  SameWindows(c) /\ proxy'[c].pools = proxy[c].pools
<1> DEFINE known == With(proxy[c].buffers, b, pool)
           p == [proxy[c] EXCEPT !.buffers = known]
<1>0. proxy[c] \in Proxy
  BY ProxyOf DEF Inv
<1>1. DOMAIN proxy[c].buffers \in SUBSET Nat /\ proxy[c].buffers \in [DOMAIN proxy[c].buffers -> Nat]
  BY <1>0 DEF Proxy
<1>2. DOMAIN known \in SUBSET Nat /\ known \in [DOMAIN known -> Nat]
  BY <1>1 DEF With
<1> HIDE DEF known
<1>3. known \in UNION {[S -> Nat] : S \in SUBSET Nat}
  BY <1>2
<1>4. p \in Proxy
  BY <1>0, <1>3 DEF Proxy
<1>5. p.surfaces = proxy[c].surfaces /\ p.shells = proxy[c].shells /\ p.devices = proxy[c].devices
      /\ p.globals = proxy[c].globals /\ p.pools = proxy[c].pools
  BY <1>0 DEF Proxy
<1>6. Proxied(c, p)
  BY DEF RelateBuffer, known
<1> QED BY <1>4, <1>5, <1>6, ProxyChanged

LEMMA OutputRelated ==
    ASSUME Inv, NEW c \in Connected, NEW o \in Nat, NEW output \in Nat, RelateOutput(c, o, output)
    PROVE  SameWindows(c) /\ proxy'[c].pools = proxy[c].pools
<1> DEFINE known == With(proxy[c].outputs, o, output)
           p == [proxy[c] EXCEPT !.outputs = known]
<1>0. proxy[c] \in Proxy
  BY ProxyOf DEF Inv
<1>1. DOMAIN proxy[c].outputs \in SUBSET Nat /\ proxy[c].outputs \in [DOMAIN proxy[c].outputs -> Nat]
  BY <1>0 DEF Proxy
<1>2. DOMAIN known \in SUBSET Nat /\ known \in [DOMAIN known -> Nat]
  BY <1>1 DEF With
<1> HIDE DEF known
<1>3. known \in UNION {[S -> Nat] : S \in SUBSET Nat}
  BY <1>2
<1>4. p \in Proxy
  BY <1>0, <1>3 DEF Proxy
<1>5. p.surfaces = proxy[c].surfaces /\ p.shells = proxy[c].shells /\ p.devices = proxy[c].devices
      /\ p.globals = proxy[c].globals /\ p.pools = proxy[c].pools
  BY <1>0 DEF Proxy
<1>6. Proxied(c, p)
  BY DEF RelateOutput, known
<1> QED BY <1>4, <1>5, <1>6, ProxyChanged

LEMMA IsClient ==
    ASSUME TypeOK, NEW c \in Connected
    PROVE  c \in Clients
<1>1. c \in 1..lastClient /\ lastClient \in 0..MaxClients
  BY DEF TypeOK
<1> QED BY <1>1, ProxiesAssumption DEF Clients

(* A new ID belongs to nobody yet.                                         *)
LEMMA MakersGrow ==
    ASSUME TypeOK, NEW c \in Connected, Create(c)
    PROVE  /\ makers' \in Seq(Clients) /\ NextId \in Nat /\ NextId \notin DOMAIN makers
           /\ DOMAIN makers' = DOMAIN makers \union {NextId}
           /\ makers'[NextId] = c /\ \A x \in DOMAIN makers : makers'[x] = makers[x]
<1>1. makers \in Seq(Clients) /\ makers' = Append(makers, c) /\ c \in Clients
  BY IsClient DEF TypeOK, Create
<1> QED BY <1>1 DEF NextId

(* Nothing is stored or forgotten but pool p, with its views.              *)
LEMMA PoolForgotten ==
    ASSUME InvM, NEW c \in Connected, NEW p, WithoutPool(p), UNCHANGED <<makers, replaced>>,
           SameWindows(c), proxy'[c].pools \in {proxy[c].pools, proxy[c].pools \ {p}}
    PROVE  MakersOK' /\ MemoryOwned'
<1>1. CASE p \in DOMAIN pools
  <2>1. DOMAIN pools' = DOMAIN pools \ {p} /\ \A q \in DOMAIN pools' : pools'[q] = pools[q]
    BY <1>1 DEF WithoutPool, Without
  <2>2. DOMAIN views' = DOMAIN views \ pools[p] /\ \A v \in DOMAIN views' : views'[v] = views[v]
    BY <1>1 DEF WithoutPool, Without
  <2>3. MakersOK'
    BY <2>1, <2>2 DEF InvM, Inv, TypeOK, MakersOK
  <2>4. \A v \in DOMAIN views' \ replaced' :
            /\ views'[v] \in DOMAIN pools' /\ v \in pools'[views'[v]] /\ makers'[v] = makers'[views'[v]]
    BY <2>1, <2>2 DEF InvM, MemoryOwned
  <2>5. \A q \in DOMAIN pools' : makers'[q] \in Connected' /\ q \in proxy'[makers'[q]].pools
    BY <2>1 DEF InvM, MemoryOwned, SameWindows, OnlyProxy, Connected
  <2>6. \A e \in Connected' : \A q \in proxy'[e].pools : q \in DOMAIN makers' /\ makers'[q] = e
    BY DEF InvM, MemoryOwned, SameWindows, OnlyProxy, Connected
  <2> QED BY <2>3, <2>4, <2>5, <2>6 DEF MemoryOwned
<1>2. CASE p \notin DOMAIN pools
  <2>1. UNCHANGED <<pools, views>>
    BY <1>2 DEF WithoutPool
  <2>2. MakersOK'
    BY <2>1 DEF InvM, Inv, TypeOK, MakersOK
  <2>3. \A q \in DOMAIN pools' : makers'[q] \in Connected' /\ q \in proxy'[makers'[q]].pools
    BY <1>2, <2>1 DEF InvM, MemoryOwned, SameWindows, OnlyProxy, Connected
  <2>4. \A e \in Connected' : \A q \in proxy'[e].pools : q \in DOMAIN makers' /\ makers'[q] = e
    BY DEF InvM, MemoryOwned, SameWindows, OnlyProxy, Connected
  <2> QED BY <2>1, <2>2, <2>3, <2>4 DEF InvM, MemoryOwned
<1> QED BY <1>1, <1>2

(* What is stored is as before, and an ID may have been taken.             *)
LEMMA MemorySame ==
    ASSUME InvM, NEW c \in Connected, UNCHANGED <<pools, views, replaced>>,
           Create(c) \/ UNCHANGED makers, SameWindows(c), proxy'[c].pools = proxy[c].pools
    PROVE  MakersOK' /\ MemoryOwned'
<1>1. /\ makers' \in Seq(Clients) /\ DOMAIN makers \subseteq DOMAIN makers'
      /\ \A x \in DOMAIN makers : makers'[x] = makers[x]
  BY MakersGrow DEF InvM, Inv, TypeOK
<1>2. MakersOK'
  BY <1>1 DEF InvM, Inv, TypeOK, MakersOK
<1>a. \A e \in Connected : e \in Connected' /\ proxy'[e].pools = proxy[e].pools
  BY DEF SameWindows, OnlyProxy, Connected
<1>b. DOMAIN pools \subseteq DOMAIN makers
  BY DEF InvM, Inv, TypeOK
<1>3. \A q \in DOMAIN pools' : makers'[q] \in Connected' /\ q \in proxy'[makers'[q]].pools
  BY <1>1, <1>a, <1>b DEF InvM, MemoryOwned
<1>4. \A e \in Connected' : \A q \in proxy'[e].pools : q \in DOMAIN makers' /\ makers'[q] = e
  BY <1>1 DEF InvM, MemoryOwned, SameWindows, OnlyProxy, Connected
<1>5. \A v \in DOMAIN views' \ replaced' :
          /\ views'[v] \in DOMAIN pools' /\ v \in pools'[views'[v]] /\ makers'[v] = makers'[views'[v]]
  BY <1>1 DEF InvM, Inv, TypeOK, MemoryOwned
<1> QED BY <1>2, <1>3, <1>4, <1>5 DEF MemoryOwned

(* Requests about memory.                                                  *)
LEMMA PoolCreated ==
    ASSUME InvM, NEW c, ShmCreatePool(c)
    PROVE  MemoryEffect(c)
<1>1. c \in Connected /\ Create(c) /\ pools' = With(pools, NextId, {}) /\ UNCHANGED <<views, replaced>>
      /\ AddTo(c, "pools", NextId)
  BY DEF ShmCreatePool, Request
<1>2. /\ makers' \in Seq(Clients) /\ NextId \in Nat /\ NextId \notin DOMAIN makers
      /\ DOMAIN makers' = DOMAIN makers \union {NextId}
      /\ makers'[NextId] = c /\ \A x \in DOMAIN makers : makers'[x] = makers[x]
  BY <1>1, MakersGrow DEF InvM, Inv
<1>3. SameWindows(c) /\ proxy'[c].pools = proxy[c].pools \union {NextId}
  BY <1>1, <1>2, PoolAdded DEF InvM
<1>4. DOMAIN pools \subseteq DOMAIN makers /\ DOMAIN views \subseteq DOMAIN makers
  BY DEF InvM, Inv, TypeOK
<1>5. DOMAIN pools' = DOMAIN pools \union {NextId} /\ \A q \in DOMAIN pools : pools'[q] = pools[q]
  BY <1>1, <1>2, <1>4 DEF With
<1>6. \A e \in Connected : e \in Connected' /\ proxy[e].pools \subseteq proxy'[e].pools
  BY <1>3 DEF SameWindows, OnlyProxy, Connected
<1>7. MakersOK'
  BY <1>1, <1>2, <1>4, <1>5 DEF MakersOK
<1>8. \A q \in DOMAIN pools' : makers'[q] \in Connected' /\ q \in proxy'[makers'[q]].pools
  BY <1>1, <1>2, <1>3, <1>4, <1>5, <1>6 DEF InvM, MemoryOwned
<1>9. \A e \in Connected' : \A q \in proxy'[e].pools : q \in DOMAIN makers' /\ makers'[q] = e
  BY <1>2, <1>3 DEF InvM, MemoryOwned, SameWindows, OnlyProxy, Connected
<1>10. \A v \in DOMAIN views' \ replaced' :
          /\ views'[v] \in DOMAIN pools' /\ v \in pools'[views'[v]] /\ makers'[v] = makers'[views'[v]]
  BY <1>1, <1>2, <1>4, <1>5 DEF InvM, MemoryOwned
<1>11. MemoryOwned'
  BY <1>8, <1>9, <1>10 DEF MemoryOwned
<1>12. OnlyObjects(c)
  BY <1>1, ObjectsUnchanged DEF ShmCreatePool, InvM
<1> QED BY <1>3, <1>7, <1>11, <1>12, IsMemoryEffect DEF ShmCreatePool

LEMMA BufferCreated ==
    ASSUME InvM, NEW c, NEW p, ShmCreateBuffer(c, p)
    PROVE  MemoryEffect(c)
<1>1. c \in Connected /\ Create(c) /\ UNCHANGED replaced /\ p \in proxy[c].pools
  BY DEF ShmCreateBuffer, Request
<1>2. OnlyObjects(c)
  BY <1>1, ObjectsUnchanged DEF ShmCreateBuffer, InvM
<1>3. CASE p \notin DOMAIN pools
  <2>1. SameWindows(c)
    BY <1>1, <1>3, ProxySame DEF ShmCreateBuffer, InvM
  <2>2. MakersOK' /\ MemoryOwned'
    BY <1>1, <1>3, <2>1, MemorySame DEF ShmCreateBuffer
  <2> QED BY <1>2, <2>1, <2>2, IsMemoryEffect DEF ShmCreateBuffer
<1>4. CASE p \in DOMAIN pools
  <2>1. /\ pools' = [pools EXCEPT ![p] = @ \union {NextId}]
        /\ views' = With(views, NextId, p)
        /\ RelateBuffer(c, NextId, p)
    BY <1>4 DEF ShmCreateBuffer
  <2>2. /\ makers' \in Seq(Clients) /\ NextId \in Nat /\ NextId \notin DOMAIN makers
        /\ DOMAIN makers' = DOMAIN makers \union {NextId}
        /\ makers'[NextId] = c /\ \A x \in DOMAIN makers : makers'[x] = makers[x]
    BY <1>1, MakersGrow DEF InvM, Inv
  <2>3. SameWindows(c) /\ proxy'[c].pools = proxy[c].pools
    <3>1. p \in Nat
      BY <1>1, ProxyOf DEF InvM, Inv, Proxy
    <3> QED BY <1>1, <2>1, <2>2, <3>1, BufferAdded DEF InvM
  <2>4. DOMAIN pools \subseteq DOMAIN makers /\ DOMAIN views \subseteq DOMAIN makers
    BY DEF InvM, Inv, TypeOK
  <2>5. /\ DOMAIN pools' = DOMAIN pools /\ NextId \in pools'[p]
        /\ \A q \in DOMAIN pools : pools[q] \subseteq pools'[q]
    BY <1>4, <2>1
  <2>6. /\ DOMAIN views' = DOMAIN views \union {NextId} /\ views'[NextId] = p
        /\ \A v \in DOMAIN views : views'[v] = views[v]
    BY <2>1, <2>2, <2>4 DEF With
  <2>7. \A e \in Connected : e \in Connected' /\ proxy[e].pools = proxy'[e].pools
    BY <2>3 DEF SameWindows, OnlyProxy, Connected
  <2>8. MakersOK'
    BY <2>2, <2>4, <2>5, <2>6 DEF MakersOK
  <2>9. makers[p] = c
    BY <1>1 DEF InvM, MemoryOwned
  <2>10. \A q \in DOMAIN pools' : makers'[q] \in Connected' /\ q \in proxy'[makers'[q]].pools
    BY <2>2, <2>4, <2>5, <2>7 DEF InvM, MemoryOwned
  <2>11. \A e \in Connected' : \A q \in proxy'[e].pools : q \in DOMAIN makers' /\ makers'[q] = e
    BY <2>2, <2>3 DEF InvM, MemoryOwned, SameWindows, OnlyProxy, Connected
  <2>12. \A v \in DOMAIN views' \ replaced' :
            /\ views'[v] \in DOMAIN pools' /\ v \in pools'[views'[v]] /\ makers'[v] = makers'[views'[v]]
    <3>1. ASSUME NEW v \in DOMAIN views \ replaced
          PROVE  /\ views'[v] \in DOMAIN pools' /\ v \in pools'[views'[v]]
                 /\ makers'[v] = makers'[views'[v]]
      <4>1. views[v] \in DOMAIN pools /\ v \in pools[views[v]] /\ makers[v] = makers[views[v]]
        BY DEF InvM, MemoryOwned
      <4> QED BY <2>2, <2>4, <2>5, <2>6, <4>1
    <3>2. views'[NextId] \in DOMAIN pools' /\ NextId \in pools'[views'[NextId]]
          /\ makers'[NextId] = makers'[views'[NextId]]
      BY <1>4, <2>2, <2>4, <2>5, <2>6, <2>9
    <3> QED BY <1>1, <2>6, <3>1, <3>2
  <2>13. MemoryOwned'
    BY <2>10, <2>11, <2>12 DEF MemoryOwned
  <2> QED BY <1>2, <2>3, <2>8, <2>13, IsMemoryEffect DEF ShmCreateBuffer
<1> QED BY <1>3, <1>4

LEMMA BufferDestroyed ==
    ASSUME InvM, NEW c, NEW v, ShmBufferDestroy(c, v)
    PROVE  MemoryEffect(c)
<1>1. /\ c \in Connected /\ UNCHANGED <<replaced, makers, proxy>>
      /\ views' = Without(views, {v}) /\ pools' = [p \in DOMAIN pools |-> pools[p] \ {v}]
  BY DEF ShmBufferDestroy, Request
<1>2. OnlyObjects(c) /\ SameWindows(c)
  BY <1>1, ObjectsUnchanged, ProxySame DEF ShmBufferDestroy, InvM
<1>3. MakersOK' /\ MemoryOwned'
  <2>1. DOMAIN pools' = DOMAIN pools /\ DOMAIN views' = DOMAIN views \ {v}
        /\ \A w \in DOMAIN views' : views'[w] = views[w]
    BY <1>1 DEF Without
  <2>2. MakersOK'
    BY <1>1, <2>1 DEF MakersOK, InvM, Inv, TypeOK
  <2>3. MemoryOwned /\ Connected' = Connected
    BY <1>1 DEF InvM, Connected
  <2>4. \A w \in DOMAIN views' \ replaced' :
            /\ views'[w] \in DOMAIN pools' /\ w \in pools'[views'[w]]
            /\ makers'[w] = makers'[views'[w]]
    <3> SUFFICES ASSUME NEW w \in DOMAIN views \ replaced, w # v
                 PROVE  /\ views[w] \in DOMAIN pools /\ w \in pools'[views[w]]
                        /\ makers[w] = makers[views[w]]
      BY <1>1, <2>1
    <3>1. views[w] \in DOMAIN pools /\ w \in pools[views[w]] /\ makers[w] = makers[views[w]]
      BY <2>3 DEF MemoryOwned
    <3> QED BY <1>1, <3>1
  <2>5. MemoryOwned'
    BY <1>1, <2>1, <2>3, <2>4 DEF MemoryOwned
  <2> QED BY <2>2, <2>5
<1> QED BY <1>2, <1>3, IsMemoryEffect DEF ShmBufferDestroy

LEMMA PoolDestroyed ==
    ASSUME InvM, NEW c, NEW p, ShmPoolDestroy(c, p)
    PROVE  MemoryEffect(c)
<1>1. c \in Connected /\ UNCHANGED <<makers, replaced>> /\ WithoutPool(p) /\ DropFrom(c, "pools", p)
  BY DEF ShmPoolDestroy, Request
<1>2. OnlyObjects(c)
  BY <1>1, ObjectsUnchanged DEF ShmPoolDestroy, InvM
<1>3. SameWindows(c) /\ proxy'[c].pools = proxy[c].pools \ {p}
  BY <1>1, PoolDropped DEF InvM
<1>4. MakersOK' /\ MemoryOwned'
  BY <1>1, <1>3, PoolForgotten
<1> QED BY <1>2, <1>3, <1>4, IsMemoryEffect DEF ShmPoolDestroy

LEMMA PoolResized ==
    ASSUME InvM, NEW c, NEW p, ShmPoolResize(c, p)
    PROVE  MemoryEffect(c)
<1>1. /\ c \in Connected /\ p \in proxy[c].pools /\ UNCHANGED <<views, makers, proxy>>
      /\ pools' = [q \in DOMAIN pools \union {p} |-> IF q = p THEN {} ELSE pools[q]]
      /\ replaced' = replaced \union (IF p \in DOMAIN pools THEN pools[p] ELSE {})
  BY DEF ShmPoolResize, ReplaceMemoryPool, Request
<1>2. OnlyObjects(c) /\ SameWindows(c)
  BY <1>1, ObjectsUnchanged, ProxySame DEF ShmPoolResize, InvM
<1>3. p \in DOMAIN makers /\ makers[p] = c
  BY <1>1 DEF InvM, MemoryOwned
<1>4. MakersOK'
  BY <1>1, <1>3 DEF MakersOK, InvM, Inv, TypeOK
<1>5. \A v \in DOMAIN views \ replaced' : v \in DOMAIN views \ replaced /\ views[v] # p
  BY <1>1 DEF InvM, MemoryOwned
<1>6. \A q \in DOMAIN pools' : makers'[q] \in Connected' /\ q \in proxy'[makers'[q]].pools
  BY <1>1, <1>3 DEF InvM, MemoryOwned, Connected
<1>7. \A e \in Connected' : \A q \in proxy'[e].pools : q \in DOMAIN makers' /\ makers'[q] = e
  BY <1>1 DEF InvM, MemoryOwned, Connected
<1>8. \A v \in DOMAIN views' \ replaced' :
          /\ views'[v] \in DOMAIN pools' /\ v \in pools'[views'[v]] /\ makers'[v] = makers'[views'[v]]
  BY <1>1, <1>5 DEF InvM, MemoryOwned
<1>9. MemoryOwned'
  BY <1>6, <1>7, <1>8 DEF MemoryOwned
<1> QED BY <1>2, <1>4, <1>9, IsMemoryEffect DEF ShmPoolResize

(* An image is made, of which only its ID matters here.                    *)
LEMMA ImageCreated ==
    ASSUME InvM, NEW c \in Connected, CreateImage(c), UNCHANGED <<pools, views, replaced>>
    PROVE  SameWindows(c) /\ MakersOK' /\ MemoryOwned'
<1>1. NextId \in Nat
  BY MakersGrow DEF CreateImage, InvM, Inv
<1>2. SameWindows(c) /\ proxy'[c].pools = proxy[c].pools
  BY <1>1, BufferAdded DEF CreateImage, InvM, None
<1> QED BY <1>2, MemorySame DEF CreateImage

LEMMA MemoryRequests ==
    ASSUME InvM, NEW c, MemoryRequest(c)
    PROVE  MemoryEffect(c)
<1>1. c \in Connected
  BY DEF MemoryRequest, ShmCreatePool, DrmCreateBuffer, DmabufCreateParams, ShmCreateBuffer,
         ShmBufferDestroy, ShmPoolDestroy, ShmPoolResize, ImageDestroy, ParamsCreate, ParamsAdd, Request
<1>2. Inv
  BY DEF InvM
<1>3. CASE DrmCreateBuffer(c)
  BY <1>1, <1>2, <1>3, ImageCreated, ObjectsUnchanged, IsMemoryEffect DEF DrmCreateBuffer
<1>4. CASE DmabufCreateParams(c)
  <2>1. [kind |-> "params", planes |-> {}] \in Object
    BY DEF Object
  <2>2. OnlyObjects(c) /\ SameWindows(c)
    BY <1>1, <1>2, <1>4, <2>1, ObjectMade, ProxySame DEF DmabufCreateParams
  <2>3. MakersOK' /\ MemoryOwned'
    BY <1>1, <1>4, <2>2, MemorySame DEF DmabufCreateParams, memory
  <2> QED BY <1>4, <2>2, <2>3, IsMemoryEffect DEF DmabufCreateParams
<1>5. ASSUME NEW x \in Ids, ImageDestroy(c, x)
      PROVE  MemoryEffect(c)
  <2>1. OnlyObjects(c) /\ SameWindows(c)
    BY <1>1, <1>2, <1>5, ObjectsUnchanged, ProxySame DEF ImageDestroy
  <2>2. MakersOK' /\ MemoryOwned'
    BY <1>1, <1>5, <2>1, MemorySame DEF ImageDestroy
  <2> QED BY <1>5, <2>1, <2>2, IsMemoryEffect DEF ImageDestroy
<1>6. ASSUME NEW o \in Oids, ParamsCreate(c, o)
      PROVE  MemoryEffect(c)
  <2>1. OnlyObjects(c)
    BY <1>1, <1>2, <1>6, ObjectsUnchanged DEF ParamsCreate
  <2>2. CASE CreateImage(c)
    BY <1>1, <1>6, <2>1, <2>2, ImageCreated, IsMemoryEffect DEF ParamsCreate
  <2>3. CASE UNCHANGED <<makers, images, proxy>>
    <3>1. SameWindows(c) /\ MakersOK' /\ MemoryOwned'
      BY <1>1, <1>2, <1>6, <2>3, ProxySame, MemorySame DEF ParamsCreate
    <3> QED BY <1>6, <2>1, <3>1, IsMemoryEffect DEF ParamsCreate
  <2> QED BY <1>6, <2>2, <2>3 DEF ParamsCreate
<1>7. ASSUME NEW o \in Oids, NEW i \in Planes \union {Cardinality(Planes)}, ParamsAdd(c, o, i)
      PROVE  MemoryEffect(c)
  <2>1. SameWindows(c) /\ MakersOK' /\ MemoryOwned'
    BY <1>1, <1>2, <1>7, ProxySame, MemorySame DEF ParamsAdd, memory
  <2>2. OnlyObjects(c)
    <3> DEFINE object == [objects[c][o] EXCEPT !.planes = @ \union {i}]
    <3>1. CASE i \in Planes
      <4>1. o \in DOMAIN objects[c] /\ objects[c][o].kind = "params" /\ objects[c] \in Seq(Object)
        BY <1>1, <1>7 DEF ParamsAdd, Is, InvM, Inv, TypeOK
      <4>2. objects[c][o] \in [kind : {"params"}, planes : SUBSET Planes]
        BY <4>1 DEF Object
      <4>3. object \in Object /\ Names(object, proxy[c].surfaces)
        BY <3>1, <4>2 DEF Object, Names
      <4> QED BY <1>1, <1>2, <1>7, <3>1, <4>1, <4>3, ObjectsChanged DEF ParamsAdd
    <3>2. CASE i \notin Planes
      BY <1>1, <1>2, <1>7, <3>2, ObjectsUnchanged DEF ParamsAdd
    <3> QED BY <3>1, <3>2
  <2> QED BY <1>7, <2>1, <2>2, IsMemoryEffect DEF ParamsAdd
<1> QED BY <1>3, <1>4, <1>5, <1>6, <1>7, PoolCreated, BufferCreated, BufferDestroyed, PoolDestroyed,
           PoolResized DEF MemoryRequest

(* Requests about outputs and screenshots.                                 *)
LEMMA OutputRequests ==
    ASSUME InvM, NEW c, OutputRequest(c)
    PROVE  MemoryEffect(c)
<1>1. c \in Connected
  BY DEF OutputRequest
<1>2. Inv /\ objects[c] \in Seq(Object) /\ proxy[c] \in Proxy
  BY <1>1, ProxyOf DEF InvM, Inv, TypeOK
<1>3. ASSUME NEW r \in DOMAIN objects[c], NEW i, BindOutput(c, r, i)
      PROVE  MemoryEffect(c)
  <2>1. OnlyObjects(c) /\ SameWindows(c) /\ proxy'[c].pools = proxy[c].pools
    <3>1. CASE i \in DOMAIN proxy[c].globals
      <4>1. proxy[c].globals[i] \in Nat /\ Len(objects[c]) + 1 \in Nat
        BY <1>2, <3>1 DEF Proxy
      <4>2. [kind |-> "output"] \in Object
        BY DEF Object
      <4> QED BY <1>1, <1>2, <1>3, <3>1, <4>1, <4>2, ObjectMade, OutputRelated DEF BindOutput
    <3>2. CASE i \notin DOMAIN proxy[c].globals
      BY <1>1, <1>2, <1>3, <3>2, ObjectsUnchanged, ProxySame DEF BindOutput
    <3> QED BY <3>1, <3>2
  <2>2. MakersOK' /\ MemoryOwned'
    BY <1>1, <1>3, <2>1, MemorySame DEF BindOutput, memory
  <2> QED BY <1>3, <2>1, <2>2, IsMemoryEffect DEF BindOutput
<1>4. ASSUME NEW o \in DOMAIN objects[c], OutputRelease(c, o)
      PROVE  MemoryEffect(c)
  <2>1. OnlyObjects(c) /\ SameWindows(c)
    BY <1>1, <1>2, <1>4, ObjectGone, ProxySame DEF OutputRelease
  <2>2. MakersOK' /\ MemoryOwned'
    BY <1>1, <1>4, <2>1, MemorySame DEF OutputRelease, memory
  <2> QED BY <1>4, <2>1, <2>2, IsMemoryEffect DEF OutputRelease
<1>5. ASSUME NEW o \in DOMAIN objects[c], NEW b \in DOMAIN proxy[c].buffers, Shoot(c, o, b)
      PROVE  MemoryEffect(c)
  <2> DEFINE known == o \in DOMAIN proxy[c].outputs
             shot(free) == proxy[c].shooter \/ (free /\ known)
             p(free) == [proxy[c] EXCEPT !.memory = free, !.shooter = shot(free)]
  <2>1. PICK free \in BOOLEAN : Proxied(c, p(free))
    <3>1. PICK free \in Returned(c, proxy[c].buffers[b]) : Proxied(c, p(free))
      BY <1>5 DEF Shoot
    <3>2. free \in BOOLEAN
      BY <1>2, <3>1 DEF Returned, Proxy
    <3> QED BY <3>1, <3>2
  <2>2. shot(free) \in BOOLEAN
    BY <1>2 DEF Proxy
  <2> HIDE DEF shot
  <2>3. /\ p(free) \in Proxy /\ p(free).surfaces = proxy[c].surfaces /\ p(free).shells = proxy[c].shells
        /\ p(free).devices = proxy[c].devices /\ p(free).globals = proxy[c].globals
        /\ p(free).pools = proxy[c].pools
    BY <1>2, <2>2 DEF Proxy
  <2> HIDE DEF p
  <2>4. SameWindows(c) /\ proxy'[c].pools = proxy[c].pools
    BY <1>1, <1>2, <2>1, <2>3, ProxyChanged
  <2>5. MakersOK' /\ MemoryOwned'
    BY <1>1, <1>5, <2>4, PoolForgotten DEF Shoot
  <2>6. OnlyObjects(c)
    BY <1>1, <1>2, <1>5, ObjectsUnchanged DEF Shoot
  <2> QED BY <1>1, <1>5, <2>4, <2>5, <2>6 DEF Shoot, Request, MemoryEffect, others
<1>6. CASE GetRegistry(c)
  <2> DEFINE object == [kind |-> "registry", listed |-> proxy[c].globals]
  <2>1. object \in Object
    BY <1>2 DEF Object, Proxy
  <2>2. proxy[c].globals = outputs
    BY <1>1 DEF InvM, OutputsAgree
  <2>3. Names(object, proxy[c].surfaces)
    BY <2>2 DEF Names, Listed
  <2>4. OnlyObjects(c) /\ SameWindows(c)
    BY <1>1, <1>2, <1>6, <2>1, <2>3, ObjectsCreated, ProxySame DEF GetRegistry
  <2>5. MakersOK' /\ MemoryOwned'
    BY <1>1, <1>6, <2>4, MemorySame DEF GetRegistry, memory
  <2> QED BY <1>6, <2>4, <2>5, IsMemoryEffect DEF GetRegistry
<1> QED BY <1>3, <1>4, <1>5, <1>6 DEF OutputRequest

-----------------------------------------------------------------------------
(* The messages of kinds K are the same, k positions further on before.    *)
Keeps(K, k) ==
    /\ k \in {0, 1} /\ inbox' \in Seq(Message)
    /\ \A i \in 1..Len(inbox') :
        inbox'[i].kind \in K => i + k \in 1..Len(inbox) /\ inbox[i + k] = inbox'[i]
    /\ \A i \in 1..Len(inbox) :
        inbox[i].kind \in K => i - k \in 1..Len(inbox') /\ inbox'[i - k] = inbox[i]

LEMMA QueueSame == ASSUME TypeOK, UNCHANGED inbox, NEW K PROVE Keeps(K, 0)
BY DEF TypeOK, Keeps

LEMMA QueueAppended ==
    ASSUME TypeOK, NEW m \in Message, inbox' = Append(inbox, m), NEW K, m.kind \notin K
    PROVE  Keeps(K, 0)
BY DEF TypeOK, Keeps

LEMMA TailOf ==
    ASSUME TypeOK, inbox # <<>>, inbox' = Tail(inbox)
    PROVE  /\ inbox' \in Seq(Message) /\ Head(inbox) = inbox[1] /\ inbox[1] \in Message
           /\ Len(inbox) \in Nat \ {0} /\ Len(inbox') = Len(inbox) - 1
           /\ \A i \in 1..Len(inbox') : inbox'[i] = inbox[i + 1]
<1>1. inbox \in Seq(Message)
  BY DEF TypeOK
<1>2. Len(inbox) \in Nat \ {0} /\ Len(inbox') = Len(inbox) - 1 /\ inbox' \in Seq(Message)
  BY <1>1
<1>3. \A i \in 1..Len(inbox') : inbox'[i] = inbox[i + 1]
  BY <1>1, <1>2
<1>4. Head(inbox) = inbox[1] /\ inbox[1] \in Message
  BY <1>1, <1>2
<1> QED BY <1>2, <1>3, <1>4

LEMMA QueueTaken ==
    ASSUME TypeOK, NEW kind, Receives(kind), NEW K, kind \notin K
    PROVE  Keeps(K, 1)
<1>1. inbox # <<>> /\ inbox' = Tail(inbox) /\ Head(inbox).kind = kind
  BY DEF Receives
<1>2. /\ inbox' \in Seq(Message) /\ Head(inbox) = inbox[1]
      /\ Len(inbox) \in Nat \ {0} /\ Len(inbox') = Len(inbox) - 1
      /\ \A i \in 1..Len(inbox') : inbox'[i] = inbox[i + 1]
  BY <1>1, TailOf
<1>3. inbox[1].kind \notin K
  BY <1>1, <1>2
<1>4. ASSUME NEW i \in 1..Len(inbox), inbox[i].kind \in K
      PROVE  i - 1 \in 1..Len(inbox') /\ inbox'[i - 1] = inbox[i]
  <2>1. i # 1
    BY <1>3, <1>4
  <2>2. i - 1 \in 1..Len(inbox') /\ (i - 1) + 1 = i
    BY <1>2, <2>1
  <2> QED BY <1>2, <2>2
<1> QED BY <1>2, <1>4 DEF Keeps

(* Whose a surface is after a step.                                        *)
ClientAfter(s) == IF s \in DOMAIN owner' THEN owner'[s] ELSE None

(* Clients lose what was theirs when e, if anybody, is removed; the other  *)
(* surfaces that have been named are whose they were.                      *)
Leaves(e) ==
    \A s \in Known \union {Invalid} : ClientAfter(s) = IF ClientOf(s) = e THEN None ELSE ClientOf(s)

LEMMA FocusChainKept ==
    ASSUME TypeOK, NEW d \in Devices, FocusChain(d), NEW k, Keeps({d}, k), focus'[d] = focus[d],
           Known \subseteq Known', entered'[d] \subseteq entered[d],
           \A x \in entered'[d] : Tells(d, x[1], x[2])' /\ ClientAfter(x[2]) = ClientOf(x[2])
    PROVE  FocusChain(d)'
<1>0. inbox \in Seq(Message) /\ inbox' \in Seq(Message) /\ k \in {0, 1}
  BY DEF TypeOK, Keeps
<1>1. \A s : entered[d] \subseteq {<<ClientOf(s), s>>} => entered'[d] \subseteq {<<ClientAfter(s), s>>}
  <2> SUFFICES ASSUME NEW s, entered[d] \subseteq {<<ClientOf(s), s>>}, NEW x \in entered'[d]
               PROVE  x = <<ClientAfter(s), s>>
    OBVIOUS
  <2> QED OBVIOUS
<1>2. ASSUME NEW i \in 1..Len(inbox'), inbox'[i].kind = d
      PROVE  /\ i + k \in 1..Len(inbox) /\ inbox[i + k] = inbox'[i]
             /\ {inbox'[i].old, inbox'[i].new} \subseteq Known' \union {Invalid}
             /\ LastOf(d, i)' => inbox'[i].new = focus'[d]
             /\ FirstOf(d, i)' => entered'[d] \subseteq {<<ClientAfter(inbox'[i].old), inbox'[i].old>>}
             /\ \A j \in 1..Len(inbox') : Follows(d, i, j)' => inbox'[j].old = inbox'[i].new
  <2>1. i + k \in 1..Len(inbox) /\ inbox[i + k] = inbox'[i]
    BY <1>2 DEF Keeps
  <2>2. {inbox'[i].old, inbox'[i].new} \subseteq Known' \union {Invalid}
    BY <1>2, <2>1 DEF FocusChain, Invalid
  <2>3. LastOf(d, i)' => LastOf(d, i + k)
    <3> SUFFICES ASSUME LastOf(d, i)', NEW j \in (i + k + 1)..Len(inbox), inbox[j].kind = d
                 PROVE  FALSE
      BY <1>2, <2>1 DEF LastOf
    <3>1. j \in 1..Len(inbox)
      BY <1>0, <2>1
    <3>2. j - k \in 1..Len(inbox') /\ inbox'[j - k] = inbox[j]
      BY <3>1 DEF Keeps
    <3>3. j - k \in (i + 1)..Len(inbox')
      BY <1>0, <3>1, <3>2
    <3> QED BY <3>2, <3>3 DEF LastOf
  <2>4. FirstOf(d, i)' => FirstOf(d, i + k)
    <3> SUFFICES ASSUME FirstOf(d, i)', NEW j \in 1..((i + k) - 1), inbox[j].kind = d
                 PROVE  FALSE
      BY <1>0, <1>2, <2>1 DEF FirstOf
    <3>1. j \in 1..Len(inbox)
      BY <1>0, <2>1
    <3>2. j - k \in 1..Len(inbox') /\ inbox'[j - k] = inbox[j]
      BY <3>1 DEF Keeps
    <3>3. j - k \in 1..(i - 1)
      BY <1>0, <3>1, <3>2
    <3> QED BY <3>2, <3>3 DEF FirstOf
  <2>5. ASSUME NEW j \in 1..Len(inbox'), Follows(d, i, j)'
        PROVE  inbox'[j].old = inbox'[i].new
    <3>1. i < j /\ inbox'[j].kind = d
      BY <2>5 DEF Follows
    <3>2. j + k \in 1..Len(inbox) /\ inbox[j + k] = inbox'[j]
      BY <3>1 DEF Keeps
    <3>3. Follows(d, i + k, j + k)
      <4> SUFFICES ASSUME NEW n \in (i + k + 1)..(j + k - 1), inbox[n].kind = d
                   PROVE  FALSE
        BY <1>0, <1>2, <2>1, <3>1, <3>2 DEF Follows
      <4>1. n \in 1..Len(inbox)
        BY <1>0, <2>1, <3>2
      <4>2. n - k \in 1..Len(inbox') /\ inbox'[n - k] = inbox[n]
        BY <4>1 DEF Keeps
      <4>3. n - k \in (i + 1)..(j - 1)
        BY <1>0, <4>1, <4>2
      <4> QED BY <2>5, <4>2, <4>3 DEF Follows
    <3> QED BY <1>2, <2>1, <3>2, <3>3 DEF FocusChain
  <2>6. LastOf(d, i)' => inbox'[i].new = focus'[d]
    BY <1>2, <2>1, <2>3 DEF FocusChain
  <2>7. FirstOf(d, i)' => entered'[d] \subseteq {<<ClientAfter(inbox'[i].old), inbox'[i].old>>}
    BY <1>1, <1>2, <2>1, <2>4 DEF FocusChain
  <2> QED BY <2>1, <2>2, <2>5, <2>6, <2>7
<1>3. ASSUME ~Queued({d})'
      PROVE  entered'[d] \subseteq {<<ClientAfter(focus'[d]), focus'[d]>>}
  <2>1. ~Queued({d})
    <3> SUFFICES ASSUME NEW i \in 1..Len(inbox), inbox[i].kind = d PROVE FALSE
      BY <1>0 DEF Queued
    <3>1. i - k \in 1..Len(inbox') /\ inbox'[i - k] = inbox[i]
      BY DEF Keeps
    <3> QED BY <1>0, <1>3, <3>1 DEF Queued
  <2>2. entered[d] \subseteq {<<ClientOf(focus[d]), focus[d]>>}
    BY <2>1 DEF FocusChain
  <2> QED BY <1>1, <2>2
<1> QED BY <1>2, <1>3 DEF FocusChain, ClientAfter, ClientOf

LEMMA OutputsKept ==
    ASSUME TypeOK, OutputsAgree, NEW k, Keeps({"display"}, k), UNCHANGED <<outputs, displays>>,
           \A c \in Connected' : proxy'[c].globals = outputs
    PROVE  OutputsAgree'
<1>0. inbox \in Seq(Message) /\ inbox' \in Seq(Message) /\ k \in {0, 1}
  BY DEF TypeOK, Keeps
<1> DEFINE waiting == {i \in DOMAIN inbox : inbox[i].kind = "display"}
           later == {i \in DOMAIN inbox' : inbox'[i].kind = "display"}
<1>1. \A i \in later : i \in Nat /\ i + k \in waiting /\ inbox[i + k] = inbox'[i]
  BY <1>0 DEF Keeps
<1>2. \A i \in waiting : i \in Nat /\ i - k \in later /\ inbox'[i - k] = inbox[i]
  BY <1>0 DEF Keeps
<1>3. {inbox'[i].output : i \in later} = {inbox[i].output : i \in waiting}
  <2>1. ASSUME NEW i \in later PROVE inbox'[i].output \in {inbox[j].output : j \in waiting}
    BY <1>1
  <2>2. ASSUME NEW i \in waiting PROVE inbox[i].output \in {inbox'[j].output : j \in later}
    BY <1>2
  <2> QED BY <2>1, <2>2
<1>4. ASSUME NEW i \in later, NEW j \in later, i < j
      PROVE  inbox'[i].output < inbox'[j].output
  <2>1. i + k < j + k
    BY <1>0, <1>1, <1>4
  <2> QED BY <1>1, <2>1 DEF OutputsAgree
<1> QED BY <1>3, <1>4 DEF OutputsAgree

(* Registries told outputs there are, since outputs only come at the end.  *)
LEMMA RegistriesKept ==
    ASSUME TypeOK, outputs' = outputs \/ \E output \in Nat : outputs' = Append(outputs, output),
           \A e \in Connected' : \A o \in DOMAIN objects'[e] :
               objects'[e][o].kind = "registry" => Listed(objects'[e][o].listed)
    PROVE  RegistriesListed'
<1>1. \A i \in DOMAIN outputs : i \in DOMAIN outputs' /\ outputs'[i] = outputs[i]
  <2>1. outputs \in Seq(Nat)
    BY DEF TypeOK
  <2>2. CASE outputs' = outputs
    BY <2>2
  <2>3. ASSUME NEW output \in Nat, outputs' = Append(outputs, output)
        PROVE  \A i \in DOMAIN outputs : i \in DOMAIN outputs' /\ outputs'[i] = outputs[i]
    BY <2>1, <2>3
  <2> QED BY <2>2, <2>3
<1> QED BY <1>1 DEF RegistriesListed, Listed

(* What a window was told of its size, or no longer has to be told.        *)
LEMMA SizesKept ==
    ASSUME TypeOK, SizeCurrent, NEW k, Keeps({"reconfigured"}, k),
           \A c \in Connected' : \A s \in DOMAIN proxy'[c].shells \intersect Stored' :
               \/ proxy'[c].shells[s].size \in {Unset, forms'[s].desired}
               \/ forms'[s].desired = OfImage
               \/ /\ c \in Connected /\ s \in DOMAIN proxy[c].shells \intersect Stored
                  /\ proxy'[c].shells[s] = proxy[c].shells[s] /\ forms'[s].desired = forms[s].desired
    PROVE  SizeCurrent'
<1>0. inbox \in Seq(Message) /\ inbox' \in Seq(Message) /\ k \in {0, 1}
  BY DEF TypeOK, Keeps
<1> SUFFICES ASSUME NEW c \in Connected', NEW s \in DOMAIN proxy'[c].shells \intersect Stored',
                    proxy'[c].shells[s].size \notin {Unset, forms'[s].desired},
                    forms'[s].desired # OfImage
             PROVE  \E i \in DOMAIN inbox' : inbox'[i].kind = "reconfigured" /\ inbox'[i].sid = s
  BY DEF SizeCurrent, OfImage, Unset
<1>1. \E i \in DOMAIN inbox : inbox[i].kind = "reconfigured" /\ inbox[i].sid = s
  BY DEF SizeCurrent
<1>2. PICK i \in 1..Len(inbox) : inbox[i].kind = "reconfigured" /\ inbox[i].sid = s
  BY <1>0, <1>1
<1>3. i - k \in 1..Len(inbox') /\ inbox'[i - k] = inbox[i]
  BY <1>2 DEF Keeps
<1> QED BY <1>0, <1>2, <1>3

LEMMA MemoryKept ==
    ASSUME MemoryOwned, UNCHANGED <<pools, views, makers, replaced>>, Connected \subseteq Connected',
           \A c \in Connected : proxy'[c].pools = proxy[c].pools,
           \A c \in Connected' \ Connected : proxy'[c].pools = {}
    PROVE  MemoryOwned'
BY DEF MemoryOwned

ComesAfter(c, i) ==
    /\ inbox'[i].kind = "keyboard"
    /\ ClientAfter(inbox'[i].old) # ClientAfter(inbox'[i].new)
    /\ \A j \in i..Len(inbox') : inbox'[j].kind = "keyboard" => ClientAfter(inbox'[j].new) = c

LEMMA SelectionKept ==
    ASSUME TypeOK, \A d \in Devices : FocusChain(d), SelectionComes, 
           NEW k, Keeps({"keyboard", "offered"}, k), focus'["keyboard"] = focus["keyboard"],
           transfer' = transfer, NEW e, Leaves(e),
           offered' \in [Clients -> Nat], \A c \in Clients : offered'[c] \in {offered[c], None},
           \A c \in Clients : offered'[c] # None => c \in Connected' /\ "data" \in proxy'[c].devices,
           \A s \in DOMAIN owner : owner[s] \in Clients
    PROVE  SelectionComes'
<1>0. inbox \in Seq(Message) /\ inbox' \in Seq(Message) /\ k \in {0, 1}
  BY DEF TypeOK, Keeps
<1> DEFINE s == focus["keyboard"]
           c == ClientAfter(s)
<1>1. s \in Known \union {Invalid}
  BY DEF TypeOK, Devices
<1>2. ASSUME c # None, ~Queued({"offered"})'
      PROVE  offered'[c] \in {None, transfer'} \/ \E i \in 1..Len(inbox') : ComesAfter(c, i)
  <2>1. c = ClientOf(s) /\ c # e
    BY <1>1, <1>2 DEF Leaves
  <2>2. c \in Clients
    BY <1>2, <2>1 DEF ClientOf
  <2>3. ~Queued({"offered"})
    <3> SUFFICES ASSUME NEW i \in 1..Len(inbox), inbox[i].kind = "offered" PROVE FALSE
      BY <1>0 DEF Queued
    <3>1. i - k \in 1..Len(inbox') /\ inbox'[i - k] = inbox[i]
      BY DEF Keeps
    <3> QED BY <1>0, <1>2, <3>1 DEF Queued
  <2>4. CASE offered[c] \in {None, transfer}
    BY <2>2, <2>4
  <2>5. CASE offered[c] \notin {None, transfer}
    <3>1. PICK i \in 1..Len(inbox) : Comes(c, i)
      BY <1>2, <2>1, <2>3, <2>5 DEF SelectionComes
    <3>2. i - k \in 1..Len(inbox') /\ inbox'[i - k] = inbox[i]
      BY <3>1 DEF Comes, Keeps
    <3>3. \A j \in 1..Len(inbox) : inbox[j].kind = "keyboard" =>
                {inbox[j].old, inbox[j].new} \subseteq Known \union {Invalid}
      BY DEF FocusChain, Devices
    <3>4. ASSUME NEW j \in (i - k)..Len(inbox'), inbox'[j].kind = "keyboard"
          PROVE  ClientAfter(inbox'[j].new) = c
      <4>1. j \in 1..Len(inbox')
        BY <1>0, <3>2
      <4>2. j + k \in 1..Len(inbox) /\ inbox[j + k] = inbox'[j]
        BY <3>4, <4>1 DEF Keeps
      <4>3. j + k \in i..Len(inbox)
        BY <1>0, <3>2, <4>1, <4>2
      <4>4. ClientOf(inbox'[j].new) = c
        BY <3>1, <3>4, <4>2, <4>3 DEF Comes
      <4> QED BY <2>1, <3>3, <3>4, <4>2, <4>4 DEF Leaves
    <3>5. inbox[i].kind = "keyboard" /\ ClientOf(inbox[i].old) # ClientOf(inbox[i].new)
          /\ ClientOf(inbox[i].new) = c
      BY <1>0, <3>1 DEF Comes
    <3>6. ClientAfter(inbox'[i - k].old) # ClientAfter(inbox'[i - k].new)
      <4>1. inbox[i].old \in Known \union {Invalid} /\ inbox[i].new \in Known \union {Invalid}
        BY <3>3, <3>5
      <4>2. ClientAfter(inbox[i].new) = c
        BY <2>1, <3>5, <4>1 DEF Leaves
      <4>3. ClientAfter(inbox[i].old) # c
        BY <1>2, <2>1, <3>5, <4>1 DEF Leaves
      <4> QED BY <3>2, <4>2, <4>3
    <3>7. ComesAfter(c, i - k)
      BY <3>2, <3>4, <3>5, <3>6 DEF ComesAfter
    <3> QED BY <3>2, <3>7
  <2> QED BY <2>4, <2>5
<1>3. \A x \in Clients : offered'[x] # None => transfer' # None
  BY DEF SelectionComes
<1> QED BY <1>2, <1>3 DEF SelectionComes, Comes, ComesAfter, ClientAfter, ClientOf

LEMMA OwnedKnown ==
    ASSUME SurfacesOwned, NEW c \in Connected, NEW s \in proxy[c].surfaces
    PROVE  s \in Known /\ ClientOf(s) = c
BY DEF SurfacesOwned, ClientOf

(* A step that leaves the focus, and what there is to tell of it, alone.   *)
LEMMA FocusUndisturbed ==
    ASSUME IInv, NEW d \in Devices, NEW k, Keeps({d}, k), focus'[d] = focus[d], Known \subseteq Known',
           Leaves(None), entered'[d] = entered[d],
           \A c \in Connected : /\ c \in Connected' /\ proxy[c].surfaces \subseteq proxy'[c].surfaces
                                /\ proxy[c].devices \subseteq proxy'[c].devices
    PROVE  FocusChain(d)'
<1>1. ASSUME NEW x \in entered'[d]
      PROVE  Tells(d, x[1], x[2])' /\ ClientAfter(x[2]) = ClientOf(x[2])
  <2>1. Tells(d, x[1], x[2])
    BY <1>1 DEF IInv, FocusChain
  <2>2. x[2] \in Known
    BY <2>1, OwnedKnown DEF Tells, IInv
  <2>3. Tells(d, x[1], x[2])'
    BY <2>1 DEF Tells
  <2> QED BY <2>2, <2>3 DEF Leaves
<1> QED BY <1>1, FocusChainKept DEF IInv

LEMMA OwnersAreClients ==
    ASSUME TypeOK, SurfacesOwned, NEW s \in DOMAIN owner
    PROVE  owner[s] \in Clients
BY IsClient DEF SurfacesOwned

LEMMA SelectionUndisturbed ==
    ASSUME IInv, NEW k, Keeps({"keyboard", "offered"}, k), focus'["keyboard"] = focus["keyboard"],
           UNCHANGED <<transfer, offered>>, Leaves(None),
           \A c \in Connected : c \in Connected' /\ proxy[c].devices \subseteq proxy'[c].devices
    PROVE  SelectionComes'
<1>1. \A c \in Clients : offered'[c] # None => c \in Connected' /\ "data" \in proxy'[c].devices
  BY DEF IInv, SelectionComes
<1>2. offered' \in [Clients -> Nat] /\ \A c \in Clients : offered'[c] \in {offered[c], None}
  BY DEF IInv, TypeOK
<1>3. \A s \in DOMAIN owner : owner[s] \in Clients
  BY OwnersAreClients DEF IInv
<1> QED BY <1>1, <1>2, <1>3, SelectionKept DEF IInv

LEMMA NobodyLeaves == ASSUME owner' = owner PROVE Leaves(None)
BY DEF Leaves, ClientAfter, ClientOf

(* The invariant after requests about surfaces.                            *)
LEMMA SurfaceStep ==
    ASSUME IInv, NEW c, SurfaceEffect(c)
    PROVE  IInv'
<1>1. /\ c \in Connected /\ Connected' = Connected /\ proxy' \in [Connected -> Proxy]
      /\ lastSurface' = lastSurface /\ Known' = Known /\ Stored' \subseteq Stored /\ owner' = owner
      /\ objects' \in [Connected -> Seq(Object)] /\ UNCHANGED <<others, memory, transfer, inbox, entered, offered>>
  BY DEF SurfaceEffect, OnlyWindows, OnlyProxy, OnlyObjects, SameSurfaces, Known, Connected, Elsewhere
<1>2. \A e \in Connected :
        /\ proxy'[e].surfaces = proxy[e].surfaces /\ proxy'[e].pools = proxy[e].pools
        /\ proxy'[e].devices = proxy[e].devices /\ proxy'[e].globals = proxy[e].globals
  BY DEF SurfaceEffect, OnlyWindows, OnlyProxy
<1>3. \A e \in Connected : \A s \in DOMAIN proxy'[e].shells :
        /\ s \in proxy[e].surfaces
        /\ \/ proxy'[e].shells[s].size = Unset
           \/ s \in DOMAIN proxy[e].shells /\ proxy'[e].shells[s] = proxy[e].shells[s]
  BY DEF SurfaceEffect, OnlyWindows, OnlyProxy, IInv, SurfacesOwned
<1>4. UNCHANGED <<focus, displays, outputs, lastClient, group, pools, views, makers, replaced>>
  BY <1>1 DEF others, memory, clients
<1>5. TypeOK'
  BY <1>1, <1>4 DEF IInv, TypeOK, SurfaceEffect, FormsKept
<1>6. SurfacesOwned'
  <2>1. \A e \in Connected : \A o \in DOMAIN objects'[e] :
            objects'[e][o].kind \in {"xdg", "shell"} => objects'[e][o].surface \in proxy[e].surfaces
    BY DEF SurfaceEffect, OnlyObjects, Names, IInv, SurfacesOwned
  <2> QED BY <1>1, <1>2, <1>3, <2>1 DEF IInv, SurfacesOwned
<1>7. MemoryOwned'
  BY <1>1, <1>2, <1>4, MemoryKept DEF IInv
<1>8. OutputsAgree'
  BY <1>1, <1>2, <1>4, OutputsKept, QueueSame DEF IInv, OutputsAgree
<1>9. SizeCurrent'
  <2>1. \A s \in Stored' : forms'[s].desired \in {forms[s].desired, OfImage}
    BY DEF SurfaceEffect, FormsKept
  <2> QED BY <1>1, <1>3, <2>1, SizesKept, QueueSame DEF IInv
<1>10. \A d \in Devices : FocusChain(d)'
  BY <1>1, <1>2, <1>4, FocusUndisturbed, QueueSame, NobodyLeaves DEF IInv
<1>11. SelectionComes'
  BY <1>1, <1>2, <1>4, SelectionUndisturbed, QueueSame, NobodyLeaves DEF IInv
<1>12. RegistriesListed'
  <2>1. \A e \in Connected : \A o \in DOMAIN objects'[e] :
            objects'[e][o].kind = "registry" => Listed(objects'[e][o].listed)
    BY DEF SurfaceEffect, OnlyObjects, Names, IInv, RegistriesListed
  <2> QED BY <1>1, <1>4, <2>1, RegistriesKept DEF IInv
<1> QED BY <1>5, <1>6, <1>7, <1>8, <1>9, <1>10, <1>11, <1>12 DEF IInv

(* The invariant after requests about memory and outputs.                  *)
LEMMA MemoryStep ==
    ASSUME IInv, NEW c, MemoryEffect(c)
    PROVE  IInv'
<1>1. /\ c \in Connected /\ Connected' = Connected /\ proxy' \in [Connected -> Proxy]
      /\ objects' \in [Connected -> Seq(Object)]
      /\ UNCHANGED <<others, storage, forms, transfer, inbox, owner, entered, offered>>
  BY DEF MemoryEffect, SameWindows, OnlyProxy, OnlyObjects, Connected
<1>2. \A e \in Connected :
        /\ proxy'[e].surfaces = proxy[e].surfaces /\ proxy'[e].shells = proxy[e].shells
        /\ proxy'[e].devices = proxy[e].devices /\ proxy'[e].globals = proxy[e].globals
  BY DEF MemoryEffect, SameWindows, OnlyProxy
<1>3. /\ UNCHANGED <<focus, displays, outputs, lastClient, group, lastSurface>>
      /\ Known' = Known /\ Stored' = Stored
  BY <1>1 DEF others, storage, clients, Known, Stored
<1>4. TypeOK'
  BY <1>1, <1>3 DEF IInv, TypeOK, MemoryEffect, MakersOK
<1>5. SurfacesOwned'
  <2>1. \A e \in Connected : \A o \in DOMAIN objects'[e] :
            objects'[e][o].kind \in {"xdg", "shell"} => objects'[e][o].surface \in proxy[e].surfaces
    BY DEF MemoryEffect, OnlyObjects, Names, IInv, SurfacesOwned
  <2> QED BY <1>1, <1>2, <1>3, <2>1 DEF IInv, SurfacesOwned
<1>6. MemoryOwned'
  BY DEF MemoryEffect
<1>7. OutputsAgree'
  BY <1>1, <1>2, <1>3, OutputsKept, QueueSame DEF IInv, OutputsAgree
<1>8. SizeCurrent'
  BY <1>1, <1>2, <1>3, SizesKept, QueueSame DEF IInv
<1>9. \A d \in Devices : FocusChain(d)'
  BY <1>1, <1>2, <1>3, FocusUndisturbed, QueueSame, NobodyLeaves DEF IInv
<1>10. SelectionComes'
  BY <1>1, <1>2, <1>3, SelectionUndisturbed, QueueSame, NobodyLeaves DEF IInv
<1>11. RegistriesListed'
  <2>1. \A e \in Connected : \A o \in DOMAIN objects'[e] :
            objects'[e][o].kind = "registry" => Listed(objects'[e][o].listed)
    BY DEF MemoryEffect, OnlyObjects, Names, IInv, RegistriesListed
  <2> QED BY <1>1, <1>3, <2>1, RegistriesKept DEF IInv
<1> QED BY <1>4, <1>5, <1>6, <1>7, <1>8, <1>9, <1>10, <1>11 DEF IInv

(* The invariant after a surface is created, with an ID nothing names yet. *)
LEMMA CreationStep ==
    ASSUME IInv, NEW c, CompositorCreateSurface(c)
    PROVE  IInv'
<1> DEFINE n == lastSurface + 1
           p == [proxy[c] EXCEPT !.surfaces = @ \union {n}]
<1>1. /\ c \in Connected /\ n \in Sids /\ lastSurface' = n /\ Stored' = Stored \union {n}
      /\ forms' = With(forms, n, Form) /\ owner' = With(owner, n, c)
      /\ UNCHANGED <<others, memory, objects, transfer, inbox, entered, offered>>
  BY DEF CompositorCreateSurface, Request, CreateSurface, Stored
<1>2. UNCHANGED <<focus, displays, outputs, lastClient, group, pools, views, makers, replaced>>
  BY <1>1 DEF others, memory, clients
<1>3. /\ lastSurface \in Nat /\ n \in 0..MaxSurfaces /\ Known' = Known \union {n} /\ n \notin Known
  BY <1>1, BoundsAssumption DEF IInv, TypeOK, Known, Sids
<1>4. proxy[c] \in Proxy /\ proxy \in [Connected -> Proxy]
  BY <1>1, ProxyOf DEF IInv, TypeOK
<1>5. p \in Proxy /\ p = [proxy[c] EXCEPT !["surfaces"] = proxy[c]["surfaces"] \union {n}]
  BY <1>1, <1>4 DEF Proxy
<1>6. proxy' = [proxy EXCEPT ![c] = p]
  BY <1>5 DEF CompositorCreateSurface, AddTo, Proxied
<1>7. /\ Connected' = Connected /\ proxy' \in [Connected -> Proxy] /\ proxy'[c] = p
      /\ \A e \in Connected \ {c} : proxy'[e] = proxy[e]
  BY <1>1, <1>4, <1>5, <1>6 DEF Connected
<1>8. /\ p.surfaces = proxy[c].surfaces \union {n} /\ p.shells = proxy[c].shells
      /\ p.pools = proxy[c].pools /\ p.devices = proxy[c].devices /\ p.globals = proxy[c].globals
  BY <1>4 DEF Proxy
<1> HIDE DEF p
<1>9. \A e \in Connected :
        /\ proxy[e].surfaces \subseteq proxy'[e].surfaces /\ proxy'[e].shells = proxy[e].shells
        /\ proxy'[e].pools = proxy[e].pools /\ proxy'[e].devices = proxy[e].devices
        /\ proxy'[e].globals = proxy[e].globals
  BY <1>7, <1>8
<1>10. /\ DOMAIN owner' = DOMAIN owner \union {n} /\ owner'[n] = c
       /\ \A s \in DOMAIN owner : owner'[s] = owner[s]
       /\ DOMAIN owner \subseteq Known
  BY <1>1, <1>3 DEF With, IInv, SurfacesOwned
<1>11. Leaves(None)
  BY <1>3, <1>10 DEF Leaves, ClientAfter, ClientOf, Known, Invalid
<1>12. forms' \in [Stored' -> Forms] /\ \A s \in Stored : forms'[s] = forms[s]
  <2>1. Form \in Forms
    BY SizesAreNumbers DEF Form, Forms
  <2>2. n \notin Stored
    BY <1>3 DEF IInv, TypeOK
  <2> QED BY <1>1, <2>1, <2>2 DEF With, IInv, TypeOK
<1>13. TypeOK'
  <2>1. Stored' \subseteq Known'
    BY <1>1, <1>3 DEF IInv, TypeOK
  <2>2. focus' \in [Devices -> Known' \union {Invalid}]
    BY <1>2, <1>3 DEF IInv, TypeOK, Invalid
  <2> QED BY <1>1, <1>2, <1>3, <1>7, <1>12, <2>1, <2>2 DEF IInv, TypeOK
<1>14. SurfacesOwned'
  <2>1. Stored' \subseteq DOMAIN owner' /\ DOMAIN owner' \subseteq Known'
    BY <1>1, <1>3, <1>10 DEF IInv, SurfacesOwned
  <2>2. \A s \in DOMAIN owner' : owner'[s] \in Connected' /\ s \in proxy'[owner'[s]].surfaces
    BY <1>1, <1>7, <1>8, <1>9, <1>10 DEF IInv, SurfacesOwned
  <2>3. \A e \in Connected' : \A s \in proxy'[e].surfaces : s \in DOMAIN owner' /\ owner'[s] = e
    BY <1>1, <1>7, <1>8, <1>10 DEF IInv, SurfacesOwned
  <2>4. \A e \in Connected' : DOMAIN proxy'[e].shells \subseteq proxy'[e].surfaces
    BY <1>7, <1>9 DEF IInv, SurfacesOwned
  <2>5. \A e \in Connected' : \A o \in DOMAIN objects'[e] :
            objects'[e][o].kind \in {"xdg", "shell"} => objects'[e][o].surface \in proxy'[e].surfaces
    BY <1>1, <1>7, <1>9 DEF IInv, SurfacesOwned
  <2> QED BY <2>1, <2>2, <2>3, <2>4, <2>5 DEF SurfacesOwned
<1>15. MemoryOwned'
  BY <1>2, <1>7, <1>9, MemoryKept DEF IInv
<1>16. OutputsAgree'
  BY <1>1, <1>2, <1>7, <1>9, OutputsKept, QueueSame DEF IInv, OutputsAgree
<1>17. SizeCurrent'
  <2>1. \A e \in Connected : n \notin DOMAIN proxy[e].shells
    BY <1>3, OwnedKnown DEF IInv, SurfacesOwned
  <2> QED BY <1>1, <1>7, <1>9, <1>12, <2>1, SizesKept, QueueSame DEF IInv
<1>18. \A d \in Devices : FocusChain(d)'
  BY <1>1, <1>2, <1>3, <1>7, <1>9, <1>11, FocusUndisturbed, QueueSame DEF IInv
<1>19. SelectionComes'
  BY <1>1, <1>2, <1>7, <1>9, <1>11, SelectionUndisturbed, QueueSame DEF IInv
<1>20. RegistriesListed'
  BY <1>1, <1>2, <1>7, RegistriesKept DEF IInv, RegistriesListed
<1> QED BY <1>13, <1>14, <1>15, <1>16, <1>17, <1>18, <1>19, <1>20 DEF IInv

-----------------------------------------------------------------------------
(* What requests about input devices and selections may do.                *)
DeviceEffect(c) ==
    /\ c \in Connected
    /\ UNCHANGED <<others, storage, forms, memory, owner>>
    /\ OnlyProxy(c) /\ OnlyObjects(c)
    /\ proxy'[c].surfaces = proxy[c].surfaces /\ proxy'[c].shells = proxy[c].shells
    /\ proxy'[c].pools = proxy[c].pools /\ proxy'[c].globals = proxy[c].globals
    /\ \/ inbox' = inbox /\ transfer' = transfer
       \/ inbox' = Append(inbox, [kind |-> "requested"]) /\ transfer' = transfer
       \/ inbox' = Append(inbox, [kind |-> "offered"]) /\ transfer' = transfer + 1
    /\ entered' \in [Devices -> SUBSET Pairs]
    /\ \A d \in Devices : \A x \in entered'[d] :
        x \in entered[d] /\ (x[1] = c => d \in proxy'[c].devices)
    /\ offered' \in [Clients -> Nat]
    /\ \A e \in Clients :
        /\ offered'[e] \in {offered[e], None}
        /\ e = c /\ offered'[e] # None => "data" \in proxy'[c].devices

(* A change of the proxy that leaves windows, pools and outputs alone.     *)
LEMMA ProxyField ==
    ASSUME Inv, NEW c \in Connected, NEW p \in Proxy, Proxied(c, p),
           p.surfaces = proxy[c].surfaces, p.shells = proxy[c].shells,
           p.pools = proxy[c].pools, p.globals = proxy[c].globals
    PROVE  /\ OnlyProxy(c) /\ proxy'[c] = p
           /\ proxy'[c].surfaces = proxy[c].surfaces /\ proxy'[c].shells = proxy[c].shells
           /\ proxy'[c].pools = proxy[c].pools /\ proxy'[c].globals = proxy[c].globals
BY ProxiedOnly DEF Inv

LEMMA DeviceRequests ==
    ASSUME IInv, NEW c, DeviceRequest(c)
    PROVE  DeviceEffect(c)
<1>1. c \in Connected /\ UNCHANGED others /\ OnlyDevices
  BY DEF DeviceRequest, GetDevice, ReleaseDevice, CreateDataSource, DataSourceDestroy, SetSelection,
         DataOfferReceive, Request
<1>2. UNCHANGED <<others, storage, forms, memory, owner>>
  BY <1>1 DEF OnlyDevices
<1>3. /\ Inv /\ proxy[c] \in Proxy /\ c \in Clients
      /\ entered \in [Devices -> SUBSET Pairs] /\ offered \in [Clients -> Nat]
  BY <1>1, ProxyOf, IsClient DEF IInv, Inv, TypeOK
<1>4. /\ \A d \in Devices : \A x \in entered[d] : x[1] = c => d \in proxy[c].devices
      /\ offered[c] # None => "data" \in proxy[c].devices
  BY <1>3 DEF IInv, FocusChain, Tells, SelectionComes
<1>5. ASSUME UNCHANGED proxy PROVE OnlyProxy(c)
  BY <1>1, <1>3, <1>5, ProxySame DEF SameWindows
<1>6. ASSUME NEW d \in Devices \union {"data"}, GetDevice(c, d)
      PROVE  DeviceEffect(c)
  <2> DEFINE p == [proxy[c] EXCEPT !.devices = @ \union {d}]
  <2>1. p \in Proxy /\ p = [proxy[c] EXCEPT !["devices"] = proxy[c]["devices"] \union {d}]
    BY <1>3 DEF Proxy
  <2>2. p.surfaces = proxy[c].surfaces /\ p.shells = proxy[c].shells /\ p.pools = proxy[c].pools
        /\ p.globals = proxy[c].globals /\ p.devices = proxy[c].devices \union {d}
    BY <1>3 DEF Proxy
  <2>3. Proxied(c, p)
    BY <1>6, <2>1 DEF GetDevice, AddTo
  <2> HIDE DEF p
  <2>4. /\ OnlyProxy(c) /\ proxy'[c] = p
        /\ proxy'[c].surfaces = proxy[c].surfaces /\ proxy'[c].shells = proxy[c].shells
        /\ proxy'[c].pools = proxy[c].pools /\ proxy'[c].globals = proxy[c].globals
    BY <1>1, <1>3, <2>1, <2>2, <2>3, ProxyField
  <2>5. OnlyObjects(c)
    BY <1>1, <1>3, <1>6, ObjectsUnchanged DEF GetDevice
  <2>6. UNCHANGED <<inbox, entered, offered, transfer>>
    BY <1>6 DEF GetDevice
  <2> QED BY <1>1, <1>2, <1>3, <1>4, <2>2, <2>4, <2>5, <2>6 DEF DeviceEffect
<1>7. ASSUME NEW d \in Devices \union {"data"}, ReleaseDevice(c, d)
      PROVE  DeviceEffect(c)
  <2> DEFINE p == [proxy[c] EXCEPT !.devices = @ \ {d}]
  <2>1. p \in Proxy /\ p = [proxy[c] EXCEPT !["devices"] = proxy[c]["devices"] \ {d}]
    BY <1>3 DEF Proxy
  <2>2. p.surfaces = proxy[c].surfaces /\ p.shells = proxy[c].shells /\ p.pools = proxy[c].pools
        /\ p.globals = proxy[c].globals /\ p.devices = proxy[c].devices \ {d}
    BY <1>3 DEF Proxy
  <2>3. Proxied(c, p)
    BY <1>7, <2>1 DEF ReleaseDevice, DropFrom
  <2> HIDE DEF p
  <2>4. /\ OnlyProxy(c) /\ proxy'[c] = p
        /\ proxy'[c].surfaces = proxy[c].surfaces /\ proxy'[c].shells = proxy[c].shells
        /\ proxy'[c].pools = proxy[c].pools /\ proxy'[c].globals = proxy[c].globals
    BY <1>1, <1>3, <2>1, <2>2, <2>3, ProxyField
  <2>5. OnlyObjects(c)
    BY <1>1, <1>3, <1>7, ObjectsUnchanged DEF ReleaseDevice
  <2>6. UNCHANGED <<inbox, transfer>>
    BY <1>7 DEF ReleaseDevice
  <2>7. /\ entered' \in [Devices -> SUBSET Pairs]
        /\ \A e \in Devices : entered'[e] \subseteq entered[e]
        /\ d \in Devices => \A x \in entered'[d] : x[1] # c
    <3>1. entered' = [e \in Devices |-> IF e = d THEN entered[e] \ ({c} \X Sids) ELSE entered[e]]
      BY <1>7 DEF ReleaseDevice
    <3>2. entered' \in [Devices -> SUBSET Pairs] /\ \A e \in Devices : entered'[e] \subseteq entered[e]
      BY <1>3, <3>1
    <3>3. ASSUME d \in Devices, NEW x \in entered'[d] PROVE x[1] # c
      <4>1. x \in Clients \X Sids /\ x \notin {c} \X Sids
        BY <1>3, <3>1, <3>3 DEF Pairs
      <4> QED BY <4>1
    <3> QED BY <3>2, <3>3
  <2>8. ASSUME NEW e \in Devices, NEW x \in entered'[e]
        PROVE  x \in entered[e] /\ (x[1] = c => e \in proxy'[c].devices)
    BY <1>4, <2>2, <2>4, <2>7
  <2>9. offered' = IF d = "data" THEN [offered EXCEPT ![c] = None] ELSE offered
    BY <1>7 DEF ReleaseDevice
  <2>10. /\ offered' \in [Clients -> Nat]
         /\ \A e \in Clients :
            /\ offered'[e] \in {offered[e], None}
            /\ e = c /\ offered'[e] # None => "data" \in proxy'[c].devices
    BY <1>3, <1>4, <2>2, <2>4, <2>9 DEF None
  <2> QED BY <1>1, <1>2, <2>4, <2>5, <2>6, <2>7, <2>8, <2>10 DEF DeviceEffect
<1>8. CASE CreateDataSource(c)
  <2>1. [kind |-> "source"] \in Object
    BY DEF Object
  <2>2. OnlyObjects(c)
    BY <1>1, <1>3, <1>8, <2>1, ObjectMade DEF CreateDataSource
  <2>3. UNCHANGED <<proxy, inbox, entered, offered, transfer>>
    BY <1>8 DEF CreateDataSource
  <2> QED BY <1>1, <1>2, <1>3, <1>4, <1>5, <2>2, <2>3 DEF DeviceEffect
<1>9. ASSUME NEW o \in Oids, DataSourceDestroy(c, o)
      PROVE  DeviceEffect(c)
  <2>1. OnlyObjects(c)
    BY <1>3, <1>9, ObjectGone DEF DataSourceDestroy
  <2>2. UNCHANGED <<proxy, inbox, entered, offered, transfer>>
    BY <1>9 DEF DataSourceDestroy
  <2> QED BY <1>1, <1>2, <1>3, <1>4, <1>5, <2>1, <2>2 DEF DeviceEffect
<1>10. ASSUME NEW o \in Oids, SetSelection(c, o)
       PROVE  DeviceEffect(c)
  <2>1. OnlyObjects(c) /\ UNCHANGED <<entered, offered>>
    BY <1>1, <1>3, <1>10, ObjectsUnchanged DEF SetSelection
  <2>2. CASE Is(c, o, "source")
    <3> DEFINE p == [proxy[c] EXCEPT !.source = o]
    <3>0. o \in Nat
      BY DEF Oids
    <3>1. p \in Proxy
      BY <1>3, <3>0 DEF Proxy
    <3>2. p.surfaces = proxy[c].surfaces /\ p.shells = proxy[c].shells /\ p.pools = proxy[c].pools
          /\ p.globals = proxy[c].globals /\ p.devices = proxy[c].devices
      BY <1>3 DEF Proxy
    <3>3. Proxied(c, p) /\ transfer' = transfer + 1 /\ inbox' = Append(inbox, [kind |-> "offered"])
      BY <1>10, <2>2 DEF SetSelection, Send
    <3> HIDE DEF p
    <3>4. /\ OnlyProxy(c) /\ proxy'[c] = p
          /\ proxy'[c].surfaces = proxy[c].surfaces /\ proxy'[c].shells = proxy[c].shells
          /\ proxy'[c].pools = proxy[c].pools /\ proxy'[c].globals = proxy[c].globals
      BY <1>1, <1>3, <3>1, <3>2, <3>3, ProxyField
    <3> QED BY <1>1, <1>2, <1>3, <1>4, <2>1, <3>2, <3>3, <3>4 DEF DeviceEffect
  <2>3. CASE ~Is(c, o, "source")
    <3>1. UNCHANGED <<proxy, transfer, inbox>>
      BY <1>10, <2>3 DEF SetSelection
    <3> QED BY <1>1, <1>2, <1>3, <1>4, <1>5, <2>1, <3>1 DEF DeviceEffect
  <2> QED BY <2>2, <2>3
<1>11. CASE DataOfferReceive(c)
  <2>1. OnlyObjects(c)
    BY <1>1, <1>3, <1>11, ObjectsUnchanged DEF DataOfferReceive
  <2>2. UNCHANGED <<proxy, entered, offered, transfer>> /\ inbox' = Append(inbox, [kind |-> "requested"])
    BY <1>11 DEF DataOfferReceive, Send
  <2> QED BY <1>1, <1>2, <1>3, <1>4, <1>5, <2>1, <2>2 DEF DeviceEffect
<1> QED BY <1>6, <1>7, <1>8, <1>9, <1>10, <1>11 DEF DeviceRequest

(* The invariant after requests about devices and selections.              *)
LEMMA DeviceStep ==
    ASSUME IInv, NEW c, DeviceEffect(c)
    PROVE  IInv'
<1>1. /\ c \in Connected /\ Connected' = Connected /\ proxy' \in [Connected -> Proxy]
      /\ objects' \in [Connected -> Seq(Object)]
      /\ UNCHANGED <<others, storage, forms, memory, owner>>
  BY DEF DeviceEffect, OnlyProxy, OnlyObjects, Connected
<1>2. \A e \in Connected :
        /\ proxy'[e].surfaces = proxy[e].surfaces /\ proxy'[e].shells = proxy[e].shells
        /\ proxy'[e].pools = proxy[e].pools /\ proxy'[e].globals = proxy[e].globals
        /\ e # c => proxy'[e].devices = proxy[e].devices
  BY DEF DeviceEffect, OnlyProxy
<1>3. /\ UNCHANGED <<focus, displays, outputs, lastClient, group, lastSurface, pools, views, makers, replaced>>
      /\ Known' = Known /\ Stored' = Stored
  BY <1>1 DEF others, storage, clients, memory, Known, Stored
<1>4. /\ Keeps({"keyboard"}, 0) /\ Keeps({"pointer"}, 0) /\ Keeps({"display"}, 0)
      /\ Keeps({"reconfigured"}, 0)
      /\ Keeps({"keyboard", "offered"}, 0) \/ transfer' = transfer + 1
  <2> DEFINE requested == [kind |-> "requested"]
             anOffer == [kind |-> "offered"]
  <2>1. requested \in Message /\ requested.kind = "requested"
        /\ anOffer \in Message /\ anOffer.kind = "offered"
    BY DEF Message
  <2> HIDE DEF requested, anOffer
  <2>2. CASE inbox' = inbox /\ transfer' = transfer
    BY <2>2, QueueSame DEF IInv
  <2>3. CASE inbox' = Append(inbox, requested) /\ transfer' = transfer
    BY <2>1, <2>3, QueueAppended DEF IInv
  <2>4. CASE inbox' = Append(inbox, anOffer) /\ transfer' = transfer + 1
    BY <2>1, <2>4, QueueAppended DEF IInv
  <2> QED BY <2>2, <2>3, <2>4 DEF DeviceEffect, requested, anOffer
<1>5. TypeOK'
  <2>1. transfer' \in Nat
    BY DEF DeviceEffect, IInv, TypeOK
  <2>2. inbox' \in Seq(Message)
    BY <1>4 DEF Keeps
  <2> QED BY <1>1, <1>3, <2>1, <2>2 DEF IInv, TypeOK, DeviceEffect
<1>6. SurfacesOwned'
  <2>1. \A e \in Connected : \A o \in DOMAIN objects'[e] :
            objects'[e][o].kind \in {"xdg", "shell"} => objects'[e][o].surface \in proxy[e].surfaces
    BY DEF DeviceEffect, OnlyObjects, Names, IInv, SurfacesOwned
  <2> QED BY <1>1, <1>2, <1>3, <2>1 DEF IInv, SurfacesOwned
<1>7. MemoryOwned'
  BY <1>1, <1>2, <1>3, MemoryKept DEF IInv
<1>8. OutputsAgree'
  <2>1. \A e \in Connected' : proxy'[e].globals = outputs
    BY <1>1, <1>2 DEF IInv, OutputsAgree
  <2> QED BY <1>3, <1>4, <2>1, OutputsKept DEF IInv
<1>9. SizeCurrent'
  BY <1>1, <1>2, <1>3, <1>4, SizesKept DEF IInv
<1>10. ASSUME NEW d \in Devices PROVE FocusChain(d)'
  <2>1. Keeps({d}, 0)
    BY <1>4 DEF Devices
  <2>2. ASSUME NEW x \in entered'[d]
        PROVE  Tells(d, x[1], x[2])' /\ ClientAfter(x[2]) = ClientOf(x[2])
    <3>1. x \in entered[d] /\ (x[1] = c => d \in proxy'[c].devices)
      BY DEF DeviceEffect
    <3>2. Tells(d, x[1], x[2])
      BY <3>1 DEF IInv, FocusChain
    <3> QED BY <1>1, <1>2, <3>1, <3>2 DEF Tells, ClientAfter, ClientOf
  <2>3. entered'[d] \subseteq entered[d]
    BY DEF DeviceEffect
  <2> QED BY <1>3, <2>1, <2>2, <2>3, FocusChainKept DEF IInv
<1>11. SelectionComes'
  <2>1. \A e \in Clients : offered'[e] # None => e \in Connected' /\ "data" \in proxy'[e].devices
    BY <1>1, <1>2 DEF DeviceEffect, IInv, SelectionComes
  <2>1a. \A e \in Clients : offered'[e] # None => transfer' # None
    <3>1. \A e \in Clients : offered'[e] # None => transfer # None
      BY DEF DeviceEffect, IInv, SelectionComes
    <3>2. transfer \in Nat /\ transfer' \in {transfer, transfer + 1}
      BY DEF DeviceEffect, IInv, TypeOK
    <3> QED BY <3>1, <3>2 DEF None
  <2>2. CASE transfer' = transfer
    <3>1. Keeps({"keyboard", "offered"}, 0)
      BY <1>4, <2>2 DEF IInv, TypeOK
    <3>2. \A s \in DOMAIN owner : owner[s] \in Clients
      BY OwnersAreClients DEF IInv
    <3>3. offered' \in [Clients -> Nat] /\ \A e \in Clients : offered'[e] \in {offered[e], None}
      BY DEF DeviceEffect
    <3>4. Leaves(None)
      BY <1>1, NobodyLeaves
    <3> QED BY <1>3, <2>1, <2>2, <3>1, <3>2, <3>3, <3>4, SelectionKept DEF IInv
  <2>3. CASE transfer' # transfer
    <3>1. inbox' = Append(inbox, [kind |-> "offered"]) /\ inbox \in Seq(Message)
      BY <2>3 DEF DeviceEffect, IInv, TypeOK
    <3>2. Len(inbox') \in DOMAIN inbox' /\ inbox'[Len(inbox')].kind = "offered"
      BY <3>1
    <3>3. Queued({"offered"})'
      BY <3>2 DEF Queued
    <3> QED BY <2>1, <2>1a, <3>3 DEF SelectionComes
  <2> QED BY <2>2, <2>3
<1>12. RegistriesListed'
  <2>1. \A e \in Connected : \A o \in DOMAIN objects'[e] :
            objects'[e][o].kind = "registry" => Listed(objects'[e][o].listed)
    BY DEF DeviceEffect, OnlyObjects, Names, IInv, RegistriesListed
  <2> QED BY <1>1, <1>3, <2>1, RegistriesKept DEF IInv
<1> QED BY <1>5, <1>6, <1>7, <1>8, <1>9, <1>10, <1>11, <1>12 DEF IInv

(* All that clients do.                                                    *)
LEMMA ClientStep ==
    ASSUME IInv, NEW c, Client(c)
    PROVE  IInv'
<1>1. Inv /\ InvM
  BY DEF IInv, Inv, InvM
<1>2. CASE CompositorCreateSurface(c)
  BY <1>2, CreationStep
<1>3. CASE MemoryRequest(c) \/ OutputRequest(c)
  BY <1>1, <1>3, MemoryRequests, OutputRequests, MemoryStep
<1>4. CASE DeviceRequest(c)
  BY <1>4, DeviceRequests, DeviceStep
<1>5. CASE CreatePositioner(c) \/ CreateRegion(c)
  BY <1>1, <1>5, PlainRequests, SurfaceStep
<1>6. ASSUME NEW s \in Sids, SurfaceRequest(c, s) \/ RoleRequest(c, s) PROVE IInv'
  BY <1>1, <1>6, SurfaceRequests, RoleRequests, SurfaceStep
<1>7. ASSUME NEW o \in Oids, XdgRequest(c, o) \/ ShellRequest(c, o) \/ PartRequest(c, o) PROVE IInv'
  BY <1>1, <1>7, XdgRequests, ShellRequests, PartRequests, SurfaceStep
<1> QED BY <1>2, <1>3, <1>4, <1>5, <1>6, <1>7 DEF Client

-----------------------------------------------------------------------------
(* Steps of the exhibitor and of the thread that change no surface, object *)
(* or memory, but queue, focus and what clients are told.                  *)
Telling(k) ==
    /\ UNCHANGED <<surfaces, lastSurface, pools, views, makers, replaced, displays, outputs,
                   transfer, lastClient, objects, owner, group>>
    /\ forms' \in [Stored -> Forms] /\ focus' \in [Devices -> Known \union {Invalid}]
    /\ entered' \in [Devices -> SUBSET Pairs] /\ offered' \in [Clients -> Nat]
    /\ proxy' \in [Connected -> Proxy]
    /\ \A e \in Connected :
        /\ proxy'[e].surfaces = proxy[e].surfaces /\ proxy'[e].pools = proxy[e].pools
        /\ proxy'[e].devices = proxy[e].devices /\ proxy'[e].globals = proxy[e].globals
        /\ DOMAIN proxy'[e].shells = DOMAIN proxy[e].shells
    /\ Keeps({"display"}, k)

LEMMA TellingStep ==
    ASSUME IInv, NEW k, Telling(k)
    PROVE  /\ TypeOK' /\ SurfacesOwned' /\ MemoryOwned' /\ OutputsAgree' /\ RegistriesListed'
           /\ Connected' = Connected /\ Known' = Known /\ Stored' = Stored /\ Leaves(None)
<1>1. /\ Connected' = Connected /\ Known' = Known /\ Stored' = Stored /\ Leaves(None)
      /\ inbox' \in Seq(Message)
  BY NobodyLeaves DEF Telling, Known, Connected, Stored, Keeps
<1>2. TypeOK'
  BY <1>1 DEF Telling, IInv, TypeOK
<1>3. SurfacesOwned'
  BY <1>1 DEF Telling, IInv, SurfacesOwned
<1>4. MemoryOwned'
  BY <1>1, MemoryKept DEF Telling, IInv
<1>5. OutputsAgree'
  <2>1. \A e \in Connected' : proxy'[e].globals = outputs
    BY <1>1 DEF Telling, IInv, OutputsAgree
  <2> QED BY <2>1, OutputsKept DEF Telling, IInv
<1>6. RegistriesListed'
  BY <1>1, RegistriesKept DEF Telling, IInv, RegistriesListed
<1> QED BY <1>1, <1>2, <1>3, <1>4, <1>5, <1>6

(* The messages that the invariant is about.                               *)
Relevant == {"keyboard", "pointer", "display", "reconfigured", "offered"}

LEMMA KeepsFewer == ASSUME NEW K, NEW L \in SUBSET K, NEW k, Keeps(K, k) PROVE Keeps(L, k)
BY DEF Keeps

LEMMA KeepsRelevant ==
    ASSUME NEW k, Keeps(Relevant, k)
    PROVE  /\ Keeps({"display"}, k) /\ Keeps({"reconfigured"}, k) /\ Keeps({"keyboard", "offered"}, k)
           /\ \A d \in Devices : Keeps({d}, k)
<1>1. {"display"} \subseteq Relevant /\ {"reconfigured"} \subseteq Relevant
      /\ {"keyboard", "offered"} \subseteq Relevant /\ \A d \in Devices : {d} \subseteq Relevant
  BY DEF Relevant, Devices
<1> QED BY <1>1, KeepsFewer

(* A step that tells nobody anything that matters here.                    *)
LEMMA QuietStep ==
    ASSUME IInv, NEW k, Keeps(Relevant, k), UNCHANGED <<forms, focus, entered, offered>>,
           UNCHANGED <<surfaces, lastSurface, pools, views, makers, replaced, displays, outputs,
                       transfer, lastClient, objects, owner, group>>,
           proxy' \in [Connected -> Proxy],
           \A e \in Connected :
              /\ proxy'[e].surfaces = proxy[e].surfaces /\ proxy'[e].pools = proxy[e].pools
              /\ proxy'[e].devices = proxy[e].devices /\ proxy'[e].globals = proxy[e].globals
              /\ proxy'[e].shells = proxy[e].shells
    PROVE  IInv'
<1>1. Telling(k)
  BY KeepsRelevant DEF Telling, IInv, TypeOK
<1>2. /\ TypeOK' /\ SurfacesOwned' /\ MemoryOwned' /\ OutputsAgree' /\ RegistriesListed'
      /\ Connected' = Connected /\ Known' = Known /\ Stored' = Stored /\ Leaves(None)
  BY <1>1, TellingStep
<1>3. SizeCurrent'
  BY <1>2, KeepsRelevant, SizesKept DEF IInv
<1>4. \A d \in Devices : FocusChain(d)'
  BY <1>2, KeepsRelevant, FocusUndisturbed
<1>5. SelectionComes'
  BY <1>2, KeepsRelevant, SelectionUndisturbed
<1> QED BY <1>2, <1>3, <1>4, <1>5 DEF IInv

LEMMA QuietSteps ==
    ASSUME IInv,
           \/ \E s \in Sids : Draw(s)
           \/ TakeScreenshot \/ Deliver \/ OnTransferRequested \/ OnScreenshotDone
           \/ \E c \in Clients : HangUp(c) \/ ClientHungUp(c)
    PROVE  IInv'
<1>1. /\ UNCHANGED <<forms, focus, entered, offered>>
      /\ UNCHANGED <<surfaces, lastSurface, pools, views, makers, replaced, displays, outputs,
                     transfer, lastClient, objects, owner, group, proxy>>
  BY DEF Draw, TakeScreenshot, Deliver, OnTransferRequested, OnScreenshotDone, HangUp, ClientHungUp,
         OnlyExhibitor, OnlyTelling, OnlyHandler, OnlyClients, told, memory, mediator, storage, clients, bounds
<1>2. \E k : Keeps(Relevant, k)
  <2>1. CASE OnTransferRequested \/ OnScreenshotDone
    <3>1. "requested" \notin Relevant /\ "screenshot" \notin Relevant
      BY DEF Relevant
    <3> QED BY <2>1, <3>1, QueueTaken DEF OnTransferRequested, OnScreenshotDone, IInv
  <2>2. CASE \E s \in Sids : Draw(s)
    <3>1. PICK s \in Sids : Draw(s)
      BY <2>2
    <3>2. [kind |-> "frame", sid |-> s] \in Message /\ "frame" \notin Relevant
      BY DEF Message, Relevant
    <3> QED BY <3>1, <3>2, QueueAppended DEF Draw, Send, IInv
  <2>3. CASE TakeScreenshot
    <3>1. [kind |-> "screenshot"] \in Message /\ "screenshot" \notin Relevant
      BY DEF Message, Relevant
    <3> QED BY <2>3, <3>1, QueueAppended DEF TakeScreenshot, Send, IInv
  <2>4. CASE Deliver
    BY <2>4, QueueSame DEF Deliver, IInv
  <2>5. ASSUME NEW c \in Clients, HangUp(c) \/ ClientHungUp(c) PROVE \E k : Keeps(Relevant, k)
    <3>1. [kind |-> "terminate", client |-> c] \in Message /\ "terminate" \notin Relevant
      BY DEF Message, Relevant
    <3> QED BY <2>5, <3>1, QueueSame, QueueAppended DEF HangUp, ClientHungUp, Send, IInv
  <2> QED BY <2>1, <2>2, <2>3, <2>4, <2>5
<1>3. proxy' \in [Connected -> Proxy]
  BY <1>1 DEF IInv, TypeOK
<1> QED BY <1>1, <1>2, <1>3, QuietStep

(* What follows a message sent.                                            *)
LEMMA AppendedTo ==
    ASSUME TypeOK, NEW m \in Message, inbox' = Append(inbox, m)
    PROVE  /\ inbox' \in Seq(Message) /\ Len(inbox) \in Nat /\ Len(inbox') = Len(inbox) + 1
           /\ inbox'[Len(inbox) + 1] = m /\ \A i \in 1..Len(inbox) : inbox'[i] = inbox[i]
BY DEF TypeOK

LEMMA KnownAreSids ==
    ASSUME TypeOK
    PROVE  Known \subseteq Sids /\ \A d \in Devices : focus[d] \in Known \union {Invalid}
<1>1. lastSurface \in 0..MaxSurfaces /\ focus \in [Devices -> Known \union {Invalid}]
  BY DEF TypeOK
<1>2. Known \subseteq Sids
  BY <1>1, BoundsAssumption DEF Known, Sids
<1> QED BY <1>1, <1>2

(* The message that the focus changes continues the chain.                 *)
LEMMA FocusSet ==
    ASSUME IInv, NEW d \in Devices, NEW s \in {Invalid} \union Known,
           focus' = [focus EXCEPT ![d] = s],
           inbox' = Append(inbox, [kind |-> d, old |-> focus[d], new |-> s]),
           UNCHANGED <<lastSurface, proxy, owner, entered>>
    PROVE  FocusChain(d)'
<1> DEFINE m == [kind |-> d, old |-> focus[d], new |-> s]
           n == Len(inbox) + 1
<1>1. focus[d] \in Known \union {Invalid} /\ focus'[d] = s /\ Known' = Known /\ Known \subseteq Sids
  BY KnownAreSids DEF IInv, TypeOK, Known
<1>2. m \in Message /\ m.kind = d /\ m.old = focus[d] /\ m.new = s
  BY <1>1 DEF Message
<1> HIDE DEF m
<1>3. /\ inbox' \in Seq(Message) /\ Len(inbox) \in Nat /\ Len(inbox') = n
      /\ inbox'[n] = m /\ \A i \in 1..Len(inbox) : inbox'[i] = inbox[i]
  BY <1>2, AppendedTo DEF IInv, m
<1>4. FocusChain(d)
  BY DEF IInv
<1>5. ASSUME NEW i \in 1..Len(inbox'), inbox'[i].kind = d
      PROVE  /\ {inbox'[i].old, inbox'[i].new} \subseteq Known' \union {Invalid}
             /\ LastOf(d, i)' => inbox'[i].new = focus'[d]
             /\ FirstOf(d, i)' => entered'[d] \subseteq {<<ClientOf(inbox'[i].old), inbox'[i].old>>}
             /\ \A j \in 1..Len(inbox') : Follows(d, i, j)' => inbox'[j].old = inbox'[i].new
  <2>1. CASE i = n
    <3>1. {inbox'[i].old, inbox'[i].new} \subseteq Known' \union {Invalid} /\ inbox'[i].new = focus'[d]
      BY <1>1, <1>2, <1>3, <2>1 DEF Invalid
    <3>2. ASSUME FirstOf(d, i)' PROVE ~Queued({d})
      <4> SUFFICES ASSUME NEW j \in 1..Len(inbox), inbox[j].kind = d PROVE FALSE
        BY DEF Queued, IInv, TypeOK
      <4> QED BY <1>3, <2>1, <3>2 DEF FirstOf
    <3>3. FirstOf(d, i)' => entered'[d] \subseteq {<<ClientOf(inbox'[i].old), inbox'[i].old>>}
      BY <1>2, <1>3, <1>4, <2>1, <3>2 DEF FocusChain
    <3>4. \A j \in 1..Len(inbox') : ~Follows(d, i, j)'
      BY <1>3, <2>1 DEF Follows
    <3> QED BY <3>1, <3>3, <3>4
  <2>2. CASE i # n
    <3>1. i \in 1..Len(inbox) /\ inbox'[i] = inbox[i] /\ inbox[i].kind = d
      BY <1>3, <1>5, <2>2
    <3>2. {inbox'[i].old, inbox'[i].new} \subseteq Known' \union {Invalid}
      BY <1>1, <1>4, <3>1 DEF FocusChain
    <3>3. ~LastOf(d, i)'
      BY <1>2, <1>3, <3>1 DEF LastOf
    <3>4. FirstOf(d, i)' => FirstOf(d, i)
      BY <1>3, <3>1 DEF FirstOf
    <3>5. ASSUME NEW j \in 1..Len(inbox'), Follows(d, i, j)'
          PROVE  inbox'[j].old = inbox'[i].new
      <4>1. CASE j = n
        <5>1. LastOf(d, i)
          BY <1>3, <3>1, <3>5, <4>1 DEF LastOf, Follows
        <5> QED BY <1>2, <1>3, <1>4, <3>1, <4>1, <5>1 DEF FocusChain
      <4>2. CASE j # n
        <5>1. j \in 1..Len(inbox) /\ inbox'[j] = inbox[j]
          BY <1>3, <4>2
        <5>2. Follows(d, i, j)
          BY <1>3, <3>1, <3>5, <5>1 DEF Follows
        <5> QED BY <1>4, <3>1, <5>1, <5>2 DEF FocusChain
      <4> QED BY <4>1, <4>2
    <3> QED BY <1>4, <3>1, <3>2, <3>3, <3>4, <3>5 DEF FocusChain
  <2> QED BY <2>1, <2>2
<1>6. Queued({d})'
  <2>1. n \in DOMAIN inbox' /\ inbox'[n].kind = d
    BY <1>2, <1>3
  <2> QED BY <2>1 DEF Queued
<1>7. \A x \in entered'[d] : Tells(d, x[1], x[2])'
  BY <1>4 DEF FocusChain, Tells, Connected
<1> QED BY <1>5, <1>6, <1>7 DEF FocusChain, ClientOf

(* The selection there is when the keyboard is given away.                 *)
LEMMA KeyboardSet ==
    ASSUME IInv, NEW s \in {Invalid} \union Known, focus' = [focus EXCEPT !["keyboard"] = s],
           inbox' = Append(inbox, [kind |-> "keyboard", old |-> focus["keyboard"], new |-> s]),
           UNCHANGED <<lastSurface, proxy, owner, offered, transfer>>
    PROVE  SelectionComes'
<1> DEFINE m == [kind |-> "keyboard", old |-> focus["keyboard"], new |-> s]
           n == Len(inbox) + 1
           c == ClientOf(s)
<1>1. focus["keyboard"] \in Known \union {Invalid} /\ focus'["keyboard"] = s /\ Known \subseteq Sids
  BY KnownAreSids DEF IInv, TypeOK, Devices
<1>2. m \in Message /\ m.kind = "keyboard" /\ m.old = focus["keyboard"] /\ m.new = s
  BY <1>1 DEF Message, Devices
<1> HIDE DEF m
<1>3. /\ inbox' \in Seq(Message) /\ inbox \in Seq(Message) /\ Len(inbox) \in Nat /\ Len(inbox') = n
      /\ inbox'[n] = m /\ \A i \in 1..Len(inbox) : inbox'[i] = inbox[i]
  BY <1>2, AppendedTo DEF IInv, m, TypeOK
<1>4. ASSUME c # None, ~Queued({"offered"})'
      PROVE  offered[c] \in {None, transfer} \/ \E i \in 1..Len(inbox') : ComesAfter(c, i)
  <2>1. \A t : ClientAfter(t) = ClientOf(t)
    BY DEF ClientAfter, ClientOf
  <2>2. ~Queued({"offered"})
    BY <1>3, <1>4 DEF Queued
  <2>3. CASE ClientOf(focus["keyboard"]) # c
    <3>1. ComesAfter(c, n)
      BY <1>2, <1>3, <2>1, <2>3 DEF ComesAfter
    <3> QED BY <1>3, <3>1
  <2>4. CASE ClientOf(focus["keyboard"]) = c
    <3>1. CASE offered[c] \in {None, transfer}
      BY <3>1
    <3>2. CASE offered[c] \notin {None, transfer}
      <4>1. PICK i \in 1..Len(inbox) : Comes(c, i)
        BY <1>4, <2>2, <2>4, <3>2 DEF IInv, SelectionComes
      <4>2. ComesAfter(c, i)
        <5>1. ASSUME NEW j \in i..Len(inbox'), inbox'[j].kind = "keyboard"
              PROVE  ClientAfter(inbox'[j].new) = c
          <6>1. CASE j = n
            BY <1>2, <1>3, <2>1, <6>1
          <6>2. CASE j # n
            <7>1. j \in i..Len(inbox) /\ inbox'[j] = inbox[j]
              BY <1>3, <6>2
            <7> QED BY <2>1, <4>1, <5>1, <7>1 DEF Comes
          <6> QED BY <6>1, <6>2
        <5> QED BY <1>3, <2>1, <4>1, <5>1 DEF Comes, ComesAfter
      <4> QED BY <1>3, <4>2
    <3> QED BY <3>1, <3>2
  <2> QED BY <2>3, <2>4
<1>5. \A e \in Clients :
        offered'[e] # None => e \in Connected' /\ "data" \in proxy'[e].devices /\ transfer' # None
  BY DEF IInv, SelectionComes, Connected
<1> QED BY <1>1, <1>4, <1>5 DEF SelectionComes, Comes, ComesAfter, ClientOf, ClientAfter

LEMMA SetFocusStep ==
    ASSUME IInv, NEW d \in Devices, NEW s \in {Invalid} \union Known, SetFocus(d, s)
    PROVE  IInv'
<1> DEFINE m == [kind |-> d, old |-> focus[d], new |-> s]
<1>1. /\ focus' = [focus EXCEPT ![d] = s] /\ inbox' = Append(inbox, m)
      /\ UNCHANGED <<surfaces, lastSurface, pools, views, makers, replaced, displays, outputs, forms,
                     transfer, lastClient, objects, owner, group, proxy, entered, offered>>
  BY DEF SetFocus, Send, OnlyExhibitor, told, memory, mediator, clients
<1>2. focus[d] \in Known \union {Invalid} /\ Known \subseteq Sids
      /\ focus' \in [Devices -> Known \union {Invalid}]
  BY <1>1, KnownAreSids DEF IInv, TypeOK
<1>3. m \in Message /\ m.kind = d
  BY <1>2 DEF Message
<1>4. /\ Keeps({"display"}, 0) /\ Keeps({"reconfigured"}, 0)
      /\ \A e \in Devices \ {d} : Keeps({e}, 0)
      /\ d # "keyboard" => Keeps({"keyboard", "offered"}, 0)
  <2> HIDE DEF m
  <2>1. /\ d \notin {"display"} /\ d \notin {"reconfigured"}
        /\ \A e \in Devices \ {d} : d \notin {e}
        /\ d # "keyboard" => d \notin {"keyboard", "offered"}
    BY DEF Devices
  <2> QED BY <1>1, <1>3, <2>1, QueueAppended DEF IInv
<1>5. Telling(0)
  BY <1>1, <1>2, <1>4 DEF Telling, IInv, TypeOK
<1>6. /\ TypeOK' /\ SurfacesOwned' /\ MemoryOwned' /\ OutputsAgree' /\ RegistriesListed'
      /\ Connected' = Connected /\ Known' = Known /\ Stored' = Stored /\ Leaves(None)
  BY <1>5, TellingStep
<1>7. SizeCurrent'
  BY <1>1, <1>4, <1>6, SizesKept DEF IInv
<1>8. ASSUME NEW e \in Devices PROVE FocusChain(e)'
  <2>1. CASE e = d
    BY <1>1, <2>1, FocusSet
  <2>2. CASE e # d
    <3>1. focus'[e] = focus[e] /\ entered'[e] = entered[e]
      BY <1>1, <2>2 DEF IInv, TypeOK
    <3> QED BY <1>1, <1>4, <1>6, <2>2, <3>1, FocusUndisturbed
  <2> QED BY <2>1, <2>2
<1>9. SelectionComes'
  <2>1. CASE d = "keyboard"
    BY <1>1, <2>1, KeyboardSet
  <2>2. CASE d # "keyboard"
    <3>1. focus'["keyboard"] = focus["keyboard"]
      BY <1>1, <2>2 DEF IInv, TypeOK, Devices
    <3>2. \A e \in Connected : e \in Connected' /\ proxy[e].devices \subseteq proxy'[e].devices
      BY <1>1, <1>6
    <3>3. Keeps({"keyboard", "offered"}, 0)
      BY <1>4, <2>2
    <3>4. UNCHANGED <<transfer, offered>>
      BY <1>1
    <3> QED BY <1>6, <3>1, <3>2, <3>3, <3>4, SelectionUndisturbed
  <2> QED BY <2>1, <2>2
<1> QED BY <1>6, <1>7, <1>8, <1>9 DEF IInv

LEMMA ReconfigureStep ==
    ASSUME IInv, NEW s \in Sids, NEW size \in Sizes, Reconfigure(s, size)
    PROVE  IInv'
<1>1. /\ s \in Stored
      /\ UNCHANGED <<surfaces, lastSurface, pools, views, makers, replaced, displays, outputs, focus,
                     transfer, lastClient, objects, owner, group, proxy, entered, offered>>
  BY DEF Reconfigure, OnlyExhibitor, told, memory, mediator, clients
<1>2. CASE forms[s].desired = size
  <2>1. UNCHANGED <<forms, inbox>>
    BY <1>2 DEF Reconfigure
  <2>2. Keeps(Relevant, 0) /\ proxy' \in [Connected -> Proxy]
    BY <1>1, <2>1, QueueSame DEF IInv, TypeOK
  <2> QED BY <1>1, <2>1, <2>2, QuietStep
<1>3. CASE forms[s].desired # size
  <2> DEFINE m == [kind |-> "reconfigured", sid |-> s]
             form == [forms[s] EXCEPT !.desired = size]
  <2>1. inbox' = Append(inbox, m) /\ forms' = [forms EXCEPT ![s] = form]
    BY <1>1, <1>3 DEF Reconfigure, Send, Formed
  <2>2. m \in Message /\ m.kind = "reconfigured" /\ m.sid = s
    BY DEF Message
  <2>3. forms \in [Stored -> Forms] /\ form \in Forms
    BY <1>1, SizesAreNumbers DEF Forms, IInv, TypeOK
  <2>4. forms' \in [Stored -> Forms] /\ \A t \in Stored \ {s} : forms'[t] = forms[t]
    BY <2>1, <2>3
  <2> HIDE DEF m, form
  <2>5. /\ Keeps({"display"}, 0) /\ Keeps({"keyboard", "offered"}, 0)
        /\ \A d \in Devices : Keeps({d}, 0)
    <3>1. "reconfigured" \notin {"display"} /\ "reconfigured" \notin {"keyboard", "offered"}
          /\ \A d \in Devices : "reconfigured" \notin {d}
      BY DEF Devices
    <3> QED BY <2>1, <2>2, <3>1, QueueAppended DEF IInv
  <2>6. Telling(0)
    BY <1>1, <2>4, <2>5 DEF Telling, IInv, TypeOK
  <2>7. /\ TypeOK' /\ SurfacesOwned' /\ MemoryOwned' /\ OutputsAgree' /\ RegistriesListed'
        /\ Connected' = Connected /\ Known' = Known /\ Stored' = Stored /\ Leaves(None)
    BY <2>6, TellingStep
  <2>8. SizeCurrent'
    <3>1. /\ inbox' \in Seq(Message) /\ Len(inbox) \in Nat /\ Len(inbox') = Len(inbox) + 1
          /\ inbox'[Len(inbox) + 1] = m /\ \A i \in 1..Len(inbox) : inbox'[i] = inbox[i]
      BY <2>1, <2>2, AppendedTo DEF IInv
    <3>2. ASSUME NEW c \in Connected, NEW t \in DOMAIN proxy[c].shells \intersect Stored
          PROVE  \/ proxy[c].shells[t].size \in {Unset, forms'[t].desired}
                 \/ forms'[t].desired = OfImage
                 \/ \E i \in DOMAIN inbox' : inbox'[i].kind = "reconfigured" /\ inbox'[i].sid = t
      <4>1. CASE t = s
        <5>1. Len(inbox) + 1 \in DOMAIN inbox'
          BY <3>1
        <5> QED BY <2>2, <3>1, <4>1, <5>1
      <4>2. CASE t # s
        <5>1. forms'[t] = forms[t]
          BY <2>4, <4>2
        <5>2. \A i \in DOMAIN inbox : i \in DOMAIN inbox' /\ inbox'[i] = inbox[i]
          <6>1. inbox \in Seq(Message)
            BY DEF IInv, TypeOK
          <6> QED BY <3>1, <6>1
        <5> QED BY <5>1, <5>2 DEF IInv, SizeCurrent
      <4> QED BY <4>1, <4>2
    <3> QED BY <1>1, <2>7, <3>2 DEF SizeCurrent, Unset, OfImage
  <2>9. \A d \in Devices : FocusChain(d)'
    BY <1>1, <2>5, <2>7, FocusUndisturbed
  <2>10. SelectionComes'
    BY <1>1, <2>5, <2>7, SelectionUndisturbed
  <2> QED BY <2>7, <2>8, <2>9, <2>10 DEF IInv
<1> QED BY <1>2, <1>3

(* The display created has the next number, and so has the last message.   *)
LEMMA CreateDisplayStep ==
    ASSUME IInv, CreateDisplay
    PROVE  IInv'
<1> DEFINE m == [kind |-> "display", output |-> displays + 1]
           n == Len(inbox) + 1
<1>1. /\ UNCHANGED <<surfaces, lastSurface, pools, views, makers, replaced, outputs, focus, forms,
                     transfer, lastClient, objects, owner, group, proxy, entered, offered>>
      /\ displays' = displays + 1 /\ inbox' = Append(inbox, m)
  BY DEF CreateDisplay, Send, OnlyExhibitor, told, memory, mediator, clients
<1>2. displays \in Nat /\ m \in Message /\ m.kind = "display" /\ m.output = displays + 1
  BY DEF IInv, TypeOK, Message
<1> HIDE DEF m
<1>3. /\ inbox' \in Seq(Message) /\ inbox \in Seq(Message) /\ Len(inbox) \in Nat /\ Len(inbox') = n
      /\ inbox'[n] = m /\ \A i \in 1..Len(inbox) : inbox'[i] = inbox[i]
  BY <1>1, <1>2, AppendedTo DEF IInv, TypeOK
<1>4. /\ Keeps({"reconfigured"}, 0) /\ Keeps({"keyboard", "offered"}, 0)
      /\ \A d \in Devices : Keeps({d}, 0)
  <2>1. "display" \notin {"reconfigured"} /\ "display" \notin {"keyboard", "offered"}
        /\ \A d \in Devices : "display" \notin {d}
    BY DEF Devices
  <2> QED BY <1>1, <1>2, <2>1, QueueAppended DEF IInv
<1>5. Connected' = Connected /\ Known' = Known /\ Stored' = Stored /\ Leaves(None)
  BY <1>1, NobodyLeaves DEF Connected, Known, Stored
<1>6. TypeOK'
  BY <1>1, <1>2, <1>3, <1>5 DEF IInv, TypeOK
<1>7. SurfacesOwned'
  BY <1>1, <1>5 DEF IInv, SurfacesOwned
<1>8. MemoryOwned'
  BY <1>1, <1>5, MemoryKept DEF IInv
<1>9. OutputsAgree'
  <2> DEFINE waiting == {i \in DOMAIN inbox : inbox[i].kind = "display"}
             later == {i \in DOMAIN inbox' : inbox'[i].kind = "display"}
  <2>1. later = waiting \union {n} /\ \A i \in waiting : i \in 1..Len(inbox) /\ inbox'[i] = inbox[i]
    BY <1>2, <1>3
  <2>2. {inbox[i].output : i \in waiting} = Len(outputs) + 1 .. displays
        /\ \A i, j \in waiting : i < j => inbox[i].output < inbox[j].output
    BY DEF IInv, OutputsAgree
  <2>3. Len(outputs) \in Nat /\ Len(outputs) <= displays
    BY DEF IInv, TypeOK
  <2>4. {inbox'[i].output : i \in later} = {inbox[i].output : i \in waiting} \union {displays + 1}
    BY <1>2, <1>3, <2>1
  <2>5. {inbox'[i].output : i \in later} = Len(outputs) + 1 .. displays'
    <3>1. Len(outputs) + 1 .. displays + 1 = (Len(outputs) + 1 .. displays) \union {displays + 1}
      BY <1>2, <2>3
    <3> QED BY <1>1, <2>2, <2>4, <3>1
  <2>6. ASSUME NEW i \in later, NEW j \in later, i < j
        PROVE  inbox'[i].output < inbox'[j].output
    <3>1. CASE j = n
      <4>1. i \in waiting /\ inbox'[i] = inbox[i]
        BY <1>3, <2>1, <2>6, <3>1
      <4>2. inbox[i].output \in Len(outputs) + 1 .. displays
        BY <2>2, <4>1
      <4> QED BY <1>2, <1>3, <3>1, <4>1, <4>2
    <3>2. CASE j # n
      <4>1. i \in waiting /\ j \in waiting
        BY <1>3, <2>1, <2>6, <3>2
      <4> QED BY <2>1, <2>2, <2>6, <4>1
    <3> QED BY <3>1, <3>2
  <2>7. /\ \A c \in Connected' : proxy'[c].globals = outputs'
        /\ \A i \in DOMAIN outputs' : outputs'[i] = i
    BY <1>1, <1>5 DEF IInv, OutputsAgree
  <2> QED BY <1>1, <2>5, <2>6, <2>7 DEF OutputsAgree
<1>10. SizeCurrent'
  BY <1>1, <1>4, <1>5, SizesKept DEF IInv
<1>11. \A d \in Devices : FocusChain(d)'
  BY <1>1, <1>4, <1>5, FocusUndisturbed
<1>12. SelectionComes'
  BY <1>1, <1>4, <1>5, SelectionUndisturbed
<1>13. RegistriesListed'
  BY <1>1, <1>5, RegistriesKept DEF IInv, RegistriesListed
<1> QED BY <1>6, <1>7, <1>8, <1>9, <1>10, <1>11, <1>12, <1>13 DEF IInv

LEMMA ToldPairs ==
    ASSUME TypeOK, NEW d \in Devices, NEW old, NEW new
    PROVE  LeftAndEntered(d, old, new) \in SUBSET Pairs
<1>1. ASSUME NEW s, NEW x \in ToldOf(d, s) PROVE x \in Pairs
  <2>1. x = <<ClientOf(s), s>> /\ ClientOf(s) \in Connected /\ s \in proxy[ClientOf(s)].surfaces
    BY DEF ToldOf, Tells
  <2>2. ClientOf(s) \in Clients
    BY <2>1, IsClient
  <2>3. s \in Sids
    BY <2>1, ProxyOf DEF Proxy
  <2> QED BY <2>1, <2>2, <2>3 DEF Pairs
<1> QED BY <1>1 DEF LeftAndEntered, TypeOK

-----------------------------------------------------------------------------
(* What the thread does about messages.                                    *)
LEMMA ConfiguredProxies ==
    ASSUME TypeOK, NEW S, proxy' = Configured(S)
    PROVE  /\ proxy' \in [Connected -> Proxy]
           /\ \A e \in Connected :
                /\ proxy'[e].surfaces = proxy[e].surfaces /\ proxy'[e].pools = proxy[e].pools
                /\ proxy'[e].devices = proxy[e].devices /\ proxy'[e].globals = proxy[e].globals
                /\ DOMAIN proxy'[e].shells = DOMAIN proxy[e].shells
                /\ \A s \in DOMAIN proxy[e].shells :
                    IF s \in S \intersect Stored /\ e = ClientOf(s)
                    THEN proxy'[e].shells[s].size = forms[s].desired
                    ELSE proxy'[e].shells[s] = proxy[e].shells[s]
<1> DEFINE shells(e) ==
               [s \in DOMAIN proxy[e].shells |->
                   IF s \in S \intersect Stored /\ e = ClientOf(s)
                   THEN [proxy[e].shells[s] EXCEPT !.size = forms[s].desired] ELSE proxy[e].shells[s]]
           p(e) == [proxy[e] EXCEPT !.shells = shells(e)]
<1>1. proxy' = [e \in Connected |-> p(e)]
  BY DEF Configured
<1>2. ASSUME NEW e \in Connected
      PROVE  /\ p(e) \in Proxy
             /\ p(e).surfaces = proxy[e].surfaces /\ p(e).pools = proxy[e].pools
             /\ p(e).devices = proxy[e].devices /\ p(e).globals = proxy[e].globals
             /\ DOMAIN p(e).shells = DOMAIN proxy[e].shells
             /\ \A s \in DOMAIN proxy[e].shells :
                    IF s \in S \intersect Stored /\ e = ClientOf(s)
                    THEN p(e).shells[s].size = forms[s].desired
                    ELSE p(e).shells[s] = proxy[e].shells[s]
  <2>1. proxy[e] \in Proxy
    BY ProxyOf
  <2>2. DOMAIN proxy[e].shells \in SUBSET Sids /\ proxy[e].shells \in [DOMAIN proxy[e].shells -> Window]
    BY <2>1 DEF Proxy
  <2>3. \A s \in Stored : forms[s].desired \in Nat
    BY DEF TypeOK, Forms
  <2>4. shells(e) \in [DOMAIN proxy[e].shells -> Window]
    BY <2>2, <2>3 DEF Window
  <2>5. \A s \in DOMAIN proxy[e].shells :
            IF s \in S \intersect Stored /\ e = ClientOf(s)
            THEN shells(e)[s].size = forms[s].desired ELSE shells(e)[s] = proxy[e].shells[s]
    BY <2>2 DEF Window
  <2> HIDE DEF shells
  <2>6. shells(e) \in UNION {[T -> Window] : T \in SUBSET Sids}
    BY <2>2, <2>4
  <2>7. p(e) \in Proxy /\ p(e).shells = shells(e)
        /\ p(e).surfaces = proxy[e].surfaces /\ p(e).pools = proxy[e].pools
        /\ p(e).devices = proxy[e].devices /\ p(e).globals = proxy[e].globals
    BY <2>1, <2>6 DEF Proxy
  <2> HIDE DEF p
  <2> QED BY <2>4, <2>5, <2>7
<1> HIDE DEF p
<1> QED BY <1>1, <1>2

LEMMA ReceiveReconfigured ==
    ASSUME IInv, OnSurfaceReconfigured
    PROVE  IInv'
<1> DEFINE t == Head(inbox).sid
<1>1. /\ UNCHANGED <<surfaces, lastSurface, pools, views, makers, replaced, displays, outputs, focus, forms,
                     transfer, lastClient, objects, owner, group, entered, offered>>
      /\ Receives("reconfigured") /\ proxy' = Configured({t})
  BY DEF OnSurfaceReconfigured, OnlyTelling, OnlyHandler, storage, told, memory, mediator, clients, bounds
<1>2. /\ proxy' \in [Connected -> Proxy]
      /\ \A e \in Connected :
            /\ proxy'[e].surfaces = proxy[e].surfaces /\ proxy'[e].pools = proxy[e].pools
            /\ proxy'[e].devices = proxy[e].devices /\ proxy'[e].globals = proxy[e].globals
            /\ DOMAIN proxy'[e].shells = DOMAIN proxy[e].shells
            /\ \A s \in DOMAIN proxy[e].shells :
                IF s \in {t} \intersect Stored /\ e = ClientOf(s)
                THEN proxy'[e].shells[s].size = forms[s].desired
                ELSE proxy'[e].shells[s] = proxy[e].shells[s]
  BY <1>1, ConfiguredProxies DEF IInv
<1>3. /\ Keeps({"display"}, 1) /\ Keeps({"keyboard", "offered"}, 1)
      /\ \A d \in Devices : Keeps({d}, 1)
  <2>1. /\ "reconfigured" \notin {"display"} /\ "reconfigured" \notin {"keyboard", "offered"}
        /\ \A d \in Devices : "reconfigured" \notin {d}
    BY DEF Devices
  <2> QED BY <1>1, <2>1, QueueTaken DEF IInv
<1>4. Telling(1)
  BY <1>1, <1>2, <1>3 DEF Telling, IInv, TypeOK
<1>5. /\ TypeOK' /\ SurfacesOwned' /\ MemoryOwned' /\ OutputsAgree' /\ RegistriesListed'
      /\ Connected' = Connected /\ Known' = Known /\ Stored' = Stored /\ Leaves(None)
  BY <1>4, TellingStep
<1>6. SizeCurrent'
  <2>1. /\ inbox' \in Seq(Message) /\ Head(inbox) = inbox[1]
        /\ Len(inbox) \in Nat \ {0} /\ Len(inbox') = Len(inbox) - 1
        /\ \A i \in 1..Len(inbox') : inbox'[i] = inbox[i + 1]
    BY <1>1, TailOf DEF IInv, Receives
  <2>2. inbox \in Seq(Message)
    BY DEF IInv, TypeOK
  <2>3. ASSUME NEW c \in Connected, NEW s \in DOMAIN proxy'[c].shells \intersect Stored,
               proxy'[c].shells[s].size \notin {Unset, forms[s].desired}, forms[s].desired # OfImage
        PROVE  \E i \in DOMAIN inbox' : inbox'[i].kind = "reconfigured" /\ inbox'[i].sid = s
    <3>1. s \in DOMAIN proxy[c].shells /\ s \in Stored
      BY <1>2, <2>3
    <3>2. ClientOf(s) = c
      BY <3>1, OwnedKnown DEF IInv, SurfacesOwned
    <3>3. s # t /\ proxy'[c].shells[s] = proxy[c].shells[s]
      BY <1>2, <2>3, <3>1, <3>2
    <3>4. PICK i \in DOMAIN inbox : inbox[i].kind = "reconfigured" /\ inbox[i].sid = s
      BY <2>3, <3>1, <3>3 DEF IInv, SizeCurrent
    <3>4a. i \in 1..Len(inbox) /\ i # 1
      BY <2>1, <2>2, <3>3, <3>4
    <3>5. i - 1 \in 1..Len(inbox') /\ (i - 1) + 1 = i
      BY <2>1, <3>4a
    <3>6. inbox'[i - 1] = inbox[i]
      BY <2>1, <3>5
    <3> QED BY <2>1, <3>4, <3>5, <3>6
  <2> QED BY <1>1, <1>5, <2>3 DEF SizeCurrent, OfImage, Unset
<1>7. \A d \in Devices : FocusChain(d)'
  BY <1>1, <1>2, <1>3, <1>5, FocusUndisturbed
<1>8. SelectionComes'
  BY <1>1, <1>2, <1>3, <1>5, SelectionUndisturbed
<1> QED BY <1>5, <1>6, <1>7, <1>8 DEF IInv

(* The first message about the focus of d is taken, and told.              *)
LEMMA FocusTaken ==
    ASSUME IInv, NEW d \in Devices, Receives(d), UNCHANGED <<lastSurface, focus, owner>>,
           entered'[d] = LeftAndEntered(d, Head(inbox).old, Head(inbox).new),
           Connected' = Connected,
           \A c \in Connected : proxy'[c].surfaces = proxy[c].surfaces /\ proxy'[c].devices = proxy[c].devices
    PROVE  FocusChain(d)'
<1> DEFINE old == Head(inbox).old
           new == Head(inbox).new
<1>1. /\ inbox' \in Seq(Message) /\ Head(inbox) = inbox[1]
      /\ Len(inbox) \in Nat \ {0} /\ Len(inbox') = Len(inbox) - 1
      /\ \A i \in 1..Len(inbox') : inbox'[i] = inbox[i + 1]
  BY TailOf DEF IInv, Receives
<1>2. FocusChain(d) /\ inbox[1].kind = d /\ 1 \in 1..Len(inbox) /\ inbox \in Seq(Message)
  BY <1>1 DEF IInv, TypeOK, Receives
<1>3. entered[d] \subseteq {<<ClientOf(old), old>>}
  <2>1. FirstOf(d, 1)
    BY <1>2 DEF FirstOf
  <2> QED BY <1>1, <1>2, <2>1 DEF FocusChain
<1>4. entered'[d] = ToldOf(d, new)
  <2>1. ASSUME NEW x \in entered[d] PROVE x \in ToldOf(d, old)
    <3>1. x = <<ClientOf(old), old>> /\ Tells(d, x[1], x[2])
      BY <1>2, <1>3 DEF FocusChain
    <3> QED BY <3>1 DEF ToldOf
  <2> QED BY <2>1 DEF LeftAndEntered
<1>5. entered'[d] \subseteq {<<ClientOf(new), new>>}
  BY <1>4 DEF ToldOf
<1>6. \A x \in entered'[d] : Tells(d, x[1], x[2])'
  <2>1. \A x \in entered'[d] : Tells(d, x[1], x[2])
    BY <1>4 DEF ToldOf
  <2> QED BY <2>1 DEF Tells
<1>7. ASSUME NEW i \in 1..Len(inbox'), inbox'[i].kind = d
      PROVE  /\ {inbox'[i].old, inbox'[i].new} \subseteq Known' \union {Invalid}
             /\ LastOf(d, i)' => inbox'[i].new = focus'[d]
             /\ FirstOf(d, i)' => entered'[d] \subseteq {<<ClientOf(inbox'[i].old), inbox'[i].old>>}
             /\ \A j \in 1..Len(inbox') : Follows(d, i, j)' => inbox'[j].old = inbox'[i].new
  <2>1. i + 1 \in 1..Len(inbox) /\ inbox[i + 1] = inbox'[i]
    BY <1>1
  <2>2. {inbox'[i].old, inbox'[i].new} \subseteq Known' \union {Invalid}
    BY <1>2, <1>7, <2>1 DEF FocusChain, Known
  <2>3. LastOf(d, i)' => LastOf(d, i + 1)
    <3> SUFFICES ASSUME LastOf(d, i)', NEW j \in (i + 1 + 1)..Len(inbox), inbox[j].kind = d
                 PROVE  FALSE
      BY <1>7, <2>1 DEF LastOf
    <3>1. j - 1 \in (i + 1)..Len(inbox') /\ j - 1 \in 1..Len(inbox') /\ (j - 1) + 1 = j
      BY <1>1
    <3>2. inbox'[j - 1] = inbox[j]
      BY <1>1, <3>1
    <3> QED BY <3>1, <3>2 DEF LastOf
  <2>4. FirstOf(d, i)' => Follows(d, 1, i + 1)
    <3> SUFFICES ASSUME FirstOf(d, i)', NEW j \in (1 + 1)..((i + 1) - 1), inbox[j].kind = d
                 PROVE  FALSE
      BY <1>2, <1>7, <2>1 DEF Follows
    <3>1. j - 1 \in 1..(i - 1) /\ j - 1 \in 1..Len(inbox') /\ (j - 1) + 1 = j
      BY <1>1
    <3>2. inbox'[j - 1] = inbox[j]
      BY <1>1, <3>1
    <3> QED BY <3>1, <3>2 DEF FirstOf
  <2>5. ASSUME NEW j \in 1..Len(inbox'), Follows(d, i, j)'
        PROVE  inbox'[j].old = inbox'[i].new
    <3>1. j + 1 \in 1..Len(inbox) /\ inbox[j + 1] = inbox'[j]
      BY <1>1
    <3>2. Follows(d, i + 1, j + 1)
      <4> SUFFICES ASSUME NEW n \in (i + 1 + 1)..((j + 1) - 1), inbox[n].kind = d
                   PROVE  FALSE
        BY <1>7, <2>1, <2>5, <3>1 DEF Follows
      <4>1. n - 1 \in (i + 1)..(j - 1) /\ n - 1 \in 1..Len(inbox') /\ (n - 1) + 1 = n
        BY <1>1
      <4>2. inbox'[n - 1] = inbox[n]
        BY <1>1, <4>1
      <4> QED BY <2>5, <4>1, <4>2 DEF Follows
    <3> QED BY <1>2, <1>7, <2>1, <3>1, <3>2 DEF FocusChain
  <2>6. LastOf(d, i)' => inbox'[i].new = focus'[d]
    BY <1>2, <1>7, <2>1, <2>3 DEF FocusChain
  <2>7. ASSUME FirstOf(d, i)'
        PROVE  entered'[d] \subseteq {<<ClientOf(inbox'[i].old), inbox'[i].old>>}
    <3>1. inbox[i + 1].old = new
      BY <1>1, <1>2, <2>1, <2>4, <2>7 DEF FocusChain
    <3> QED BY <1>5, <2>1, <3>1
  <2> QED BY <2>2, <2>5, <2>6, <2>7
<1>8. ASSUME ~Queued({d})' PROVE entered'[d] \subseteq {<<ClientOf(focus'[d]), focus'[d]>>}
  <2>1. LastOf(d, 1)
    <3> SUFFICES ASSUME NEW j \in (1 + 1)..Len(inbox), inbox[j].kind = d PROVE FALSE
      BY <1>2 DEF LastOf
    <3>1. j - 1 \in 1..Len(inbox') /\ (j - 1) + 1 = j
      BY <1>1
    <3>2. inbox'[j - 1] = inbox[j]
      BY <1>1, <3>1
    <3> QED BY <1>1, <1>8, <3>1, <3>2 DEF Queued
  <2>2. new = focus[d]
    BY <1>1, <1>2, <2>1 DEF FocusChain
  <2> QED BY <1>5, <2>2
<1> QED BY <1>6, <1>7, <1>8 DEF FocusChain, ClientOf

LEMMA ReceivePointer ==
    ASSUME IInv, OnPointerFocusChanged
    PROVE  IInv'
<1>1. /\ UNCHANGED <<surfaces, lastSurface, pools, views, makers, replaced, displays, outputs, focus, forms,
                     transfer, lastClient, objects, owner, group, proxy, offered>>
      /\ Receives("pointer")
      /\ entered' = [entered EXCEPT !["pointer"] =
                         LeftAndEntered("pointer", Head(inbox).old, Head(inbox).new)]
  BY DEF OnPointerFocusChanged, OnlyTelling, OnlyHandler, storage, told, memory, mediator, clients, bounds
<1>2. /\ Keeps({"display"}, 1) /\ Keeps({"keyboard", "offered"}, 1) /\ Keeps({"reconfigured"}, 1)
      /\ Keeps({"keyboard"}, 1)
  BY <1>1, QueueTaken DEF IInv
<1>3. entered' \in [Devices -> SUBSET Pairs]
  BY <1>1, ToldPairs DEF IInv, TypeOK
<1>4. Telling(1)
  BY <1>1, <1>2, <1>3 DEF Telling, IInv, TypeOK
<1>5. /\ TypeOK' /\ SurfacesOwned' /\ MemoryOwned' /\ OutputsAgree' /\ RegistriesListed'
      /\ Connected' = Connected /\ Known' = Known /\ Stored' = Stored /\ Leaves(None)
  BY <1>4, TellingStep
<1>6. SizeCurrent'
  BY <1>1, <1>2, <1>5, SizesKept DEF IInv
<1>7. entered'["pointer"] = LeftAndEntered("pointer", Head(inbox).old, Head(inbox).new)
      /\ entered'["keyboard"] = entered["keyboard"]
  BY <1>1 DEF IInv, TypeOK, Devices
<1>8. FocusChain("pointer")'
  BY <1>1, <1>5, <1>7, FocusTaken DEF Devices
<1>9. FocusChain("keyboard")'
  BY <1>1, <1>2, <1>5, <1>7, FocusUndisturbed DEF Devices
<1>10. SelectionComes'
  BY <1>1, <1>2, <1>5, SelectionUndisturbed
<1> QED BY <1>5, <1>6, <1>8, <1>9, <1>10 DEF IInv, Devices

(* A client gets the selection there is, if it has a data device.          *)
LEMMA OfferedTo ==
    ASSUME IInv, NEW c \in Clients, offered' = Offered(c), transfer' = transfer, Connected' = Connected,
           \A e \in Connected : proxy'[e].devices = proxy[e].devices
    PROVE  /\ offered' \in [Clients -> Nat] /\ offered'[c] \in {None, transfer}
           /\ \A e \in Clients : offered'[e] \in {offered[e], transfer}
           /\ \A e \in Clients : offered'[e] # None =>
                  e \in Connected' /\ "data" \in proxy'[e].devices /\ transfer' # None
<1>1. offered \in [Clients -> Nat] /\ transfer \in Nat
  BY DEF IInv, TypeOK
<1>2. \A e \in Clients :
          offered[e] # None => e \in Connected /\ "data" \in proxy[e].devices /\ transfer # None
  BY DEF IInv, SelectionComes
<1>3. CASE c \in Connected /\ "data" \in proxy[c].devices /\ transfer # None
  BY <1>1, <1>2, <1>3 DEF Offered
<1>4. CASE ~(c \in Connected /\ "data" \in proxy[c].devices /\ transfer # None)
  BY <1>1, <1>2, <1>4 DEF Offered
<1> QED BY <1>3, <1>4

LEMMA ReceiveKeyboard ==
    ASSUME IInv, OnKeyboardFocusChanged
    PROVE  IInv'
<1> DEFINE old == Head(inbox).old
           new == Head(inbox).new
           S == {s \in {old, new} : Tells("keyboard", ClientOf(s), s)}
<1>1. /\ UNCHANGED <<surfaces, lastSurface, pools, views, makers, replaced, displays, outputs, focus, forms,
                     transfer, lastClient, objects, owner, group>>
      /\ Receives("keyboard") /\ proxy' = Configured(S)
      /\ entered' = [entered EXCEPT !["keyboard"] = LeftAndEntered("keyboard", old, new)]
      /\ offered' = OfferedOnFocus(old, new)
  BY DEF OnKeyboardFocusChanged, OnlyTelling, OnlyHandler, storage, told, memory, mediator, clients, bounds
<1> HIDE DEF S
<1>2. /\ proxy' \in [Connected -> Proxy]
      /\ \A e \in Connected :
            /\ proxy'[e].surfaces = proxy[e].surfaces /\ proxy'[e].pools = proxy[e].pools
            /\ proxy'[e].devices = proxy[e].devices /\ proxy'[e].globals = proxy[e].globals
            /\ DOMAIN proxy'[e].shells = DOMAIN proxy[e].shells
            /\ \A s \in DOMAIN proxy[e].shells :
                IF s \in S \intersect Stored /\ e = ClientOf(s)
                THEN proxy'[e].shells[s].size = forms[s].desired
                ELSE proxy'[e].shells[s] = proxy[e].shells[s]
  BY <1>1, ConfiguredProxies DEF IInv
<1>3. Connected' = Connected /\ \A s \in DOMAIN owner : owner[s] \in Clients
  BY <1>2, OwnersAreClients DEF Connected, IInv
<1>4. Keeps({"display"}, 1) /\ Keeps({"reconfigured"}, 1) /\ Keeps({"pointer"}, 1)
  BY <1>1, QueueTaken DEF IInv
<1>5. entered' \in [Devices -> SUBSET Pairs]
  BY <1>1, ToldPairs DEF IInv, TypeOK, Devices
<1>6. /\ offered' \in [Clients -> Nat] /\ \A e \in Clients : offered'[e] \in {offered[e], transfer}
      /\ \A e \in Clients : offered'[e] # None =>
             e \in Connected' /\ "data" \in proxy'[e].devices /\ transfer' # None
      /\ (ClientOf(old) # ClientOf(new) /\ ClientOf(new) # None => offered'[ClientOf(new)] \in {None, transfer})
  <2>1. CASE ClientOf(old) # ClientOf(new) /\ ClientOf(new) # None
    <3>1. ClientOf(new) \in Clients /\ offered' = Offered(ClientOf(new))
      BY <1>1, <1>3, <2>1 DEF ClientOf, OfferedOnFocus
    <3> QED BY <1>1, <1>2, <1>3, <3>1, OfferedTo
  <2>2. CASE ~(ClientOf(old) # ClientOf(new) /\ ClientOf(new) # None)
    <3>1. offered' = offered
      BY <1>1, <2>2 DEF OfferedOnFocus
    <3>2. \A e \in Clients :
              offered[e] # None => e \in Connected /\ "data" \in proxy[e].devices /\ transfer # None
      BY DEF IInv, SelectionComes
    <3> QED BY <1>1, <1>2, <1>3, <2>2, <3>1, <3>2 DEF IInv, TypeOK
  <2> QED BY <2>1, <2>2
<1>7. Telling(1)
  BY <1>1, <1>2, <1>4, <1>5, <1>6 DEF Telling, IInv, TypeOK
<1>8. /\ TypeOK' /\ SurfacesOwned' /\ MemoryOwned' /\ OutputsAgree' /\ RegistriesListed'
      /\ Connected' = Connected /\ Known' = Known /\ Stored' = Stored /\ Leaves(None)
  BY <1>7, TellingStep
<1>9. SizeCurrent'
  <2>1. \A c \in Connected' : \A s \in DOMAIN proxy'[c].shells \intersect Stored' :
            \/ proxy'[c].shells[s].size = forms'[s].desired
            \/ /\ c \in Connected /\ s \in DOMAIN proxy[c].shells \intersect Stored
               /\ proxy'[c].shells[s] = proxy[c].shells[s] /\ forms'[s].desired = forms[s].desired
    BY <1>1, <1>2, <1>8
  <2> QED BY <1>4, <2>1, SizesKept DEF IInv
<1>10. /\ entered'["keyboard"] = LeftAndEntered("keyboard", old, new)
       /\ entered'["pointer"] = entered["pointer"]
  BY <1>1 DEF IInv, TypeOK, Devices
<1>11. FocusChain("keyboard")'
  BY <1>1, <1>2, <1>8, <1>10, FocusTaken DEF Devices
<1>12. FocusChain("pointer")'
  BY <1>1, <1>2, <1>4, <1>8, <1>10, FocusUndisturbed DEF Devices
<1>13. SelectionComes'
  <2> DEFINE c == ClientOf(focus["keyboard"])
  <2>1. /\ inbox' \in Seq(Message) /\ inbox \in Seq(Message) /\ Head(inbox) = inbox[1]
        /\ Len(inbox) \in Nat \ {0} /\ Len(inbox') = Len(inbox) - 1
        /\ \A i \in 1..Len(inbox') : inbox'[i] = inbox[i + 1]
    BY <1>1, TailOf DEF IInv, TypeOK, Receives
  <2>2. \A t : ClientAfter(t) = ClientOf(t)
    BY <1>1 DEF ClientAfter, ClientOf
  <2>3. inbox[1].kind = "keyboard"
    BY <1>1, <2>1 DEF Receives
  <2>4. ASSUME c # None, ~Queued({"offered"})'
        PROVE  offered'[c] \in {None, transfer'} \/ \E i \in 1..Len(inbox') : ComesAfter(c, i)
    <3>1. c \in Clients
      BY <1>3, <2>4 DEF ClientOf
    <3>2. ~Queued({"offered"})
      <4> SUFFICES ASSUME NEW i \in 1..Len(inbox), inbox[i].kind = "offered" PROVE FALSE
        BY <2>1 DEF Queued
      <4>1. i - 1 \in 1..Len(inbox') /\ (i - 1) + 1 = i
        BY <2>1, <2>3
      <4>2. inbox'[i - 1] = inbox[i]
        BY <2>1, <4>1
      <4> QED BY <2>1, <2>4, <4>1, <4>2 DEF Queued
    <3>3. CASE offered[c] \in {None, transfer}
      BY <1>1, <1>6, <3>1, <3>3
    <3>4. CASE offered[c] \notin {None, transfer}
      <4>1. PICK i \in 1..Len(inbox) : Comes(c, i)
        BY <2>4, <3>2, <3>4 DEF IInv, SelectionComes
      <4>2. CASE i = 1
        <5>1. ClientOf(old) # ClientOf(new) /\ ClientOf(new) = c
          BY <2>1, <2>3, <4>1, <4>2 DEF Comes
        <5> QED BY <1>1, <1>6, <2>4, <5>1
      <4>3. CASE i # 1
        <5>1. i - 1 \in 1..Len(inbox') /\ (i - 1) + 1 = i
          BY <2>1, <4>3
        <5>2. inbox'[i - 1] = inbox[i]
          BY <2>1, <5>1
        <5>3. ASSUME NEW j \in (i - 1)..Len(inbox'), inbox'[j].kind = "keyboard"
              PROVE  ClientAfter(inbox'[j].new) = c
          <6>1. j \in 1..Len(inbox') /\ j + 1 \in i..Len(inbox)
            BY <2>1, <5>1
          <6>2. inbox'[j] = inbox[j + 1]
            BY <2>1, <6>1
          <6> QED BY <2>2, <4>1, <5>3, <6>1, <6>2 DEF Comes
        <5>4. ComesAfter(c, i - 1)
          BY <2>2, <4>1, <5>2, <5>3 DEF Comes, ComesAfter
        <5> QED BY <5>1, <5>4
      <4> QED BY <4>2, <4>3
    <3> QED BY <3>3, <3>4
  <2> QED BY <1>1, <1>6, <2>4 DEF SelectionComes, Comes, ComesAfter, ClientOf, ClientAfter
<1> QED BY <1>8, <1>9, <1>11, <1>12, <1>13 DEF IInv, Devices

LEMMA ReceiveOffered ==
    ASSUME IInv, OnTransferOffered
    PROVE  IInv'
<1> DEFINE c == ClientOf(focus["keyboard"])
<1>1. /\ UNCHANGED <<surfaces, lastSurface, pools, views, makers, replaced, displays, outputs, focus, forms,
                     transfer, lastClient, objects, owner, group, proxy, entered>>
      /\ Receives("offered") /\ offered' = IF c # None THEN Offered(c) ELSE offered
  BY DEF OnTransferOffered, OnlyTelling, OnlyHandler, storage, told, memory, mediator, clients, bounds
<1>2. \A s \in DOMAIN owner : owner[s] \in Clients
  BY OwnersAreClients DEF IInv
<1>3. /\ Keeps({"display"}, 1) /\ Keeps({"reconfigured"}, 1)
      /\ \A d \in Devices : Keeps({d}, 1)
  <2>1. "offered" \notin {"display"} /\ "offered" \notin {"reconfigured"}
        /\ \A d \in Devices : "offered" \notin {d}
    BY DEF Devices
  <2> QED BY <1>1, <2>1, QueueTaken DEF IInv
<1>4. /\ offered' \in [Clients -> Nat]
      /\ \A e \in Clients : offered'[e] # None =>
             e \in Connected' /\ "data" \in proxy'[e].devices /\ transfer' # None
      /\ (c # None => offered'[c] \in {None, transfer})
  <2>1. CASE c # None
    <3>1. c \in Clients /\ offered' = Offered(c)
      BY <1>1, <1>2, <2>1 DEF ClientOf
    <3>2. Connected' = Connected /\ \A e \in Connected : proxy'[e].devices = proxy[e].devices
      BY <1>1 DEF Connected
    <3> QED BY <1>1, <3>1, <3>2, OfferedTo
  <2>2. CASE c = None
    <3>1. \A e \in Clients :
              offered[e] # None => e \in Connected /\ "data" \in proxy[e].devices /\ transfer # None
      BY DEF IInv, SelectionComes
    <3> QED BY <1>1, <2>2, <3>1 DEF IInv, TypeOK, Connected
  <2> QED BY <2>1, <2>2
<1>5. Telling(1)
  BY <1>1, <1>3, <1>4 DEF Telling, IInv, TypeOK
<1>6. /\ TypeOK' /\ SurfacesOwned' /\ MemoryOwned' /\ OutputsAgree' /\ RegistriesListed'
      /\ Connected' = Connected /\ Known' = Known /\ Stored' = Stored /\ Leaves(None)
  BY <1>5, TellingStep
<1>7. SizeCurrent'
  BY <1>1, <1>3, <1>6, SizesKept DEF IInv
<1>8. \A d \in Devices : FocusChain(d)'
  BY <1>1, <1>3, <1>6, FocusUndisturbed
<1>9. SelectionComes'
  BY <1>1, <1>4 DEF SelectionComes, ClientOf
<1> QED BY <1>6, <1>7, <1>8, <1>9 DEF IInv

LEMMA ReceiveFrame ==
    ASSUME IInv, OnSurfaceFrame
    PROVE  IInv'
<1> DEFINE s == Head(inbox).sid
           c == ClientOf(s)
           p == [proxy[c] EXCEPT !.frames = @ \ {s}, !.held = @ \ {s}]
<1>1. /\ UNCHANGED <<forms, focus, entered, offered>>
      /\ UNCHANGED <<surfaces, lastSurface, pools, views, makers, replaced, displays, outputs,
                     transfer, lastClient, objects, owner, group>>
      /\ Receives("frame")
  BY DEF OnSurfaceFrame, OnlyTelling, OnlyHandler, storage, told, memory, mediator, clients, bounds
<1>2. Keeps(Relevant, 1)
  BY <1>1, QueueTaken DEF IInv, Relevant
<1>3. CASE c \in Connected
  <2>1. proxy[c] \in Proxy /\ proxy' = [proxy EXCEPT ![c] = p] /\ proxy \in [Connected -> Proxy]
    BY <1>3, ProxyOf DEF OnSurfaceFrame, Proxied, IInv, TypeOK
  <2>2. /\ p \in Proxy /\ p.surfaces = proxy[c].surfaces /\ p.pools = proxy[c].pools
        /\ p.devices = proxy[c].devices /\ p.globals = proxy[c].globals /\ p.shells = proxy[c].shells
    BY <2>1 DEF Proxy
  <2> HIDE DEF p
  <2>3. /\ proxy' \in [Connected -> Proxy] /\ proxy'[c] = p
        /\ \A e \in Connected \ {c} : proxy'[e] = proxy[e]
    BY <1>3, <2>1, <2>2
  <2> QED BY <1>1, <1>2, <2>2, <2>3, QuietStep
<1>4. CASE c \notin Connected
  <2>1. proxy' = proxy /\ proxy' \in [Connected -> Proxy]
    BY <1>4 DEF OnSurfaceFrame, IInv, TypeOK
  <2> QED BY <1>1, <1>2, <2>1, QuietStep
<1> QED BY <1>3, <1>4

(* The first display that waits is the next of the outputs.                *)
LEMMA ReceiveDisplay ==
    ASSUME IInv, OnDisplayCreated
    PROVE  IInv'
<1> DEFINE output == Head(inbox).output
           p(e) == [proxy[e] EXCEPT !.globals = Append(@, output)]
           waiting == {i \in DOMAIN inbox : inbox[i].kind = "display"}
           later == {i \in DOMAIN inbox' : inbox'[i].kind = "display"}
<1>1. /\ UNCHANGED <<surfaces, lastSurface, pools, views, makers, replaced, displays, focus, forms,
                     transfer, lastClient, objects, owner, group, entered, offered>>
      /\ Receives("display") /\ outputs' = Append(outputs, output)
      /\ proxy' = [e \in Connected |-> p(e)]
  BY DEF OnDisplayCreated, OnlyHandler, storage, told, memory, mediator, clients, bounds
<1>2. /\ inbox' \in Seq(Message) /\ inbox \in Seq(Message) /\ Head(inbox) = inbox[1] /\ inbox[1] \in Message
      /\ inbox[1].kind = "display" /\ Len(inbox) \in Nat \ {0} /\ Len(inbox') = Len(inbox) - 1
      /\ \A i \in 1..Len(inbox') : inbox'[i] = inbox[i + 1]
  BY <1>1, TailOf DEF IInv, TypeOK, Receives
<1>3. output \in Nat
  BY <1>2 DEF Message, Devices
<1>4. /\ outputs \in Seq(Nat) /\ Len(outputs) <= displays /\ displays \in Nat
      /\ \A i \in DOMAIN outputs : outputs[i] = i
      /\ {inbox[i].output : i \in waiting} = Len(outputs) + 1 .. displays
      /\ \A i, j \in waiting : i < j => inbox[i].output < inbox[j].output
  BY DEF IInv, TypeOK, OutputsAgree
<1>5. 1 \in waiting /\ inbox[1].output = output
  BY <1>2
<1>6. output \in Len(outputs) + 1 .. displays
  BY <1>4, <1>5
<1>7. \A i \in waiting : i \in Nat \ {0} /\ inbox[i].output \in Len(outputs) + 1 .. displays
  BY <1>2, <1>4
<1>8. output = Len(outputs) + 1
  <2>1. Len(outputs) + 1 \in {inbox[i].output : i \in waiting}
    BY <1>4, <1>6
  <2>2. PICK i \in waiting : inbox[i].output = Len(outputs) + 1
    BY <2>1
  <2>3. CASE i = 1
    BY <1>5, <2>2, <2>3
  <2>4. CASE i # 1
    <3>1. output < inbox[i].output
      BY <1>4, <1>5, <1>7, <2>4
    <3> QED BY <1>3, <1>4, <1>6, <2>2, <3>1
  <2> QED BY <2>3, <2>4
<1>9. /\ \A i \in later : i \in Nat /\ i + 1 \in waiting /\ inbox[i + 1] = inbox'[i]
      /\ \A i \in waiting \ {1} : i - 1 \in later /\ inbox'[i - 1] = inbox[i]
  <2>1. ASSUME NEW i \in later PROVE i \in Nat /\ i + 1 \in waiting /\ inbox[i + 1] = inbox'[i]
    BY <1>2
  <2>2. ASSUME NEW i \in waiting \ {1} PROVE i - 1 \in later /\ inbox'[i - 1] = inbox[i]
    <3>1. i - 1 \in 1..Len(inbox') /\ (i - 1) + 1 = i
      BY <1>2
    <3>2. inbox'[i - 1] = inbox[i]
      BY <1>2, <3>1
    <3> QED BY <1>2, <3>1, <3>2
  <2> QED BY <2>1, <2>2
<1> HIDE DEF output
<1>10. /\ outputs' \in Seq(Nat) /\ Len(outputs') = Len(outputs) + 1 /\ Len(outputs') <= displays'
       /\ \A i \in DOMAIN outputs' : outputs'[i] = i
  BY <1>1, <1>3, <1>4, <1>6, <1>8
<1>11. OutputsAgree'
  <2> DEFINE before == {inbox[i].output : i \in waiting}
             after == {inbox'[i].output : i \in later}
  <2>1. ASSUME NEW i \in waiting \ {1} PROVE output < inbox[i].output
    BY <1>4, <1>5, <1>7
  <2>2. after = before \ {output}
    <3>1. ASSUME NEW x \in after PROVE x \in before /\ x # output
      <4>1. PICK i \in later : x = inbox'[i].output
        OBVIOUS
      <4>2. i + 1 \in waiting \ {1} /\ x = inbox[i + 1].output
        BY <1>2, <1>9, <4>1
      <4>3. x \in Nat /\ output < x
        BY <1>4, <1>7, <2>1, <4>2
      <4> QED BY <1>3, <4>2, <4>3
    <3>2. ASSUME NEW x \in before, x # output PROVE x \in after
      <4>1. PICK i \in waiting : x = inbox[i].output
        OBVIOUS
      <4>2. i \in waiting \ {1}
        BY <1>5, <3>2, <4>1
      <4> QED BY <1>9, <4>1, <4>2
    <3> QED BY <3>1, <3>2
  <2>3. after = Len(outputs') + 1 .. displays'
    <3>1. displays' = displays /\ Len(outputs') = output
      BY <1>1, <1>8, <1>10
    <3>2. before = output .. displays
      BY <1>4, <1>8
    <3> HIDE DEF before, after
    <3> QED BY <1>3, <1>4, <2>2, <3>1, <3>2
  <2>4. ASSUME NEW i \in later, NEW j \in later, i < j PROVE inbox'[i].output < inbox'[j].output
    <3>1. i + 1 \in waiting /\ j + 1 \in waiting /\ i + 1 < j + 1
      BY <1>9, <2>4
    <3> QED BY <1>4, <1>9, <3>1
  <2>5. ASSUME NEW e \in Connected' PROVE proxy'[e].globals = outputs'
    <3>1. e \in Connected /\ proxy'[e] = p(e)
      BY <1>1 DEF Connected
    <3>2. proxy[e].globals = outputs /\ proxy[e] \in Proxy
      BY <3>1, ProxyOf DEF IInv, OutputsAgree
    <3> QED BY <1>1, <3>1, <3>2 DEF Proxy
  <2> QED BY <1>10, <2>3, <2>4, <2>5 DEF OutputsAgree
<1>12. ASSUME NEW e \in Connected
       PROVE  /\ p(e) \in Proxy /\ p(e).surfaces = proxy[e].surfaces /\ p(e).pools = proxy[e].pools
              /\ p(e).devices = proxy[e].devices /\ p(e).shells = proxy[e].shells
  <2>1. proxy[e] \in Proxy
    BY ProxyOf DEF IInv
  <2>2. Append(proxy[e].globals, output) \in Seq(Nat)
    BY <1>3, <2>1 DEF Proxy
  <2> QED BY <2>1, <2>2 DEF Proxy
<1> HIDE DEF p, waiting, later
<1>13. /\ Connected' = Connected /\ Known' = Known /\ Stored' = Stored /\ Leaves(None)
       /\ proxy' \in [Connected -> Proxy]
       /\ \A e \in Connected :
            /\ proxy'[e].surfaces = proxy[e].surfaces /\ proxy'[e].pools = proxy[e].pools
            /\ proxy'[e].devices = proxy[e].devices /\ proxy'[e].shells = proxy[e].shells
  BY <1>1, <1>12, NobodyLeaves DEF Connected, Known, Stored
<1>14. /\ Keeps({"reconfigured"}, 1) /\ Keeps({"keyboard", "offered"}, 1)
       /\ \A d \in Devices : Keeps({d}, 1)
  <2>1. "display" \notin {"reconfigured"} /\ "display" \notin {"keyboard", "offered"}
        /\ \A d \in Devices : "display" \notin {d}
    BY DEF Devices
  <2> QED BY <1>1, <2>1, QueueTaken DEF IInv
<1>15. TypeOK'
  BY <1>1, <1>2, <1>10, <1>13 DEF IInv, TypeOK
<1>16. SurfacesOwned'
  BY <1>1, <1>13 DEF IInv, SurfacesOwned
<1>17. MemoryOwned'
  BY <1>1, <1>13, MemoryKept DEF IInv
<1>18. SizeCurrent'
  BY <1>1, <1>13, <1>14, SizesKept DEF IInv
<1>19. \A d \in Devices : FocusChain(d)'
  BY <1>1, <1>13, <1>14, FocusUndisturbed
<1>20. SelectionComes'
  BY <1>1, <1>13, <1>14, SelectionUndisturbed
<1>21. RegistriesListed'
  BY <1>1, <1>3, <1>13, RegistriesKept DEF IInv, RegistriesListed
<1> QED BY <1>11, <1>15, <1>16, <1>17, <1>18, <1>19, <1>20, <1>21 DEF IInv

-----------------------------------------------------------------------------
(* Clients come and go.                                                    *)
LEMMA NewClientStep ==
    ASSUME IInv, NEW c \in Clients, HandleNewClient(c)
    PROVE  IInv'
<1>1. /\ c = lastClient + 1 /\ c <= group.clients /\ lastClient' = c
      /\ proxy' = With(proxy, c, NewProxy) /\ objects' = With(objects, c, <<>>)
      /\ UNCHANGED <<surfaces, lastSurface, pools, views, makers, replaced, displays, outputs, focus, forms,
                     transfer, owner, group, entered, offered, inbox>>
  BY DEF HandleNewClient, OnlyClients, storage, told, memory, mediator, bounds
<1>2. c \in 0..MaxClients /\ c \notin Connected /\ Connected \subseteq 1..c
  <2>1. lastClient \in 0..MaxClients /\ Connected \subseteq 1..lastClient /\ group \in Groups
    BY DEF IInv, TypeOK
  <2> QED BY <1>1, <2>1, ProxiesAssumption
<1>3. /\ Connected' = Connected \union {c} /\ proxy'[c] = NewProxy /\ objects'[c] = <<>>
      /\ \A e \in Connected : proxy'[e] = proxy[e] /\ objects'[e] = objects[e]
      /\ DOMAIN objects' = Connected'
  BY <1>1, <1>2 DEF With, Connected, IInv, TypeOK
<1>4. NewProxy \in Proxy
  <2>1. << >> \in UNION {[S -> Window] : S \in SUBSET Sids} /\ << >> \in UNION {[S -> Nat] : S \in SUBSET Nat}
    <3>1. << >> \in [{} -> Window] /\ << >> \in [{} -> Nat]
      OBVIOUS
    <3> QED BY <3>1
  <2>2. outputs \in Seq(Nat)
    BY DEF IInv, TypeOK
  <2> QED BY <2>1, <2>2 DEF NewProxy, Proxy, None
<1>5. /\ NewProxy.surfaces = {} /\ DOMAIN NewProxy.shells = {} /\ NewProxy.pools = {}
      /\ NewProxy.globals = outputs
  BY DEF NewProxy
<1>6. Known' = Known /\ Stored' = Stored /\ Leaves(None)
  BY <1>1, NobodyLeaves DEF Known, Stored
<1>7. TypeOK'
  <2>1. proxy' \in [Connected' -> Proxy]
    BY <1>1, <1>3, <1>4 DEF With, Connected, IInv, TypeOK
  <2>2. objects' \in [Connected' -> Seq(Object)]
    BY <1>1, <1>3 DEF With, Connected, IInv, TypeOK
  <2>3. Connected' \subseteq 1..lastClient' /\ lastClient' \in 0..MaxClients
    <3>1. lastClient \in Nat /\ c \in Nat /\ c \in 1..c
      BY <1>1, ProxiesAssumption DEF IInv, TypeOK
    <3> QED BY <1>1, <1>2, <1>3, <3>1
  <2> QED BY <1>1, <1>6, <2>1, <2>2, <2>3 DEF IInv, TypeOK
<1>8. SurfacesOwned'
  <2>1. \A s \in DOMAIN owner' : owner'[s] \in Connected' /\ s \in proxy'[owner'[s]].surfaces
    BY <1>1, <1>3 DEF IInv, SurfacesOwned
  <2>2. ASSUME NEW e \in Connected'
        PROVE  /\ \A s \in proxy'[e].surfaces : s \in DOMAIN owner' /\ owner'[s] = e
               /\ DOMAIN proxy'[e].shells \subseteq proxy'[e].surfaces
               /\ \A o \in DOMAIN objects'[e] :
                   objects'[e][o].kind \in {"xdg", "shell"} => objects'[e][o].surface \in proxy'[e].surfaces
    <3>1. CASE e = c
      BY <1>3, <1>5, <3>1
    <3>2. CASE e # c
      BY <1>1, <1>3, <3>2 DEF IInv, SurfacesOwned
    <3> QED BY <3>1, <3>2
  <2> QED BY <1>1, <1>6, <2>1, <2>2 DEF IInv, SurfacesOwned
<1>9. MemoryOwned'
  BY <1>1, <1>3, <1>5, MemoryKept DEF IInv
<1>10. OutputsAgree'
  <2>1. \A e \in Connected' : proxy'[e].globals = outputs
    BY <1>3, <1>5 DEF IInv, OutputsAgree
  <2> QED BY <1>1, <2>1, OutputsKept, QueueSame DEF IInv
<1>11. SizeCurrent'
  BY <1>1, <1>3, <1>5, <1>6, SizesKept, QueueSame DEF IInv
<1>12. \A d \in Devices : FocusChain(d)'
  BY <1>1, <1>3, <1>6, FocusUndisturbed, QueueSame DEF IInv
<1>13. SelectionComes'
  BY <1>1, <1>3, <1>6, SelectionUndisturbed, QueueSame DEF IInv
<1>14. RegistriesListed'
  BY <1>1, <1>3, RegistriesKept DEF IInv, RegistriesListed
<1> QED BY <1>7, <1>8, <1>9, <1>10, <1>11, <1>12, <1>13, <1>14 DEF IInv

(* What was the client's goes with it: its surfaces, and its memory.       *)
LEMMA RemovalStep ==
    ASSUME IInv, TerminateClient, Head(inbox).client \in Connected
    PROVE  IInv'
<1> DEFINE c == Head(inbox).client
           mine == proxy[c].surfaces
<1>1. /\ c \in Connected /\ Receives("terminate") /\ Terminate(c) /\ Removed(c)
      /\ UNCHANGED <<lastSurface, makers, replaced, outputs, focus, transfer, displays, lastClient, group>>
  BY DEF TerminateClient, OnlyTermination, OnlyHandler, clients, bounds
<1> HIDE DEF c
<1> HIDE DEF mine
<1>2. /\ DOMAIN surfaces' = Stored \ mine
      /\ DOMAIN forms' = DOMAIN forms \ mine /\ \A s \in DOMAIN forms' : forms'[s] = forms[s]
      /\ DOMAIN owner' = DOMAIN owner \ mine /\ \A s \in DOMAIN owner' : owner'[s] = owner[s]
  BY <1>1 DEF Terminate, Without, Stored, mine
<1>3. /\ Connected' = Connected \ {c} /\ DOMAIN objects' = DOMAIN objects \ {c}
      /\ \A e \in Connected \ {c} : proxy'[e] = proxy[e]
      /\ \A e \in DOMAIN objects \ {c} : objects'[e] = objects[e]
      /\ entered' = [d \in Devices |-> entered[d] \ ({c} \X Sids)]
      /\ offered' = [offered EXCEPT ![c] = None]
  BY <1>1 DEF Removed, Without, Connected
<1>4. /\ DOMAIN pools' = DOMAIN pools \ proxy[c].pools /\ \A q \in DOMAIN pools' : pools'[q] = pools[q]
      /\ DOMAIN views' = DOMAIN views \ UNION {pools[q] : q \in proxy[c].pools \intersect DOMAIN pools}
      /\ \A v \in DOMAIN views' : views'[v] = views[v]
  BY <1>1 DEF Terminate, PoolsDestroyed, Without
<1>5. \A s \in DOMAIN owner : s \in mine <=> owner[s] = c
  BY <1>1 DEF IInv, SurfacesOwned, mine
<1>6. mine \subseteq DOMAIN owner /\ c \in Clients /\ Known' = Known /\ Stored' = Stored \ mine
  BY <1>1, <1>2, IsClient DEF IInv, SurfacesOwned, mine, Known, Stored
<1>7. /\ Keeps({"display"}, 1) /\ Keeps({"reconfigured"}, 1) /\ Keeps({"keyboard", "offered"}, 1)
      /\ \A d \in Devices : Keeps({d}, 1)
  <2>1. /\ "terminate" \notin {"display"} /\ "terminate" \notin {"reconfigured"}
        /\ "terminate" \notin {"keyboard", "offered"} /\ \A d \in Devices : "terminate" \notin {d}
    BY DEF Devices
  <2> QED BY <1>1, <2>1, QueueTaken DEF IInv
<1>8. Leaves(c)
  <2> SUFFICES ASSUME NEW s \in Known \union {Invalid}
               PROVE  ClientAfter(s) = IF ClientOf(s) = c THEN None ELSE ClientOf(s)
    BY DEF Leaves
  <2>1. c # None
    BY <1>6 DEF Clients, None
  <2> QED BY <1>2, <1>5, <1>6, <2>1 DEF ClientAfter, ClientOf
<1>9. entered' \in [Devices -> SUBSET Pairs] /\ offered' \in [Clients -> Nat]
  <2>1. \A d \in Devices : entered[d] \in SUBSET Pairs
    BY DEF IInv, TypeOK
  <2>2. entered' \in [Devices -> SUBSET Pairs]
    BY <1>3, <2>1
  <2>3. None \in Nat
    BY DEF None
  <2>4. offered' \in [Clients -> Nat]
    BY <1>3, <2>3 DEF IInv, TypeOK
  <2> QED BY <2>2, <2>4
<1>10. TypeOK'
  <2>1. forms' \in [Stored' -> Forms]
    <3>1. forms' = Without(forms, mine) /\ DOMAIN forms = Stored
      BY <1>1 DEF Terminate, IInv, TypeOK, mine
    <3>2. forms' = [s \in Stored' |-> forms[s]]
      BY <1>6, <3>1 DEF Without
    <3> QED BY <1>6, <3>2 DEF IInv, TypeOK
  <2>2. DOMAIN pools' \subseteq DOMAIN makers' /\ DOMAIN views' \subseteq DOMAIN makers'
    BY <1>1, <1>4 DEF IInv, TypeOK
  <2>3. proxy' \in [Connected' -> Proxy] /\ objects' \in [Connected' -> Seq(Object)]
    <3>1. proxy' = [e \in Connected' |-> proxy'[e]] /\ objects' = [e \in Connected' |-> objects'[e]]
      <4>1. proxy' = Without(proxy, {c}) /\ objects' = Without(objects, {c})
        BY <1>1 DEF Removed
      <4>2. DOMAIN objects' = Connected'
        BY <1>3 DEF IInv, TypeOK
      <4> QED BY <4>1, <4>2 DEF Without, Connected
    <3>2. \A e \in Connected' : proxy'[e] \in Proxy /\ objects'[e] \in Seq(Object)
      BY <1>3 DEF IInv, TypeOK
    <3> QED BY <3>1, <3>2
  <2>4. inbox' \in Seq(Message)
    BY <1>7 DEF Keeps
  <2>5. Connected' \subseteq 1..lastClient' /\ Stored' \subseteq Known'
    BY <1>1, <1>3, <1>6 DEF IInv, TypeOK
  <2> QED BY <1>1, <1>6, <1>9, <2>1, <2>2, <2>3, <2>4, <2>5 DEF IInv, TypeOK
<1>11. SurfacesOwned'
  <2>1. \A s \in DOMAIN owner' : owner'[s] \in Connected' /\ s \in proxy'[owner'[s]].surfaces
    <3>1. \A s \in DOMAIN owner' : owner'[s] # c /\ owner'[s] = owner[s] /\ s \in DOMAIN owner
      BY <1>2, <1>5
    <3>2. \A s \in DOMAIN owner : owner[s] \in Connected /\ s \in proxy[owner[s]].surfaces
      BY DEF IInv, SurfacesOwned
    <3> QED BY <1>3, <3>1, <3>2
  <2>2. ASSUME NEW e \in Connected'
        PROVE  /\ \A s \in proxy'[e].surfaces : s \in DOMAIN owner' /\ owner'[s] = e
               /\ DOMAIN proxy'[e].shells \subseteq proxy'[e].surfaces
               /\ \A o \in DOMAIN objects'[e] :
                   objects'[e][o].kind \in {"xdg", "shell"} => objects'[e][o].surface \in proxy'[e].surfaces
    <3>1. e \in Connected \ {c} /\ proxy'[e] = proxy[e] /\ objects'[e] = objects[e]
      BY <1>3 DEF IInv, TypeOK
    <3>2. \A s \in proxy[e].surfaces : s \in DOMAIN owner /\ owner[s] = e
      BY <3>1 DEF IInv, SurfacesOwned
    <3>3. \A s \in proxy[e].surfaces : s \in DOMAIN owner' /\ owner'[s] = e
      BY <1>2, <1>5, <3>1, <3>2
    <3> QED BY <3>1, <3>3 DEF IInv, SurfacesOwned
  <2>3. Stored' \subseteq DOMAIN owner' /\ DOMAIN owner' \subseteq Known'
    BY <1>2, <1>6 DEF IInv, SurfacesOwned
  <2> QED BY <2>1, <2>2, <2>3 DEF SurfacesOwned
<1>12. MemoryOwned'
  <2>1. ASSUME NEW q \in DOMAIN pools' PROVE makers'[q] \in Connected' /\ q \in proxy'[makers'[q]].pools
    <3>1. q \in DOMAIN pools /\ q \notin proxy[c].pools
      BY <1>4
    <3>2. makers[q] \in Connected /\ q \in proxy[makers[q]].pools
      BY <3>1 DEF IInv, MemoryOwned
    <3> QED BY <1>1, <1>3, <3>1, <3>2
  <2>2. \A e \in Connected' : \A q \in proxy'[e].pools : q \in DOMAIN makers' /\ makers'[q] = e
    BY <1>1, <1>3 DEF IInv, MemoryOwned
  <2>3. ASSUME NEW v \in DOMAIN views' \ replaced'
        PROVE  /\ views'[v] \in DOMAIN pools' /\ v \in pools'[views'[v]]
               /\ makers'[v] = makers'[views'[v]]
    <3>1. v \in DOMAIN views \ replaced /\ views'[v] = views[v]
      BY <1>1, <1>4
    <3>2. views[v] \in DOMAIN pools /\ v \in pools[views[v]] /\ makers[v] = makers[views[v]]
      BY <3>1 DEF IInv, MemoryOwned
    <3>3. views[v] \notin proxy[c].pools
      BY <1>4, <3>2
    <3> QED BY <1>1, <1>4, <3>1, <3>2, <3>3
  <2> QED BY <2>1, <2>2, <2>3 DEF MemoryOwned
<1>13. OutputsAgree'
  <2>1. \A e \in Connected' : proxy'[e].globals = outputs
    BY <1>3 DEF IInv, OutputsAgree
  <2> QED BY <1>1, <1>7, <2>1, OutputsKept DEF IInv
<1>14. SizeCurrent'
  <2>1. \A e \in Connected' : \A s \in DOMAIN proxy'[e].shells \intersect Stored' :
            /\ e \in Connected /\ s \in DOMAIN proxy[e].shells \intersect Stored
            /\ proxy'[e].shells[s] = proxy[e].shells[s] /\ forms'[s].desired = forms[s].desired
    BY <1>2, <1>3, <1>6 DEF IInv, TypeOK
  <2> QED BY <1>7, <2>1, SizesKept DEF IInv
<1>15. ASSUME NEW d \in Devices PROVE FocusChain(d)'
  <2>1. entered'[d] = entered[d] \ ({c} \X Sids) /\ entered[d] \in SUBSET Pairs
    BY <1>3 DEF IInv, TypeOK
  <2>2. ASSUME NEW x \in entered'[d]
        PROVE  Tells(d, x[1], x[2])' /\ ClientAfter(x[2]) = ClientOf(x[2])
    <3>1. x \in entered[d] /\ x \in Pairs /\ x \notin {c} \X Sids
      BY <2>1, <2>2
    <3>2. x[1] # c
      BY <3>1 DEF Pairs
    <3>3. Tells(d, x[1], x[2])
      BY <3>1 DEF IInv, FocusChain
    <3>4. x[2] \in Known /\ ClientOf(x[2]) = x[1]
      BY <3>3, OwnedKnown DEF Tells, IInv
    <3>5. ClientAfter(x[2]) = ClientOf(x[2])
      BY <1>8, <3>2, <3>4 DEF Leaves
    <3>6. Tells(d, x[1], x[2])'
      BY <1>3, <3>2, <3>3 DEF Tells
    <3> QED BY <3>5, <3>6
  <2>3. focus'[d] = focus[d]
    BY <1>1
  <2> QED BY <1>6, <1>7, <2>1, <2>2, <2>3, FocusChainKept DEF IInv
<1>16. SelectionComes'
  <2>1. \A e \in Clients : offered'[e] # None => e \in Connected' /\ "data" \in proxy'[e].devices
    BY <1>3, <1>6 DEF IInv, SelectionComes, TypeOK
  <2>2. \A s \in DOMAIN owner : owner[s] \in Clients
    BY OwnersAreClients DEF IInv
  <2>3. \A e \in Clients : offered'[e] \in {offered[e], None}
    BY <1>3 DEF IInv, TypeOK
  <2>4. focus'["keyboard"] = focus["keyboard"] /\ transfer' = transfer
    BY <1>1
  <2> QED BY <1>7, <1>8, <1>9, <2>1, <2>2, <2>3, <2>4, SelectionKept DEF IInv
<1>17. RegistriesListed'
  <2>1. \A e \in Connected' : e \in Connected /\ objects'[e] = objects[e]
    BY <1>3 DEF IInv, TypeOK
  <2> QED BY <1>1, <2>1, RegistriesKept DEF IInv, RegistriesListed
<1> QED BY <1>10, <1>11, <1>12, <1>13, <1>14, <1>15, <1>16, <1>17 DEF IInv

LEMMA TerminateStep ==
    ASSUME IInv, TerminateClient
    PROVE  IInv'
<1>1. CASE Head(inbox).client \in Connected
  BY <1>1, RemovalStep
<1>2. CASE Head(inbox).client \notin Connected
  <2>1. /\ UNCHANGED <<forms, focus, entered, offered>>
        /\ UNCHANGED <<surfaces, lastSurface, pools, views, makers, replaced, displays, outputs,
                       transfer, lastClient, objects, owner, group, proxy>>
        /\ Receives("terminate")
    BY <1>2 DEF TerminateClient, NotRemoved, OnlyTermination, OnlyHandler, told, clients, bounds
  <2>2. Keeps(Relevant, 1) /\ proxy' \in [Connected -> Proxy]
    <3>1. "terminate" \notin Relevant /\ TypeOK
      BY DEF Relevant, IInv
    <3>2. proxy' \in [Connected -> Proxy]
      BY <2>1 DEF IInv, TypeOK
    <3> HIDE DEF Relevant
    <3> QED BY <2>1, <3>1, <3>2, QueueTaken
  <2> QED BY <2>1, <2>2, QuietStep
<1> QED BY <1>1, <1>2

-----------------------------------------------------------------------------
LEMMA Initially == Init => IInv
<1> SUFFICES ASSUME Init PROVE IInv
  OBVIOUS
<1>1. /\ surfaces = <<>> /\ lastSurface = 0 /\ forms = <<>> /\ pools = <<>> /\ views = <<>>
      /\ makers = <<>> /\ transfer = None /\ inbox = <<>> /\ proxy = <<>> /\ objects = <<>>
      /\ lastClient = 0 /\ owner = <<>> /\ group \in Groups
      /\ focus = [d \in Devices |-> Invalid] /\ entered = [d \in Devices |-> {}]
      /\ offered = [c \in Clients |-> None]
  BY DEF Init, SurfaceInit
<1>2. displays = group.displays /\ outputs = [i \in 1..displays |-> i]
  BY DEF Init
<1>3. displays \in Nat
  BY <1>1, <1>2, ProxiesAssumption
<1>4. outputs \in Seq(Nat) /\ Len(outputs) = displays /\ \A i \in DOMAIN outputs : outputs[i] = i
  BY <1>2, <1>3
<1>5. /\ Stored = {} /\ Connected = {} /\ DOMAIN owner = {} /\ DOMAIN inbox = {} /\ Len(inbox) = 0
      /\ DOMAIN makers = {} /\ DOMAIN pools = {} /\ DOMAIN views = {}
  BY <1>1 DEF Stored, Connected
<1>6. TypeOK
  <2>1. /\ forms \in [Stored -> Forms] /\ proxy \in [Connected -> Proxy]
        /\ objects \in [Connected -> Seq(Object)] /\ makers \in Seq(Clients) /\ inbox \in Seq(Message)
    BY <1>1, <1>5
  <2>2. /\ lastSurface \in 0..MaxSurfaces /\ lastClient \in 0..MaxClients /\ transfer \in Nat
        /\ focus \in [Devices -> Known \union {Invalid}] /\ entered \in [Devices -> SUBSET Pairs]
        /\ offered \in [Clients -> Nat]
    BY <1>1, BoundsAssumption, ProxiesAssumption DEF None
  <2> QED BY <1>1, <1>3, <1>4, <1>5, <2>1, <2>2 DEF TypeOK
<1>7. SurfacesOwned /\ MemoryOwned /\ SizeCurrent
  BY <1>5 DEF SurfacesOwned, MemoryOwned, SizeCurrent
<1>8. OutputsAgree /\ RegistriesListed
  BY <1>3, <1>4, <1>5 DEF OutputsAgree, RegistriesListed
<1>9. \A d \in Devices : FocusChain(d)
  BY <1>1, <1>5 DEF FocusChain
<1>10. SelectionComes
  BY <1>1, <1>5 DEF SelectionComes, ClientOf
<1> QED BY <1>6, <1>7, <1>8, <1>9, <1>10 DEF IInv

LEMMA Preserved == IInv /\ [Next]_frontend => IInv'
<1> SUFFICES ASSUME IInv, [Next]_frontend PROVE IInv'
  OBVIOUS
<1>1. CASE UNCHANGED frontend
  <2>1. /\ UNCHANGED <<forms, focus, entered, offered, inbox>>
        /\ UNCHANGED <<surfaces, lastSurface, pools, views, makers, replaced, displays, outputs,
                       transfer, lastClient, objects, owner, group, proxy>>
    BY <1>1 DEF frontend, storage, memory, mediator, clients, told
  <2>2. Keeps(Relevant, 0) /\ proxy' \in [Connected -> Proxy]
    BY <2>1, QueueSame DEF IInv, TypeOK
  <2> QED BY <2>1, <2>2, QuietStep
<1>2. ASSUME NEW c \in Clients, Client(c) \/ HandleNewClient(c) \/ HangUp(c) \/ ClientHungUp(c)
      PROVE  IInv'
  BY <1>2, ClientStep, NewClientStep, QuietSteps
<1>3. CASE Exhibitor
  BY <1>3, SetFocusStep, QuietSteps, ReconfigureStep, CreateDisplayStep DEF Exhibitor
<1>4. CASE TakeScreenshot \/ Deliver
  BY <1>4, QuietSteps
<1>5. CASE Receive
  BY <1>5, ReceivePointer, ReceiveKeyboard, ReceiveOffered, ReceiveReconfigured, ReceiveDisplay,
     ReceiveFrame, TerminateStep, QuietSteps DEF Receive
<1> QED BY <1>1, <1>2, <1>3, <1>4, <1>5 DEF Next

-----------------------------------------------------------------------------
(* The inductive invariant of the frontend.                                *)
THEOREM Invariant == Spec => []IInv
BY Initially, Preserved, PTL DEF Spec

(* The state has the types it is meant to have.                            *)
THEOREM TypesKept == Spec => []TypeOK
BY Invariant, PTL DEF IInv

(* The proxies of all clients, whether they connected before or after a    *)
(* display was created, have each output once, in the same order, and what *)
(* a registry told of outputs is the beginning of it: Engine keeps the     *)
(* outputs for proxies to come, and on_display_created adds to all there   *)
(* are.  Registries are not told of outputs that come later.               *)
THEOREM OutputsAlwaysListed == Spec => []OutputsListed
BY Invariant, PTL DEF IInv, OutputsListed

(* The size a client was told last is the one the exhibitor gave, although *)
(* it is sent on changes of the focus, too, and read when the message is   *)
(* handled, not when it was sent.                                          *)
THEOREM SizesAlwaysCurrent == Spec => []SizeCurrent
BY Invariant, PTL DEF IInv

(* At most one client believes to have a device, and the right one when it *)
(* was told of all changes: messages of focus changes form a chain, each   *)
(* starts at the surface where the one before ended.                       *)
THEOREM FocusAlwaysTold == Spec => []FocusTold
<1>1. IInv => FocusTold
  <2> SUFFICES ASSUME IInv, NEW d \in Devices
               PROVE  /\ Cardinality(entered[d]) <= 1
                      /\ ~Queued({d}) => entered[d] \subseteq {<<ClientOf(focus[d]), focus[d]>>}
    BY DEF FocusTold
  <2>1. FocusChain(d) /\ inbox \in Seq(Message)
    BY DEF IInv, TypeOK
  <2>2. \E x : entered[d] \subseteq {x}
    <3>1. CASE ~Queued({d})
      BY <2>1, <3>1 DEF FocusChain
    <3>2. CASE Queued({d})
      <4> DEFINE about == {i \in Nat : i \in 1..Len(inbox) /\ inbox[i].kind = d}
      <4>1. about # {}
        BY <2>1, <3>2 DEF Queued
      <4>2. PICK i \in about : \A j \in about : i <= j
        BY <4>1, LeastNat
      <4>3. FirstOf(d, i) /\ i \in 1..Len(inbox)
        BY <2>1, <4>2 DEF FirstOf
      <4> QED BY <2>1, <4>3 DEF FirstOf, FocusChain
    <3> QED BY <3>1, <3>2
  <2>3. PICK x : entered[d] \subseteq {x}
    BY <2>2
  <2>4. IsFiniteSet({x}) /\ Cardinality({x}) = 1
    BY FS_Singleton
  <2>5. Cardinality(entered[d]) <= 1
    BY <2>3, <2>4, FS_Subset
  <2> QED BY <2>1, <2>5 DEF FocusChain
<1> QED BY <1>1, Invariant, PTL

(* The client with the keyboard is never left with an old selection once   *)
(* it was told of the focus and of the offer: it is offered when the       *)
(* keyboard comes to the client, and when the selection changes.           *)
THEOREM SelectionAlwaysCurrent == Spec => []SelectionCurrent
<1>1. IInv => SelectionCurrent
  <2> SUFFICES ASSUME IInv, ClientOf(focus["keyboard"]) # None, ~Queued({"keyboard", "offered"})
               PROVE  offered[ClientOf(focus["keyboard"])] \in {None, transfer}
    BY DEF SelectionCurrent
  <2>1. inbox \in Seq(Message)
    BY DEF IInv, TypeOK
  <2>2. ~Queued({"offered"}) /\ \A i \in 1..Len(inbox) : inbox[i].kind # "keyboard"
    BY <2>1 DEF Queued
  <2> QED BY <2>2 DEF IInv, SelectionComes, Comes
<1> QED BY <1>1, Invariant, PTL

(* Proxy::terminate leaves nothing of a client behind: no surface, nothing *)
(* the mediator knows, no pool and no view but those of replaced memory.   *)
THEOREM DeadAlwaysLeaveNothing == Spec => []DeadLeaveNothing
<1>1. IInv => DeadLeaveNothing
  <2> SUFFICES ASSUME IInv PROVE DeadLeaveNothing
    OBVIOUS
  <2>1. \A p \in DOMAIN pools : makers[p] \in Connected
    BY DEF IInv, MemoryOwned
  <2>2. \A v \in DOMAIN views : makers[v] \in Connected \/ v \in replaced
    BY DEF IInv, MemoryOwned
  <2>3. \A s \in DOMAIN owner : owner[s] \in Connected
    BY DEF IInv, SurfacesOwned
  <2>4. \A s \in Stored : ClientOf(s) \in Connected
    BY <2>3 DEF IInv, SurfacesOwned, ClientOf
  <2> QED BY <2>1, <2>2, <2>3, <2>4 DEF DeadLeaveNothing
<1> QED BY <1>1, Invariant, PTL
=============================================================================
