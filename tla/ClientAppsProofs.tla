----------------------------- MODULE ClientAppsProofs ----------------------------
(***************************************************************************)
(* Proofs about the applications of the client framework, for any number   *)
(* of displays, runs and objects: client and server understand each other. *)
(***************************************************************************)
EXTENDS ClientApps, NumberFacts, FiniteSetTheorems, TLAPS

-----------------------------------------------------------------------------
(* Requests that make an object, and the kind it has.                      *)
Makers == {"get_registry", "bind", "create_image", "create_pool", "create_buffer",
           "create_params", "create_surface", "get_shell_surface"}
Others == {"authenticate", "shoot", "set_toplevel", "attach", "commit", "add", "create"}

Makes(r) ==
    CASE r.what = "get_registry" -> "registry"  [] r.what = "bind" -> Globals[r.of]
      [] r.what = "create_image" -> "drm_buffer" [] OTHER -> Made(r.what)

Callbacks == {"globals_done", "init_done"}

(* Objects the server need not know: callbacks, and images it may reject.  *)
Loose == Callbacks \union {"drm_buffer", "dmabuf_buffer"}

Interfaces == {"shm", "compositor", "shell", "other", "screenshooter", "dmabuf", "drm", "output"}

Requests ==
    [what : Makers \union Others \union {"sync"}, to : Int, id : Int,
     of : Int \union [output : Int, buffer : Int]]

Whats == {"delete_id", "global", "done", "geometry", "mode", "output_done", "device",
          "authenticated", "created", "failed", "shot"}

Events ==
    [what : Whats, to : Int, of : Int \union [name : Int, interface : Interfaces]]

Outputs == [id : Int, x : Int, width : Int]

(* Objects o of a client; q are the requests it sent and the server did not *)
(* handle, and E the events it was sent and did not handle, in order.      *)
Is(o, id, kind) == id \in DOMAIN o /\ o[id] = kind

-----------------------------------------------------------------------------
(* The server knows objects as the client has made them.                   *)
KnownOK(o) ==
    \A id \in DOMAIN server.known :
        /\ id # 0
        /\ id # ServerId => Is(o, id, server.known[id][1]) /\ o[id] \notin Callbacks
        /\ Is(o, id, "output") => server.known[id][2] \in Int

(* A request makes an object with an ID of its own that is new to the      *)
(* server.                                                                 *)
MakesOK(o, q) ==
    /\ \A i \in 1..Len(q) :
        /\ q[i].id # 0 <=> q[i].what \notin Others
        /\ q[i].id # 0 => /\ q[i].id \in DOMAIN o \ DOMAIN server.known
                          /\ q[i].id # ServerId
        /\ q[i].what = "sync" => o[q[i].id] \in Callbacks
        /\ q[i].what = "bind" => q[i].of \in DOMAIN Globals
        /\ q[i].what \in Makers => o[q[i].id] = Makes(q[i]) /\ Makes(q[i]) \notin Callbacks
    /\ \A i, j \in 1..Len(q) : q[i].id # 0 /\ q[i].id = q[j].id => i = j

(* The server will know the object when it has handled the first n         *)
(* requests.                                                               *)
Sure(q, n, id) == id \in DOMAIN server.known \/ \E j \in 1..n : q[j].id = id

ObjectsSure(o, q) ==
    \A id \in DOMAIN o : o[id] \in Loose \/ Sure(q, Len(q), id)

TargetsOK(o, q) ==
    \A i \in 1..Len(q) :
        /\ Is(o, q[i].to, Target(q[i].what)) /\ Sure(q, i - 1, q[i].to)
        /\ q[i].what = "shoot" =>
            /\ q[i].of \in [output : Int, buffer : Int]
            /\ Is(o, q[i].of.output, "output") /\ Sure(q, i - 1, q[i].of.output)
            /\ Is(o, q[i].of.buffer, "shm_buffer") /\ Sure(q, i - 1, q[i].of.buffer)

(* An event finds the object it is for, and tells what can be.             *)
EventOK(o, e) ==
    /\ e.to \in DOMAIN o /\ o[e.to] \in Recipient(e.what)
    /\ e.what \in {"geometry", "shot"} => e.of \in Int
    /\ e.what = "mode" => e.of = Width
    /\ e.what = "created" => e.of = ServerId
    /\ e.what = "global" => e.of \in [name : Int, interface : Interfaces]
                            /\ e.of.name \in DOMAIN Globals /\ e.of.interface = Globals[e.of.name]
    /\ e.what = "delete_id" => e.of \in DOMAIN o /\ o[e.of] \in Callbacks

EventsOK(o, E) ==
    /\ \A k \in 1..Len(E) : EventOK(o, E[k])
    /\ \A k \in 1..Len(server.shots) : EventOK(o, server.shots[k]) /\ server.shots[k].what = "shot"

(* An ID is deleted once, and nothing is about its object afterwards.      *)
Deletes(e, id) == e.what = "delete_id" /\ e.of = id

DeletesOK(q, E) ==
    /\ \A k, m \in 1..Len(E) :
        E[k].what = "delete_id" =>
            /\ Deletes(E[m], E[k].of) => k = m
            /\ k < m => E[m].to # E[k].of
    /\ \A k \in 1..Len(E), i \in 1..Len(q) :
        /\ E[k].what = "delete_id" => q[i].id # E[k].of
        /\ q[i].what = "sync" => E[k].to # q[i].id

ObjectsOK(o) ==
    /\ IsFiniteSet(DOMAIN o) /\ DOMAIN o \subseteq Int \ {0} /\ Is(o, DisplayId, "display")
    /\ ServerId \in DOMAIN o => o[ServerId] = "dmabuf_buffer"

Core(o, q, E) ==
    /\ q \in Seq(Requests) /\ E \in Seq(Events) /\ server.shots \in Seq(Events)
    /\ KnownOK(o) /\ MakesOK(o, q) /\ ObjectsSure(o, q) /\ TargetsOK(o, q) /\ EventsOK(o, E)
    /\ DeletesOK(q, E) /\ ObjectsOK(o)

(* The client's own records.                                               *)
Known == {"registry", "compositor", "shell", "drm", "dmabuf", "shm", "screenshooter"}

StoreOK(x) ==
    /\ \A f \in Known : x.store[f] # 0 => Is(x.objects, x.store[f], f)
    /\ x.store.registry # 0
    /\ x.store.name \in Int
    /\ x.store.name # 0 => x.store.name \in DOMAIN Globals /\ Globals[x.store.name] = "screenshooter"
    /\ \A f \in Known \ {"registry", "screenshooter"} : f \in x.globals => x.store[f] # 0
    /\ "screenshooter" \in x.globals => x.store.name # 0

OutputsOK(x) ==
    /\ \A id \in DOMAIN x.objects : x.objects[id] = "output" =>
            id \in DOMAIN x.drafts /\ x.drafts[id] \in Outputs /\ x.drafts[id].id = id
    /\ x.outputs \in Seq(Outputs) /\ x.listener.outputs \in Seq(Outputs)
    /\ \A i \in 1..Len(x.outputs) : Is(x.objects, x.outputs[i].id, "output")
    /\ \A i \in 1..Len(x.listener.outputs) : Is(x.objects, x.listener.outputs[i].id, "output")

(* The fields of a client.                                                 *)
Fields == {"objects", "drafts", "store", "globals", "outputs", "listener", "run", "disk", "sent", "fault"}

Shape(x) ==
    /\ DOMAIN x = Fields /\ x.run \in BOOLEAN
    /\ DOMAIN x.store = Known \union {"name", "device", "screenshot"}
    /\ DOMAIN x.listener = {"outputs", "image", "offset", "saved", "fd"}

World(x, q, E) == Shape(x) /\ Core(x.objects, q, E) /\ StoreOK(x) /\ OutputsOK(x)

-----------------------------------------------------------------------------
(* What the application has asked and was told.                            *)
AsksInit(x, r) == r.what = "sync" /\ x.objects[r.id] = "init_done"
AnswersInit(x, e) == e.what = "done" /\ x.objects[e.to] = "init_done"

Asked(q, E) ==
    \/ \E i \in 1..Len(q) : q[i].what = "sync"
    \/ \E k \in 1..Len(E) : E[k].what = "done"

AskedOnce(q, E) ==
    /\ \A i, j \in 1..Len(q) : q[i].what = "sync" /\ q[j].what = "sync" => i = j
    /\ \A k, m \in 1..Len(E) : E[k].what = "done" /\ E[m].what = "done" => k = m
    /\ \A i \in 1..Len(q), k \in 1..Len(E) : ~(q[i].what = "sync" /\ E[k].what = "done")

(* All globals are announced before the first callback is done.            *)
Announces(q, E) ==
    \/ \E i \in 1..Len(q) : q[i].what = "get_registry"
    \/ \E k \in 1..Len(E) : E[k].what = "global"

GlobalsInTime(x, q, E) ==
    /\ Announces(q, E) =>
        /\ \A i \in 1..Len(q) : ~AsksInit(x, q[i])
        /\ \A k \in 1..Len(E) : ~AnswersInit(x, E[k])
    /\ \A i, j \in 1..Len(q) : q[i].what = "get_registry" /\ q[j].what = "sync" => i < j
    /\ \A k \in 1..Len(E) : E[k].what = "done" =>
        /\ \A i \in 1..Len(q) : q[i].what # "get_registry"
        /\ \A m \in 1..Len(E) : E[m].what = "global" => m < k

(* Until then nothing is made but the objects of globals.                  *)
Early(x) ==
    /\ \A id \in DOMAIN x.objects : x.objects[id] \notin {"params", "screenshooter"}
    /\ x.store.screenshot = 0 /\ x.store.screenshooter = 0 /\ x.listener.outputs = <<>>

(* The application has what it requires when it is told that it was        *)
(* initialized: the first n events are read already.                       *)
InitKnown(x, q, E, n) ==
    \/ Required(app) \subseteq x.globals
    \/ /\ ~x.run
       /\ \A k \in 1..n : ~AnswersInit(x, E[k])
    \/ /\ \A i \in 1..Len(q) : ~AsksInit(x, q[i])
       /\ \A k \in 1..Len(E) : ~AnswersInit(x, E[k])

(* An output will be complete before that.                                 *)
BindsInTime(x, q, E, o) ==
    \E i \in 1..Len(q) : 
        /\ q[i].id = o
        /\ \A j \in 1..(i - 1) : ~AsksInit(x, q[j])
        /\ \A k \in 1..Len(E) : ~AnswersInit(x, E[k])

ToldInTime(x, E, o) ==
    \E k \in 1..Len(E) : 
        /\ E[k].what = "output_done" /\ E[k].to = o
        /\ \A m \in 1..(k - 1) : ~AnswersInit(x, E[m])
        /\ x.drafts[o].width # 0 \/ \E m \in 1..(k - 1) : E[m].what = "mode" /\ E[m].to = o

OutputComes(x, q, E) ==
    "output" \in x.globals =>
        x.outputs # <<>> \/ \E o \in DOMAIN x.objects :
            x.objects[o] = "output" /\ (BindsInTime(x, q, E, o) \/ ToldInTime(x, E, o))

(* While a screenshot is taken, and while a picture or the device is used. *)
Taking(x) ==
    x.store.screenshot # 0 =>
        x.listener.outputs # <<>> /\ x.store.shm # 0 /\ x.store.screenshooter # 0

FilesOK(x) == runs = 1 => x.disk \subseteq {x.store.screenshot} \ {0}

ParamsOK(x) ==
    (\E id \in DOMAIN x.objects : x.objects[id] = "params") => x.store.compositor # 0 /\ x.store.shell # 0

DeviceOK(x, q, E) ==
    \/ x.listener.fd = TRUE
    \/ /\ \A i \in 1..Len(q) : q[i].what # "authenticate"
       /\ \A k \in 1..Len(E) : E[k].what # "authenticated"

Stage(x, q, E, n) ==
    /\ AskedOnce(q, E) /\ GlobalsInTime(x, q, E)
    /\ Asked(q, E) => Early(x) /\ InitKnown(x, q, E, n) /\ OutputComes(x, q, E)
    /\ Taking(x) /\ FilesOK(x) /\ ParamsOK(x) /\ DeviceOK(x, q, E)

-----------------------------------------------------------------------------
pending == batch \o events

Typed ==
    /\ requests \in Seq(Requests) /\ batch \in Seq(Events) /\ events \in Seq(Events)
    /\ server.shots \in Seq(Events)
    /\ DOMAIN server = {"known", "shots"}
    /\ runs \in Nat \ {0} /\ screens \in Nat /\ app \in {"screenshot", "egl", "dmabuf"}
    /\ works \subseteq {"path", "device", "magic", "window", "import", "capture"}

IInv ==
    /\ runs \in Nat \ {0} /\ screens \in Nat
    /\ phase = "failed" => FailsForCause
    /\ phase = "running" =>
        /\ Typed /\ client.sent = <<>> /\ client.fault = Nothing
        /\ World(client, requests, pending)
        /\ Stage(client, requests, pending, Len(batch))

-----------------------------------------------------------------------------
(* Sequences                                                               *)
LEMMA Appending ==
    ASSUME NEW S, NEW q \in Seq(S), NEW r \in S
    PROVE  /\ Append(q, r) \in Seq(S) /\ Len(Append(q, r)) = Len(q) + 1 /\ Len(q) \in Nat
           /\ Append(q, r)[Len(q) + 1] = r
           /\ \A i \in 1..Len(q) : Append(q, r)[i] = q[i]
           /\ \A i \in 1..Len(Append(q, r)) : i \in 1..Len(q) \/ i = Len(q) + 1
OBVIOUS

LEMMA Tailing ==
    ASSUME NEW S, NEW q \in Seq(S), q # <<>>
    PROVE  /\ Tail(q) \in Seq(S) /\ Len(q) \in Nat \ {0} /\ Len(Tail(q)) = Len(q) - 1
           /\ Head(q) = q[1] /\ 1 \in 1..Len(q) /\ q[1] \in S
           /\ \A i \in 1..Len(Tail(q)) : i + 1 \in 1..Len(q) /\ i + 1 # 1 /\ Tail(q)[i] = q[i + 1]
           /\ \A i \in 1..Len(q) : i # 1 => i - 1 \in 1..Len(Tail(q)) /\ Tail(q)[i - 1] = q[i]
<1>1. Tail(q) \in Seq(S) /\ Len(q) \in Nat \ {0} /\ Len(Tail(q)) = Len(q) - 1 /\ Head(q) = q[1] /\ 1 \in 1..Len(q)
  OBVIOUS
<1>2. \A i \in 1..Len(Tail(q)) : i + 1 \in 1..Len(q) /\ i + 1 # 1 /\ Tail(q)[i] = q[i + 1]
  OBVIOUS
<1>3. \A i \in 1..Len(q) : i # 1 => i - 1 \in 1..Len(Tail(q)) /\ (i - 1) + 1 = i
  BY <1>1
<1>4. q[1] \in S
  BY <1>1
<1> QED BY <1>1, <1>2, <1>3, <1>4

LEMMA Joining ==
    ASSUME NEW S, NEW q \in Seq(S), NEW s \in Seq(S)
    PROVE  /\ q \o s \in Seq(S) /\ Len(q \o s) = Len(q) + Len(s) /\ Len(q) \in Nat /\ Len(s) \in Nat
           /\ \A i \in 1..Len(q) : (q \o s)[i] = q[i]
           /\ \A i \in 1..Len(s) : (q \o s)[Len(q) + i] = s[i]
           /\ \A i \in 1..Len(q \o s) :
                i \in 1..Len(q) \/ \E j \in 1..Len(s) : i = Len(q) + j
<1>1. q \o s \in Seq(S) /\ Len(q \o s) = Len(q) + Len(s) /\ Len(q) \in Nat /\ Len(s) \in Nat
  OBVIOUS
<1>2. \A i \in 1..Len(q) : (q \o s)[i] = q[i]
  OBVIOUS
<1>3. \A i \in 1..Len(s) : (q \o s)[Len(q) + i] = s[i]
  OBVIOUS
<1>4. ASSUME NEW i \in 1..Len(q \o s), i \notin 1..Len(q)
      PROVE  \E j \in 1..Len(s) : i = Len(q) + j
  <2>1. i - Len(q) \in 1..Len(s) /\ i = Len(q) + (i - Len(q))
    BY <1>1, <1>4
  <2> QED BY <2>1
<1> QED BY <1>1, <1>2, <1>3, <1>4

-----------------------------------------------------------------------------
(* Objects and lines of requests                                           *)
Extends(o, u) == \A id \in DOMAIN o : id \in DOMAIN u /\ u[id] = o[id]

(* A request that may be sent by a client whose objects become u.          *)
MaySend(o, u, r) ==
    /\ r \in Requests /\ Is(o, r.to, Target(r.what))
    /\ r.what \in Others => r.id = 0 /\ u = o
    /\ r.what \notin Others =>
        /\ r.id \notin DOMAIN o /\ r.id \notin {0, ServerId} /\ DOMAIN u = DOMAIN o \union {r.id}
        /\ r.what = "sync" => u[r.id] \in Callbacks
        /\ r.what = "bind" => r.of \in DOMAIN Globals
        /\ r.what \in Makers => u[r.id] = Makes(r) /\ Makes(r) \notin Callbacks
    /\ r.what = "shoot" =>
        /\ r.of \in [output : Int, buffer : Int]
        /\ Is(o, r.of.output, "output") /\ Is(o, r.of.buffer, "shm_buffer")

LEMMA TargetNotLoose ==
    ASSUME NEW what PROVE Target(what) \notin Loose
BY DEF Target, Loose, Callbacks

LEMMA SureLater ==
    ASSUME NEW S, NEW q \in Seq(S), NEW r \in S, NEW n \in 0..Len(q), NEW id, Sure(q, n, id)
    PROVE  Sure(Append(q, r), n, id)
BY Appending DEF Sure

LEMMA CoreSends ==
    ASSUME NEW o, NEW q, NEW E, NEW u, NEW r, Core(o, q, E), Extends(o, u), MaySend(o, u, r)
    PROVE  Core(u, Append(q, r), E)
<1> DEFINE p == Append(q, r)
<1>1. q \in Seq(Requests) /\ r \in Requests
  BY DEF Core, MaySend
<1>2. /\ p \in Seq(Requests) /\ Len(p) = Len(q) + 1 /\ Len(q) \in Nat
      /\ p[Len(q) + 1] = r /\ \A i \in 1..Len(q) : p[i] = q[i]
      /\ \A i \in 1..Len(p) : i \in 1..Len(q) \/ i = Len(q) + 1
  BY <1>1, Appending
<1>3. \A n \in 0..Len(q) : \A id : Sure(q, n, id) => Sure(p, n, id)
  BY <1>1, SureLater
<1> HIDE DEF p
<1>4. ObjectsOK(o) /\ ObjectsOK(u)
  <2>1. DOMAIN u = DOMAIN o \union {r.id} \/ u = o
    BY DEF MaySend
  <2>2. ObjectsOK(o)
    BY DEF Core
  <2>3. IsFiniteSet(DOMAIN u)
    BY <2>1, <2>2, FS_AddElement DEF ObjectsOK
  <2>4. (r.id \in Int /\ r.id # 0) \/ u = o
    BY <1>1 DEF MaySend, Requests
  <2> QED BY <2>1, <2>2, <2>3, <2>4 DEF ObjectsOK, Extends, MaySend, Is
<1>5. KnownOK(u)
  BY DEF Core, KnownOK, Extends, Is, MaySend
<1>6. MakesOK(u, p)
  <2>1. MakesOK(o, q) /\ KnownOK(o)
    BY DEF Core
  <2>2. ASSUME NEW i \in 1..Len(p)
        PROVE  /\ p[i].id # 0 <=> p[i].what \notin Others
               /\ p[i].id # 0 => /\ p[i].id \in DOMAIN u \ DOMAIN server.known
                                 /\ p[i].id # ServerId
               /\ p[i].what = "sync" => u[p[i].id] \in Callbacks
               /\ p[i].what = "bind" => p[i].of \in DOMAIN Globals
               /\ p[i].what \in Makers => u[p[i].id] = Makes(p[i]) /\ Makes(p[i]) \notin Callbacks
    <3>1. CASE i \in 1..Len(q)
      <4>1. p[i] = q[i] /\ q[i].what \in Makers => q[i].id # 0
        BY <1>2, <2>1, <3>1 DEF MakesOK, Makers, Others
      <4>2. q[i].what = "sync" => q[i].id # 0
        BY <2>1, <3>1 DEF MakesOK, Others
      <4> QED BY <1>2, <2>1, <3>1, <4>1, <4>2 DEF MakesOK, Extends
    <3>2. CASE i = Len(q) + 1
      <4>1. p[i] = r
        BY <1>2, <3>2
      <4>2. r.what \notin Others => r.id \notin DOMAIN server.known
        BY <2>1 DEF MaySend, KnownOK, Is
      <4> QED BY <4>1, <4>2 DEF MaySend, Makers, Others
    <3> QED BY <1>2, <3>1, <3>2
  <2>3. ASSUME NEW i \in 1..Len(p), NEW j \in 1..Len(p), p[i].id # 0, p[i].id = p[j].id
        PROVE  i = j
    <3>1. \A k \in 1..Len(q) : q[k].id # 0 => q[k].id \in DOMAIN o
      BY <2>1 DEF MakesOK
    <3>2. r.id # 0 => r.id \notin DOMAIN o
      BY DEF MaySend
    <3>3. CASE i \in 1..Len(q) /\ j \in 1..Len(q)
      BY <1>2, <2>1, <2>3, <3>3 DEF MakesOK
    <3>4. CASE i = Len(q) + 1 /\ j \in 1..Len(q)
      BY <1>2, <2>3, <3>1, <3>2, <3>4
    <3>5. CASE i \in 1..Len(q) /\ j = Len(q) + 1
      BY <1>2, <2>3, <3>1, <3>2, <3>5
    <3> QED BY <1>2, <3>3, <3>4, <3>5
  <2> QED BY <2>2, <2>3 DEF MakesOK
<1>7. ObjectsSure(u, p)
  <2> SUFFICES ASSUME NEW id \in DOMAIN u, u[id] \notin Loose PROVE Sure(p, Len(p), id)
    BY DEF ObjectsSure
  <2>1. CASE id \in DOMAIN o
    <3>1. Sure(q, Len(q), id)
      BY <2>1 DEF Core, ObjectsSure, Extends
    <3> QED BY <1>2, <3>1 DEF Sure
  <2>2. CASE id \notin DOMAIN o
    <3>1. id = r.id
      BY <2>2 DEF MaySend
    <3> QED BY <1>2, <3>1 DEF Sure
  <2> QED BY <2>1, <2>2
<1>8. TargetsOK(u, p)
  <2>1. \A id \in DOMAIN o : o[id] \notin Loose => Sure(p, Len(q), id)
    BY <1>2, <1>3 DEF Core, ObjectsSure
  <2>2. ASSUME NEW i \in 1..Len(p), i \in 1..Len(q)
        PROVE  /\ Is(u, p[i].to, Target(p[i].what)) /\ Sure(p, i - 1, p[i].to)
               /\ p[i].what = "shoot" =>
                   /\ p[i].of \in [output : Int, buffer : Int]
                   /\ Is(u, p[i].of.output, "output") /\ Sure(p, i - 1, p[i].of.output)
                   /\ Is(u, p[i].of.buffer, "shm_buffer") /\ Sure(p, i - 1, p[i].of.buffer)
    <3>1. p[i] = q[i] /\ i - 1 \in 0..Len(q)
      BY <1>2, <2>2
    <3> QED BY <1>3, <2>2, <3>1 DEF Core, TargetsOK, Extends, Is
  <2>3. ASSUME NEW i \in 1..Len(p), i = Len(q) + 1
        PROVE  /\ Is(u, p[i].to, Target(p[i].what)) /\ Sure(p, i - 1, p[i].to)
               /\ p[i].what = "shoot" =>
                   /\ p[i].of \in [output : Int, buffer : Int]
                   /\ Is(u, p[i].of.output, "output") /\ Sure(p, i - 1, p[i].of.output)
                   /\ Is(u, p[i].of.buffer, "shm_buffer") /\ Sure(p, i - 1, p[i].of.buffer)
    <3>1. p[i] = r /\ i - 1 = Len(q)
      BY <1>2, <2>3
    <3>2. "output" \notin Loose /\ "shm_buffer" \notin Loose /\ Target(r.what) \notin Loose
      BY TargetNotLoose DEF Loose, Callbacks
    <3> QED BY <2>1, <3>1, <3>2 DEF MaySend, Is, Extends
  <2> QED BY <1>2, <2>2, <2>3 DEF TargetsOK
<1>9. EventsOK(u, E)
  BY DEF Core, EventsOK, EventOK, Extends
<1>10. DeletesOK(p, E)
  <2>1. DeletesOK(q, E) /\ EventsOK(o, E)
    BY DEF Core
  <2>2. ASSUME NEW k \in 1..Len(E), NEW i \in 1..Len(p)
        PROVE  /\ E[k].what = "delete_id" => p[i].id # E[k].of
               /\ p[i].what = "sync" => E[k].to # p[i].id
    <3>1. CASE i \in 1..Len(q)
      BY <1>2, <2>1, <3>1 DEF DeletesOK
    <3>2. CASE i = Len(q) + 1
      <4>1. p[i] = r /\ E[k].to \in DOMAIN o /\ (E[k].what = "delete_id" => E[k].of \in DOMAIN o)
        BY <1>2, <2>1, <3>2 DEF EventsOK, EventOK
      <4>2. 0 \notin DOMAIN o /\ "sync" \notin Others
        BY <1>4 DEF ObjectsOK, Others
      <4> QED BY <4>1, <4>2 DEF MaySend
    <3> QED BY <1>2, <3>1, <3>2
  <2> QED BY <2>1, <2>2 DEF DeletesOK
<1> QED BY <1>2, <1>4, <1>5, <1>6, <1>7, <1>8, <1>9, <1>10 DEF Core, p

(* An event is handled, which need not be one of the objects.              *)
LEMMA CoreHandles ==
    ASSUME NEW o, NEW q, NEW E, Core(o, q, E), E # <<>>
    PROVE  Core(o, q, Tail(E)) /\ EventOK(o, Head(E)) /\ Head(E) \in Events
<1>1. /\ Tail(E) \in Seq(Events) /\ Head(E) = E[1] /\ 1 \in 1..Len(E) /\ E[1] \in Events
      /\ \A i \in 1..Len(Tail(E)) : i + 1 \in 1..Len(E) /\ Tail(E)[i] = E[i + 1]
  BY Tailing DEF Core
<1>2. EventsOK(o, Tail(E)) /\ EventOK(o, Head(E))
  BY <1>1 DEF Core, EventsOK
<1>3. DeletesOK(q, Tail(E))
  <2>1. DeletesOK(q, E)
    BY DEF Core
  <2>2. ASSUME NEW k \in 1..Len(Tail(E)), NEW m \in 1..Len(Tail(E)), Tail(E)[k].what = "delete_id"
        PROVE  /\ Deletes(Tail(E)[m], Tail(E)[k].of) => k = m
               /\ k < m => Tail(E)[m].to # Tail(E)[k].of
    <3>1. /\ k + 1 \in 1..Len(E) /\ Tail(E)[k] = E[k + 1] /\ m + 1 \in 1..Len(E) /\ Tail(E)[m] = E[m + 1]
      BY <1>1
    <3>2. /\ Deletes(E[m + 1], E[k + 1].of) => k + 1 = m + 1
          /\ k + 1 < m + 1 => E[m + 1].to # E[k + 1].of
      BY <2>1, <2>2, <3>1 DEF DeletesOK
    <3>3. (k < m => k + 1 < m + 1) /\ (k + 1 = m + 1 => k = m)
      OBVIOUS
    <3> QED BY <3>1, <3>2, <3>3
  <2>3. ASSUME NEW k \in 1..Len(Tail(E)), NEW i \in 1..Len(q)
        PROVE  /\ Tail(E)[k].what = "delete_id" => q[i].id # Tail(E)[k].of
               /\ q[i].what = "sync" => Tail(E)[k].to # q[i].id
    <3>1. k + 1 \in 1..Len(E) /\ Tail(E)[k] = E[k + 1]
      BY <1>1
    <3> QED BY <2>1, <3>1 DEF DeletesOK
  <2> QED BY <2>2, <2>3 DEF DeletesOK
<1> QED BY <1>1, <1>2, <1>3 DEF Core

(* An ID is free again when the server says so.                            *)
LEMMA CoreDeletes ==
    ASSUME NEW o, NEW q, NEW E, Core(o, q, E), E # <<>>, Head(E).what = "delete_id",
           NEW u, DOMAIN u = DOMAIN o \ {Head(E).of}, \A id \in DOMAIN u : u[id] = o[id]
    PROVE  Core(u, q, Tail(E))
<1> DEFINE c == Head(E).of
<1>1. /\ Tail(E) \in Seq(Events) /\ Head(E) = E[1] /\ 1 \in 1..Len(E) /\ Len(E) \in Nat
      /\ \A i \in 1..Len(Tail(E)) : i + 1 \in 1..Len(E) /\ i + 1 # 1 /\ Tail(E)[i] = E[i + 1]
  BY Tailing DEF Core
<1>2. Core(o, q, Tail(E)) /\ EventOK(o, Head(E))
  BY CoreHandles
<1>3. c \in DOMAIN o /\ o[c] \in Callbacks
  BY <1>2 DEF EventOK
<1>4. /\ "output" \notin Callbacks /\ "shm_buffer" \notin Callbacks /\ "display" \notin Callbacks
      /\ "screenshooter" \notin Callbacks /\ "dmabuf_buffer" \notin Callbacks
      /\ Callbacks \subseteq Loose /\ \A what : Target(what) \notin Callbacks
  BY TargetNotLoose DEF Callbacks, Loose
<1>5. \A i \in 1..Len(q) : q[i].id # c
  BY <1>1 DEF Core, DeletesOK
<1>6. /\ \A k \in 1..Len(Tail(E)) : Tail(E)[k].to # c
      /\ \A k \in 1..Len(Tail(E)) : Tail(E)[k].what = "delete_id" => Tail(E)[k].of # c
  <2> SUFFICES ASSUME NEW k \in 1..Len(Tail(E))
               PROVE  Tail(E)[k].to # c /\ (Tail(E)[k].what = "delete_id" => Tail(E)[k].of # c)
    OBVIOUS
  <2>1. k + 1 \in 1..Len(E) /\ k + 1 # 1 /\ 1 < k + 1 /\ Tail(E)[k] = E[k + 1]
    BY <1>1
  <2>2. E[k + 1].to # c /\ ~Deletes(E[k + 1], c)
    BY <1>1, <2>1 DEF Core, DeletesOK
  <2> QED BY <2>1, <2>2 DEF Deletes
<1> HIDE DEF c
<1>7. KnownOK(u)
  <2>1. KnownOK(o) /\ c \notin DOMAIN server.known \ {ServerId}
    BY <1>2, <1>3 DEF Core, KnownOK
  <2> QED BY <2>1 DEF KnownOK, Is, c
<1>8. MakesOK(u, q)
  <2>1. MakesOK(o, q)
    BY DEF Core
  <2>2. \A i \in 1..Len(q) : q[i].what \in Makers \union {"sync"} => q[i].id # 0
    BY <2>1 DEF MakesOK, Makers, Others
  <2> QED BY <1>5, <2>1, <2>2 DEF MakesOK, c
<1>9. ObjectsSure(u, q)
  BY DEF Core, ObjectsSure
<1>10. TargetsOK(u, q)
  <2>1. TargetsOK(o, q)
    BY DEF Core
  <2>2. \A id, kind : Is(o, id, kind) /\ kind \notin Callbacks => Is(u, id, kind)
    BY <1>3 DEF Is, c
  <2> QED BY <1>4, <2>1, <2>2 DEF TargetsOK
<1>11. EventsOK(u, Tail(E))
  <2>1. EventsOK(o, Tail(E))
    BY <1>2 DEF Core
  <2>2. ASSUME NEW e, EventOK(o, e), e.to # c, e.what = "delete_id" => e.of # c
        PROVE  EventOK(u, e)
    BY <2>2 DEF EventOK, c
  <2>3. ASSUME NEW k \in 1..Len(server.shots) PROVE EventOK(u, server.shots[k])
    <3>1. server.shots[k].what = "shot" /\ EventOK(o, server.shots[k])
      BY <2>1 DEF EventsOK
    <3>2. o[server.shots[k].to] = "screenshooter"
      BY <3>1 DEF EventOK, Recipient
    <3> QED BY <1>3, <1>4, <2>2, <3>1, <3>2
  <2> QED BY <1>6, <2>1, <2>2, <2>3 DEF EventsOK
<1>12. DeletesOK(q, Tail(E))
  BY <1>2 DEF Core, DeletesOK
<1>13. ObjectsOK(u)
  <2>1. ObjectsOK(o) /\ IsFiniteSet(DOMAIN u)
    BY FS_Subset DEF Core, ObjectsOK
  <2> QED BY <1>3, <1>4, <2>1 DEF ObjectsOK, Is, c
<1> QED BY <1>1, <1>7, <1>8, <1>9, <1>10, <1>11, <1>12, <1>13 DEF Core

(* The object of an imported image, which the server made.                 *)
LEMMA CoreImports ==
    ASSUME NEW o, NEW q, NEW E, Core(o, q, E), NEW u, DOMAIN u = DOMAIN o \union {ServerId},
           \A id \in DOMAIN o : u[id] = o[id], u[ServerId] = "dmabuf_buffer"
    PROVE  Core(u, q, E) /\ Extends(o, u)
<1>1. Extends(o, u)
  BY DEF Extends
<1>2. ObjectsOK(o) /\ ServerId \in Int \ {0} /\ ServerId # DisplayId
  BY DEF Core, ServerId, DisplayId
<1>3. IsFiniteSet(DOMAIN u)
  BY <1>2, FS_AddElement DEF ObjectsOK
<1>4. ObjectsOK(u)
  BY <1>2, <1>3 DEF ObjectsOK, Is
<1>5. KnownOK(u)
  <2>1. "dmabuf_buffer" # "output"
    OBVIOUS
  <2> QED BY <2>1 DEF Core, KnownOK, Is
<1>6. MakesOK(u, q)
  <2>1. MakesOK(o, q)
    BY DEF Core
  <2>2. \A i \in 1..Len(q) : q[i].what \in Makers \union {"sync"} => q[i].id # 0
    BY <2>1 DEF MakesOK, Makers, Others
  <2> QED BY <2>1, <2>2 DEF MakesOK
<1>7. ObjectsSure(u, q)
  BY DEF Core, ObjectsSure, Loose
<1>8. TargetsOK(u, q)
  <2>1. TargetsOK(o, q)
    BY DEF Core
  <2>2. \A id, kind : Is(o, id, kind) => Is(u, id, kind)
    BY DEF Is
  <2> QED BY <2>1, <2>2 DEF TargetsOK
<1>9. EventsOK(u, E)
  BY <1>1 DEF Core, EventsOK, EventOK, Extends
<1> QED BY <1>1, <1>4, <1>5, <1>6, <1>7, <1>8, <1>9 DEF Core

-----------------------------------------------------------------------------
(* The server handles a request r: what it knows then, and what it tells.  *)
objects == client.objects

MayKnow(r) ==
    /\ \A id \in DOMAIN server.known \ {ServerId} :
        id \in DOMAIN server'.known /\ server'.known[id] = server.known[id]
    /\ \A id \in DOMAIN server'.known :
        id \in DOMAIN server.known \union {ServerId} \/ (id = r.id /\ r.what \in Makers)
    /\ r.what \in Makers \ {"create_image"} => r.id \in DOMAIN server'.known
    /\ r.what \in Makers /\ r.id \in DOMAIN server'.known =>
        /\ server'.known[r.id][1] = objects[r.id]
        /\ objects[r.id] = "output" => server'.known[r.id][2] \in Int
    /\ server'.shots \in Seq(Events)
    /\ \A k \in 1..Len(server'.shots) : EventOK(objects, server'.shots[k]) /\ server'.shots[k].what = "shot"

MayTell(r, told) ==
    /\ told \in Seq(Events)
    /\ \A k \in 1..Len(told) :
        /\ EventOK(objects, told[k]) /\ told[k].to \in {r.to, r.id} /\ told[k].to # 0
        /\ told[k].what = "delete_id" =>
            r.what = "sync" /\ told[k].of = r.id /\ k = Len(told) /\ told[k].to = r.to

LEMMA CoreServes ==
    ASSUME Core(objects, requests, pending), requests # <<>>, NEW told,
           MayKnow(Head(requests)), MayTell(Head(requests), told),
           objects' = objects, screens' = screens, requests' = Tail(requests), pending' = pending \o told
    PROVE  Core(objects, requests, pending)'
<1> DEFINE r == Head(requests)
<1> DEFINE Later(n, id) == id \in DOMAIN server'.known \/ \E j \in 1..n : requests'[j].id = id
<1>1. /\ requests' \in Seq(Requests) /\ r = requests[1] /\ 1 \in 1..Len(requests) /\ r \in Requests
      /\ Len(requests) \in Nat \ {0} /\ Len(requests') = Len(requests) - 1
      /\ \A i \in 1..Len(requests') : i + 1 \in 1..Len(requests) /\ i + 1 # 1 /\ requests'[i] = requests[i + 1]
      /\ \A i \in 1..Len(requests) :
            i # 1 => i - 1 \in 1..Len(requests') /\ requests'[i - 1] = requests[i]
  BY Tailing DEF Core
<1>2. /\ pending' \in Seq(Events) /\ Len(pending') = Len(pending) + Len(told)
      /\ Len(pending) \in Nat /\ Len(told) \in Nat
      /\ \A k \in 1..Len(pending) : pending'[k] = pending[k]
      /\ \A k \in 1..Len(told) : pending'[Len(pending) + k] = told[k]
      /\ \A k \in 1..Len(pending') :
            k \in 1..Len(pending) \/ \E j \in 1..Len(told) : k = Len(pending) + j
  BY Joining DEF Core, MayTell
<1>3. Globals' = Globals
  BY DEF Globals
<1>4. /\ KnownOK(objects) /\ MakesOK(objects, requests) /\ ObjectsSure(objects, requests)
      /\ TargetsOK(objects, requests) /\ EventsOK(objects, pending) /\ DeletesOK(requests, pending)
      /\ ObjectsOK(objects)
  BY DEF Core
<1>5. /\ r.what \in Makers \union {"sync"} => r.id \in DOMAIN objects /\ r.id # 0 /\ r.id # ServerId
      /\ r.id \notin DOMAIN server.known
      /\ r.what \in Makers => objects[r.id] \notin Callbacks
  <2>1. /\ r.id # 0 <=> r.what \notin Others
        /\ r.id # 0 => r.id \in DOMAIN objects \ DOMAIN server.known /\ r.id # ServerId
        /\ r.what \in Makers => objects[r.id] = Makes(r) /\ Makes(r) \notin Callbacks
    BY <1>1, <1>4 DEF MakesOK
  <2>2. 0 \notin DOMAIN server.known
    BY <1>4 DEF KnownOK
  <2>3. \A what \in Makers \union {"sync"} : what \notin Others
    BY DEF Makers, Others
  <2> QED BY <2>1, <2>2, <2>3
<1>6. \A i \in 1..Len(requests) : i # 1 /\ requests[i].id # 0 => requests[i].id # r.id
  BY <1>1, <1>4 DEF MakesOK
<1>7. objects[r.to] \notin Callbacks
  <2>1. objects[r.to] = Target(r.what)
    BY <1>1, <1>4 DEF TargetsOK, Is
  <2> QED BY <2>1, TargetNotLoose DEF Loose
<1>8. \A id : id \in DOMAIN server'.known /\ id # ServerId =>
            id \in DOMAIN server.known \/ (id = r.id /\ r.what \in Makers)
  BY DEF MayKnow
<1>9. \A n \in 1..Len(requests), id \in DOMAIN objects \ {ServerId} :
            objects[id] \notin Loose /\ Sure(requests, n, id) => Later(n - 1, id)
  <2> SUFFICES ASSUME NEW n \in 1..Len(requests), NEW id \in DOMAIN objects \ {ServerId},
                      objects[id] \notin Loose, Sure(requests, n, id)
               PROVE  Later(n - 1, id)
    OBVIOUS
  <2>1. CASE id \in DOMAIN server.known
    BY <2>1 DEF MayKnow
  <2>2. CASE id \notin DOMAIN server.known
    <3>1. PICK j \in 1..n : requests[j].id = id
      BY <2>2 DEF Sure
    <3>2. j \in 1..Len(requests) /\ id # 0
      BY <1>1, <1>4 DEF ObjectsOK
    <3>3. CASE j = 1
      <4>1. r.id = id /\ r.what \notin Others
        BY <1>1, <1>4, <3>1, <3>2, <3>3 DEF MakesOK
      <4>2. r.what # "sync"
        <5>1. r.what = "sync" => objects[r.id] \in Callbacks
          BY <1>1, <1>4 DEF MakesOK
        <5> QED BY <4>1, <5>1 DEF Loose
      <4>3. r.what # "create_image"
        <5>1. r.what \in Makers => objects[r.id] = Makes(r)
          BY <1>1, <1>4 DEF MakesOK
        <5>2. r.what = "create_image" => r.what \in Makers /\ Makes(r) = "drm_buffer"
          BY DEF Makers, Makes
        <5> QED BY <4>1, <5>1, <5>2 DEF Loose
      <4>4. r.what \in Makers
        BY <1>1, <4>1, <4>2 DEF Requests
      <4> QED BY <4>1, <4>3, <4>4 DEF MayKnow
    <3>4. CASE j # 1
      <4>1. j - 1 \in 1..(n - 1) /\ requests'[j - 1] = requests[j]
        BY <1>1, <3>2, <3>4
      <4> QED BY <3>1, <4>1
    <3> QED BY <3>3, <3>4
  <2> QED BY <2>1, <2>2
<1>10. KnownOK(objects)'
  <2> SUFFICES ASSUME NEW id \in DOMAIN server'.known
               PROVE  /\ id # 0
                      /\ id # ServerId => Is(objects, id, server'.known[id][1]) /\ objects[id] \notin Callbacks
                      /\ Is(objects, id, "output") => server'.known[id][2] \in Int
    BY DEF KnownOK, Is
  <2>1. CASE id = ServerId
    <3>1. ~Is(objects, ServerId, "output") /\ ServerId # 0
      BY <1>4 DEF ObjectsOK, Is, ServerId
    <3> QED BY <2>1, <3>1
  <2>2. CASE id # ServerId /\ id \in DOMAIN server.known
    <3>1. server'.known[id] = server.known[id]
      BY <2>2 DEF MayKnow
    <3> QED BY <1>4, <2>2, <3>1 DEF KnownOK
  <2>3. CASE id # ServerId /\ id \notin DOMAIN server.known
    <3>1. id = r.id /\ r.what \in Makers
      BY <1>8, <2>3
    <3>2. server'.known[r.id][1] = objects[r.id] /\ (objects[r.id] = "output" => server'.known[r.id][2] \in Int)
      BY <3>1 DEF MayKnow
    <3> QED BY <1>5, <3>1, <3>2 DEF Is
  <2> QED BY <2>1, <2>2, <2>3
<1>11. MakesOK(objects, requests)'
  <2>1. ASSUME NEW i \in 1..Len(requests')
        PROVE  /\ requests'[i].id # 0 <=> requests'[i].what \notin Others
               /\ requests'[i].id # 0 => /\ requests'[i].id \in DOMAIN objects \ DOMAIN server'.known
                                         /\ requests'[i].id # ServerId
               /\ requests'[i].what = "sync" => objects[requests'[i].id] \in Callbacks
               /\ requests'[i].what = "bind" => requests'[i].of \in DOMAIN Globals
               /\ requests'[i].what \in Makers => objects[requests'[i].id] = Makes(requests'[i])
                                                  /\ Makes(requests'[i]) \notin Callbacks
    <3>1. i + 1 \in 1..Len(requests) /\ i + 1 # 1 /\ requests'[i] = requests[i + 1]
      BY <1>1
    <3>2. requests[i + 1].id # 0 => requests[i + 1].id \notin DOMAIN server'.known
      <4>1. requests[i + 1].id # 0 => requests[i + 1].id # r.id /\ requests[i + 1].id # ServerId
                                      /\ requests[i + 1].id \notin DOMAIN server.known
        BY <1>4, <1>6, <3>1 DEF MakesOK
      <4> QED BY <1>8, <4>1
    <3> QED BY <1>4, <3>1, <3>2 DEF MakesOK
  <2>2. ASSUME NEW i \in 1..Len(requests'), NEW j \in 1..Len(requests'),
               requests'[i].id # 0, requests'[i].id = requests'[j].id
        PROVE  i = j
    <3>1. /\ i + 1 \in 1..Len(requests) /\ requests'[i] = requests[i + 1]
          /\ j + 1 \in 1..Len(requests) /\ requests'[j] = requests[j + 1]
      BY <1>1
    <3>2. i + 1 = j + 1
      BY <1>4, <2>2, <3>1 DEF MakesOK
    <3> QED BY <3>2
  <2>3. \A s : Makes(s)' = Makes(s)
    BY <1>3 DEF Makes
  <2>4. ASSUME NEW i \in 1..Len(requests')
        PROVE  Makes(requests[i])' = Makes(requests'[i])
    BY <1>3 DEF Makes
  <2> QED BY <1>3, <2>1, <2>2, <2>4 DEF MakesOK
<1> HIDE DEF Later
<1>12. \A n, id : Later(n, id) => Sure(requests, n, id)'
  BY DEF Later, Sure
<1>13. ObjectsSure(objects, requests)'
  <2> SUFFICES ASSUME NEW id \in DOMAIN objects, objects[id] \notin Loose
               PROVE  Sure(requests, Len(requests), id)'
    BY DEF ObjectsSure
  <2>1. id # ServerId
    BY <1>4 DEF ObjectsOK, Loose
  <2>2. Sure(requests, Len(requests), id)
    BY <1>4 DEF ObjectsSure
  <2>3. Later(Len(requests'), id)
    BY <1>1, <1>9, <2>1, <2>2
  <2> QED BY <2>3 DEF Later, Sure
<1>14. \A n \in 1..Len(requests) : \A id, kind :
            Is(objects, id, kind) /\ kind \notin Loose /\ Sure(requests, n, id) => Later(n - 1, id)
  BY <1>4, <1>9 DEF ObjectsOK, Is, Loose
<1>15. TargetsOK(objects, requests)'
  <2> SUFFICES ASSUME NEW i \in 1..Len(requests')
               PROVE  /\ Is(objects, requests'[i].to, Target(requests'[i].what)) /\ Later(i - 1, requests'[i].to)
                      /\ requests'[i].what = "shoot" =>
                        /\ requests'[i].of \in [output : Int, buffer : Int]
                        /\ Is(objects, requests'[i].of.output, "output") /\ Later(i - 1, requests'[i].of.output)
                        /\ Is(objects, requests'[i].of.buffer, "shm_buffer") /\ Later(i - 1, requests'[i].of.buffer)
    BY <1>12 DEF TargetsOK, Is, Later, Sure
  <2>1. i + 1 \in 1..Len(requests) /\ (i + 1) - 1 = i /\ i \in 1..Len(requests) /\ requests'[i] = requests[i + 1]
    BY <1>1
  <2>2. /\ Is(objects, requests[i + 1].to, Target(requests[i + 1].what)) /\ Sure(requests, i, requests[i + 1].to)
        /\ requests[i + 1].what = "shoot" =>
            /\ requests[i + 1].of \in [output : Int, buffer : Int]
            /\ Is(objects, requests[i + 1].of.output, "output") /\ Sure(requests, i, requests[i + 1].of.output)
            /\ Is(objects, requests[i + 1].of.buffer, "shm_buffer") /\ Sure(requests, i, requests[i + 1].of.buffer)
    BY <1>4, <2>1 DEF TargetsOK
  <2>3. Target(requests[i + 1].what) \notin Loose /\ "output" \notin Loose /\ "shm_buffer" \notin Loose
    BY TargetNotLoose DEF Loose, Callbacks
  <2> QED BY <1>14, <2>1, <2>2, <2>3
<1>16. EventsOK(objects, pending)'
  <2>1. \A e : EventOK(objects, e) => EventOK(objects, e)'
    BY <1>3 DEF EventOK
  <2>2. ASSUME NEW k \in 1..Len(pending') PROVE EventOK(objects, pending'[k])
    <3>1. CASE k \in 1..Len(pending)
      BY <1>2, <1>4, <3>1 DEF EventsOK
    <3>2. ASSUME NEW j \in 1..Len(told), k = Len(pending) + j PROVE EventOK(objects, pending'[k])
      BY <1>2, <3>2 DEF MayTell
    <3> QED BY <1>2, <3>1, <3>2
  <2>3. \A k \in 1..Len(server'.shots) : EventOK(objects, server'.shots[k]) /\ server'.shots[k].what = "shot"
    BY DEF MayKnow
  <2>4. \A k \in 1..Len(pending') : (EventOK(objects, pending[k]))'
    <3> TAKE k \in 1..Len(pending')
    <3>1. EventOK(objects, pending'[k])
      BY <2>2
    <3> QED BY <1>3, <3>1 DEF EventOK
  <2>5. \A k \in 1..Len(server'.shots) : (EventOK(objects, server.shots[k]))'
    <3> TAKE k \in 1..Len(server'.shots)
    <3>1. EventOK(objects, server'.shots[k])
      BY <2>3
    <3> QED BY <1>3, <3>1 DEF EventOK
  <2> QED BY <2>3, <2>4, <2>5 DEF EventsOK
<1>17. \A k \in 1..Len(pending) :
            /\ pending[k].what = "delete_id" =>
                pending[k].of # r.id /\ pending[k].of # r.to
            /\ \A i \in 1..Len(requests) :
                /\ pending[k].what = "delete_id" => requests[i].id # pending[k].of
                /\ requests[i].what = "sync" => pending[k].to # requests[i].id
  <2> TAKE k \in 1..Len(pending)
  <2>1. pending[k].what = "delete_id" => objects[pending[k].of] \in Callbacks
    BY <1>4 DEF EventsOK, EventOK
  <2> QED BY <1>1, <1>4, <1>7, <2>1 DEF DeletesOK
<1>18. \A j \in 1..Len(told) :
            /\ told[j].to \in {r.to, r.id}
            /\ told[j].what = "delete_id" => r.what = "sync" /\ told[j].of = r.id /\ j = Len(told) /\ told[j].to = r.to
  BY DEF MayTell
<1>19. ASSUME NEW k \in 1..Len(pending'), NEW m \in 1..Len(pending'), pending'[k].what = "delete_id"
       PROVE  /\ Deletes(pending'[m], pending'[k].of) => k = m
              /\ k < m => pending'[m].to # pending'[k].of
  <2>1. CASE k \in 1..Len(pending)
    <3>1. pending'[k] = pending[k]
      BY <1>2, <2>1
    <3>2. CASE m \in 1..Len(pending)
      BY <1>2, <1>4, <1>19, <2>1, <3>1, <3>2 DEF DeletesOK
    <3>3. ASSUME NEW j \in 1..Len(told), m = Len(pending) + j
          PROVE  ~Deletes(pending'[m], pending'[k].of) /\ pending'[m].to # pending'[k].of
      <4>1. pending'[m] = told[j]
        BY <1>2, <3>3
      <4>2. pending[k].what = "delete_id" /\ pending[k].of \notin {r.to, r.id}
        BY <1>17, <1>19, <2>1, <3>1
      <4>3. /\ told[j].to \in {r.to, r.id}
            /\ told[j].what = "delete_id" => told[j].of = r.id
        BY <1>18
      <4> QED BY <3>1, <4>1, <4>2, <4>3 DEF Deletes
    <3> QED BY <1>2, <3>2, <3>3
  <2>2. ASSUME NEW j \in 1..Len(told), k = Len(pending) + j
        PROVE  /\ Deletes(pending'[m], pending'[k].of) => k = m
               /\ ~(k < m)
    <3>1. pending'[k] = told[j]
      BY <1>2, <2>2
    <3>2. pending'[k].of = r.id /\ j = Len(told)
      BY <1>18, <1>19, <3>1
    <3>3. k = Len(pending') /\ ~(k < m)
      BY <1>2, <2>2, <3>2
    <3>4. CASE m \in 1..Len(pending)
      BY <1>2, <1>17, <3>2, <3>3, <3>4 DEF Deletes
    <3>5. ASSUME NEW l \in 1..Len(told), m = Len(pending) + l
          PROVE  Deletes(pending'[m], pending'[k].of) => k = m
      <4>1. pending'[m] = told[l]
        BY <1>2, <3>5
      <4>2. told[l].what = "delete_id" => l = Len(told)
        BY <1>18
      <4> QED BY <2>2, <3>2, <3>5, <4>1, <4>2 DEF Deletes
    <3> QED BY <1>2, <3>3, <3>4, <3>5
  <2> QED BY <1>2, <2>1, <2>2
<1>20. ASSUME NEW k \in 1..Len(pending'), NEW i \in 1..Len(requests')
       PROVE  /\ pending'[k].what = "delete_id" => requests'[i].id # pending'[k].of
              /\ requests'[i].what = "sync" => pending'[k].to # requests'[i].id
  <2>1. i + 1 \in 1..Len(requests) /\ i + 1 # 1 /\ requests'[i] = requests[i + 1]
    BY <1>1
  <2>2. CASE k \in 1..Len(pending)
    <3>1. pending'[k] = pending[k]
      BY <1>2, <2>2
    <3> QED BY <1>17, <2>1, <2>2, <3>1
  <2>3. ASSUME NEW j \in 1..Len(told), k = Len(pending) + j
        PROVE  /\ pending'[k].what = "delete_id" => requests'[i].id # pending'[k].of
               /\ requests'[i].what = "sync" => pending'[k].to # requests'[i].id
    <3>1. pending'[k] = told[j]
      BY <1>2, <2>3
    <3>2. r.what = "sync" => r.id # 0
      BY <1>5
    <3>3. requests[i + 1].what = "sync" => requests[i + 1].id # 0 /\ requests[i + 1].id # r.to
      <4>1. requests[i + 1].what = "sync" => requests[i + 1].id # 0 /\ objects[requests[i + 1].id] \in Callbacks
        BY <1>4, <2>1 DEF MakesOK, Others
      <4> QED BY <1>7, <4>1
    <3> QED BY <1>6, <1>18, <2>1, <3>1, <3>2, <3>3
  <2> QED BY <1>2, <2>2, <2>3
<1>21. DeletesOK(requests, pending)'
  BY <1>19, <1>20 DEF DeletesOK, Deletes
<1>22. ObjectsOK(objects)'
  BY <1>4 DEF ObjectsOK, Is
<1>23. server'.shots \in Seq(Events)
  BY DEF MayKnow
<1> QED BY <1>1, <1>2, <1>10, <1>11, <1>13, <1>15, <1>16, <1>21, <1>22, <1>23 DEF Core

-----------------------------------------------------------------------------
(* What the handlers of the server do.                                     *)
LEMMA GlobalsOK ==
    ASSUME screens \in Nat
    PROVE  /\ Globals \in Seq(Interfaces) /\ Len(Globals) = 7 + screens /\ Len(Announced) = 7
           /\ DOMAIN Globals = 1..(7 + screens)
           /\ \A n \in DOMAIN Globals : n \in Int /\ Globals[n] \in Interfaces
           /\ \A n \in 1..7 : Globals[n] = Announced[n]
           /\ \A n \in 8..(7 + screens) : Globals[n] = "output"
<1> DEFINE displays == [i \in 1..screens |-> "output"]
<1>1. Announced \in Seq(Interfaces) /\ Len(Announced) = 7
  BY DEF Announced, Interfaces
<1>2. displays \in Seq(Interfaces) /\ Len(displays) = screens
  BY DEF Interfaces
<1>3. Globals = Announced \o displays
  BY DEF Globals
<1> HIDE DEF displays
<1>4. /\ Globals \in Seq(Interfaces) /\ Len(Globals) = 7 + screens
      /\ \A n \in 1..7 : Globals[n] = Announced[n]
      /\ \A n \in 1..screens : Globals[7 + n] = displays[n]
  <2>1. /\ Announced \o displays \in Seq(Interfaces) /\ Len(Announced \o displays) = Len(Announced) + Len(displays)
        /\ \A n \in 1..Len(Announced) : (Announced \o displays)[n] = Announced[n]
        /\ \A n \in 1..Len(displays) : (Announced \o displays)[Len(Announced) + n] = displays[n]
    <3>1. \A a, b \in Seq(Interfaces) :
            /\ a \o b \in Seq(Interfaces) /\ Len(a \o b) = Len(a) + Len(b)
            /\ \A n \in 1..Len(a) : (a \o b)[n] = a[n]
            /\ \A n \in 1..Len(b) : (a \o b)[Len(a) + n] = b[n]
      BY Joining
    <3> QED BY <1>1, <1>2, <3>1
  <2> QED BY <1>1, <1>2, <1>3, <2>1
<1>5. DOMAIN Globals = 1..(7 + screens) /\ \A n \in DOMAIN Globals : n \in Int /\ Globals[n] \in Interfaces
  BY <1>4
<1>6. ASSUME NEW n \in 8..(7 + screens) PROVE Globals[n] = "output"
  <2>1. n - 7 \in 1..screens /\ 7 + (n - 7) = n
    OBVIOUS
  <2> QED BY <1>4, <2>1 DEF displays
<1> QED BY <1>1, <1>4, <1>5, <1>6

(* The objects of a request that is handled are known, or new.             *)
Handleable(r) ==
    /\ r \in Requests /\ r.to \in DOMAIN server.known /\ r.to # 0
    /\ Is(objects, r.to, Target(r.what))
    /\ r.what \in Makers \union {"sync"} =>
        r.id \in DOMAIN objects /\ r.id # 0 /\ r.id # ServerId /\ r.id \notin DOMAIN server.known
    /\ r.what \in Makers => objects[r.id] = Makes(r)
    /\ r.what = "sync" => objects[r.id] \in Callbacks
    /\ r.what = "bind" => r.of \in DOMAIN Globals
    /\ r.what = "shoot" =>
        /\ r.of \in [output : Int, buffer : Int]
        /\ r.of.output \in DOMAIN server.known /\ Is(objects, r.of.output, "output")
        /\ r.of.buffer \in DOMAIN server.known /\ Is(objects, r.of.buffer, "shm_buffer")

LEMMA HeadHandleable ==
    ASSUME Core(objects, requests, pending), requests # <<>>
    PROVE  Handleable(Head(requests))
<1>1. Head(requests) = requests[1] /\ 1 \in 1..Len(requests) /\ requests[1] \in Requests
  BY Tailing DEF Core
<1>2. \A id : Sure(requests, 0, id) => id \in DOMAIN server.known
  BY DEF Sure
<1>3. /\ Is(objects, requests[1].to, Target(requests[1].what)) /\ Sure(requests, 0, requests[1].to)
      /\ requests[1].what = "shoot" =>
            /\ requests[1].of \in [output : Int, buffer : Int]
            /\ Is(objects, requests[1].of.output, "output") /\ Sure(requests, 0, requests[1].of.output)
            /\ Is(objects, requests[1].of.buffer, "shm_buffer") /\ Sure(requests, 0, requests[1].of.buffer)
  BY <1>1 DEF Core, TargetsOK
<1>4. 0 \notin DOMAIN server.known
  BY DEF Core, KnownOK
<1>5. MakesOK(objects, requests)
  BY DEF Core
<1>6. requests[1].what \in Makers \union {"sync"} => requests[1].id # 0
  BY <1>1, <1>5 DEF MakesOK, Makers, Others
<1>7. /\ requests[1].what \in Makers \union {"sync"} =>
            requests[1].id \in DOMAIN objects /\ requests[1].id # ServerId
            /\ requests[1].id \notin DOMAIN server.known
      /\ requests[1].what \in Makers => objects[requests[1].id] = Makes(requests[1])
      /\ requests[1].what = "sync" => objects[requests[1].id] \in Callbacks
      /\ requests[1].what = "bind" => requests[1].of \in DOMAIN Globals
  BY <1>1, <1>5, <1>6 DEF MakesOK
<1> QED BY <1>1, <1>2, <1>3, <1>4, <1>6, <1>7 DEF Handleable

ShotsOK ==
    /\ server.shots \in Seq(Events)
    /\ \A k \in 1..Len(server.shots) : EventOK(objects, server.shots[k]) /\ server.shots[k].what = "shot"

LEMMA KnowsMade ==
    ASSUME NEW r, Handleable(r), ShotsOK, r.what \in Makers, NEW k,
           k[1] = objects[r.id], objects[r.id] = "output" => k[2] \in Int,
           server'.known = With(server.known, r.id, k), server'.shots = server.shots
    PROVE  MayKnow(r)
<1>1. r.id \notin DOMAIN server.known
  BY DEF Handleable
<1>2. /\ DOMAIN server'.known = DOMAIN server.known \union {r.id}
      /\ server'.known[r.id] = k
      /\ \A i \in DOMAIN server.known : server'.known[i] = server.known[i]
  BY <1>1 DEF With
<1> QED BY <1>2 DEF MayKnow, ShotsOK

LEMMA KnowsSame ==
    ASSUME NEW r, Handleable(r), ShotsOK, r.what \notin Makers \ {"create_image"},
           server'.known = server.known, server'.shots = server.shots
    PROVE  MayKnow(r)
<1>1. r.what \in Makers => r.id \notin DOMAIN server.known
  BY DEF Handleable
<1> QED BY <1>1 DEF MayKnow, ShotsOK


LEMMA Telling ==
    ASSUME NEW what \in Whats, NEW to \in Int, NEW of \in Int \union [name : Int, interface : Interfaces]
    PROVE  /\ Event(what, to, of) \in Events /\ Event(what, to, of).what = what
           /\ Event(what, to, of).to = to /\ Event(what, to, of).of = of
BY DEF Event, Events

LEMMA TellingGlobal ==
    ASSUME NEW to \in Int, NEW of \in [name : Int, interface : Interfaces]
    PROVE  /\ Event("global", to, of) \in Events /\ Event("global", to, of).what = "global"
           /\ Event("global", to, of).to = to /\ Event("global", to, of).of = of
BY DEF Event, Events, Whats

LEMMA ServesRegistry ==
    ASSUME NEW r, Handleable(r), ShotsOK, screens \in Nat, DOMAIN server = {"known", "shots"},
           r.what = "get_registry", server' = GetRegistry(server, r).server
    PROVE  MayKnow(r) /\ MayTell(r, GetRegistry(server, r).told)
<1>1. objects[r.id] = "registry" /\ r.id \in DOMAIN objects /\ r.id # 0 /\ r.id \in Int /\ r.what \in Makers
  BY DEF Handleable, Makers, Makes, Requests
<1>2. MayKnow(r)
  <2>1. server' = Knows(server, r.id, <<"registry">>)
    BY DEF GetRegistry
  <2>2. server'.known = With(server.known, r.id, <<"registry">>) /\ server'.shots = server.shots
    BY <2>1 DEF Knows
  <2> QED BY <1>1, <2>2, KnowsMade
<1> DEFINE told == [n \in DOMAIN Globals |-> Event("global", r.id, [name |-> n, interface |-> Globals[n]])]
<1>3. /\ DOMAIN Globals = 1..(7 + screens) /\ 7 + screens \in Nat
      /\ \A n \in DOMAIN Globals : n \in Int /\ Globals[n] \in Interfaces
  BY GlobalsOK
<1>4. ASSUME NEW n \in DOMAIN Globals
      PROVE  /\ told[n] \in Events /\ told[n].what = "global" /\ told[n].to = r.id
             /\ told[n].of = [name |-> n, interface |-> Globals[n]]
  <2> DEFINE value == [name |-> n, interface |-> Globals[n]]
  <2>1. "global" \in Whats /\ value \in [name : Int, interface : Interfaces]
    BY <1>3 DEF Whats
  <2>2. told[n] = Event("global", r.id, value)
    OBVIOUS
  <2> HIDE DEF told, value
  <2>4. /\ told[n] \in Events /\ told[n].what = "global" /\ told[n].to = r.id
        /\ told[n].of = value
    <3>1. /\ Event("global", r.id, value) \in Events /\ Event("global", r.id, value).what = "global"
          /\ Event("global", r.id, value).to = r.id /\ Event("global", r.id, value).of = value
      BY <1>1, <2>1, TellingGlobal
    <3> QED BY <2>2, <3>1
  <2> QED BY <2>4 DEF value
<1>5. told \in Seq(Events) /\ Len(told) = 7 + screens
  BY <1>3, <1>4
<1>6. GetRegistry(server, r).told = told
  BY DEF GetRegistry
<1> HIDE DEF told
<1>7. ASSUME NEW n \in 1..Len(told)
      PROVE  EventOK(objects, told[n]) /\ told[n].to = r.id /\ told[n].what = "global"
  <2>1. n \in DOMAIN Globals
    BY <1>3, <1>5
  <2>2. /\ told[n].of \in [name : Int, interface : Interfaces] /\ told[n].of.name = n
        /\ told[n].of.interface = Globals[n]
    <3>1. told[n].of = [name |-> n, interface |-> Globals[n]]
      BY <1>4, <2>1
    <3>2. n \in Int /\ Globals[n] \in Interfaces
      BY <1>3, <2>1
    <3> QED BY <3>1, <3>2
  <2>3. told[n].what = "global" /\ told[n].to = r.id
    BY <1>4, <2>1
  <2> QED BY <1>1, <2>1, <2>2, <2>3 DEF EventOK, Recipient
<1> QED BY <1>1, <1>2, <1>5, <1>6, <1>7 DEF MayTell

LEMMA ServesSync ==
    ASSUME NEW r, Handleable(r), ShotsOK,
           r.what = "sync", server' = Sync(server, r).server
    PROVE  MayKnow(r) /\ MayTell(r, Sync(server, r).told)
<1>1. /\ objects[r.id] \in Callbacks /\ r.id \in DOMAIN objects /\ r.id # 0 /\ r.id \in Int
      /\ r.to \in DOMAIN objects /\ objects[r.to] = "display" /\ r.to # 0 /\ r.to \in Int
  BY DEF Handleable, Target, Requests, Is
<1>2. MayKnow(r)
  BY KnowsSame DEF Sync, Makers
<1> DEFINE done == Event("done", r.id, 0)
           delete == Event("delete_id", r.to, r.id)
<1>3. /\ done \in Events /\ done.what = "done" /\ done.to = r.id
      /\ delete \in Events /\ delete.what = "delete_id" /\ delete.to = r.to /\ delete.of = r.id
  BY <1>1, Telling DEF Whats
<1>4. Sync(server, r).told = <<done, delete>>
  BY DEF Sync
<1> HIDE DEF done, delete
<1>5. EventOK(objects, done) /\ EventOK(objects, delete)
  BY <1>1, <1>3 DEF EventOK, Recipient, Callbacks
<1>6. /\ <<done, delete>> \in Seq(Events) /\ Len(<<done, delete>>) = 2
      /\ \A k \in 1..2 : \/ k = 1 /\ <<done, delete>>[k] = done
                         \/ k = 2 /\ <<done, delete>>[k] = delete
  BY <1>3
<1> QED BY <1>1, <1>2, <1>3, <1>4, <1>5, <1>6 DEF MayTell

LEMMA ServesBind ==
    ASSUME NEW r, Handleable(r), ShotsOK, screens \in Nat, DOMAIN server = {"known", "shots"},
           r.what = "bind", server' = RegistryBind(server, r).server
    PROVE  MayKnow(r) /\ MayTell(r, RegistryBind(server, r).told)
<1> DEFINE kind == Globals[r.of]
<1>1. /\ objects[r.id] = kind /\ r.id \in DOMAIN objects /\ r.id # 0 /\ r.id \in Int /\ r.what \in Makers
      /\ r.of \in DOMAIN Globals
  BY DEF Handleable, Makers, Makes, Requests
<1>2. r.of \in Int /\ Len(Announced) = 7
  BY <1>1, GlobalsOK
<1>3. MayKnow(r)
  <2> DEFINE k == IF kind = "output" THEN <<kind, r.of - Len(Announced)>> ELSE <<kind>>
  <2>1. server'.known = With(server.known, r.id, k) /\ server'.shots = server.shots
    BY DEF RegistryBind, Knows
  <2>2. k[1] = kind /\ (kind = "output" => k[2] \in Int)
    BY <1>2
  <2> HIDE DEF k
  <2> QED BY <1>1, <2>1, <2>2, KnowsMade
<1> DEFINE told == RegistryBind(server, r).told
<1>4. CASE kind = "output"
  <2>1. told = OutputNew(r)
    BY <1>4 DEF RegistryBind
  <2> DEFINE e1 == Event("geometry", r.id, (r.of - Len(Announced) - 1) * Width)
             e2 == Event("mode", r.id, Width)
             e3 == Event("output_done", r.id, 0)
  <2>2. told = <<e1, e2, e3>>
    BY <2>1 DEF OutputNew
  <2>3. (r.of - Len(Announced) - 1) * Width \in Int /\ Width \in Int
    BY <1>2, WidthAssumption
  <2>4. /\ e1 \in Events /\ e1.what = "geometry" /\ e1.to = r.id /\ e1.of \in Int
        /\ e2 \in Events /\ e2.what = "mode" /\ e2.to = r.id /\ e2.of = Width
        /\ e3 \in Events /\ e3.what = "output_done" /\ e3.to = r.id
    BY <1>1, <2>3, Telling DEF Whats
  <2> HIDE DEF e1, e2, e3
  <2>5. EventOK(objects, e1) /\ EventOK(objects, e2) /\ EventOK(objects, e3)
    BY <1>1, <1>4, <2>4 DEF EventOK, Recipient
  <2>6. /\ told \in Seq(Events) /\ Len(told) = 3
        /\ \A k \in 1..3 : told[k] = e1 \/ told[k] = e2 \/ told[k] = e3
    BY <2>2, <2>4
  <2>7. \A k \in 1..Len(told) : EventOK(objects, told[k]) /\ told[k].to = r.id /\ told[k].what # "delete_id"
    BY <2>4, <2>5, <2>6
  <2> QED BY <1>1, <1>3, <2>6, <2>7 DEF MayTell
<1>5. CASE kind # "output"
  <2>1. told = IF kind = "drm" THEN DrmNew(r) ELSE <<>>
    BY <1>5 DEF RegistryBind
  <2>2. CASE told = <<>>
    <3>1. told \in Seq(Events) /\ Len(told) = 0
      BY <2>2
    <3> QED BY <1>3, <3>1 DEF MayTell
  <2>3. CASE told # <<>>
    <3> DEFINE e == Event("device", r.id, 0)
    <3>1. kind = "drm" /\ told = <<e>>
      BY <2>1, <2>3 DEF DrmNew
    <3>2. e \in Events /\ e.what = "device" /\ e.to = r.id
      BY <1>1, Telling DEF Whats
    <3>3. EventOK(objects, e)
      BY <1>1, <3>1, <3>2 DEF EventOK, Recipient
    <3> HIDE DEF e
    <3>4. told \in Seq(Events) /\ Len(told) = 1 /\ told[1] = e
      BY <3>1, <3>2
    <3> QED BY <1>1, <1>3, <3>2, <3>3, <3>4 DEF MayTell
  <2> QED BY <2>2, <2>3
<1> QED BY <1>4, <1>5

(* What is answered with at most one event about the object it was for.    *)
LEMMA TellsOne ==
    ASSUME NEW r, Handleable(r), NEW what \in {"authenticated", "created", "failed"}, NEW of,
           objects[r.to] \in Recipient(what), of \in Int, what = "created" => of = ServerId
    PROVE  MayTell(r, <<Event(what, r.to, of)>>)
<1> DEFINE e == Event(what, r.to, of)
<1>1. r.to \in DOMAIN objects /\ r.to # 0 /\ r.to \in Int
  BY DEF Handleable, Requests, Is
<1>2. e \in Events /\ e.what = what /\ e.to = r.to /\ e.of = of
  BY <1>1, Telling DEF Whats
<1>3. EventOK(objects, e)
  BY <1>1, <1>2 DEF EventOK
<1> HIDE DEF e
<1>4. <<e>> \in Seq(Events) /\ Len(<<e>>) = 1 /\ <<e>>[1] = e
  BY <1>2
<1> QED BY <1>1, <1>2, <1>3, <1>4 DEF MayTell, e

LEMMA TellsNone ==
    ASSUME NEW r PROVE MayTell(r, <<>>)
<1>1. <<>> \in Seq(Events) /\ Len(<<>>) = 0
  OBVIOUS
<1> QED BY <1>1 DEF MayTell

LEMMA ServesShoot ==
    ASSUME NEW r, Handleable(r), ShotsOK, KnownOK(objects), DOMAIN server = {"known", "shots"},
           r.what = "shoot", server' = ScreenshooterShoot(server, r).server
    PROVE  MayKnow(r)
<1> DEFINE e == Event("shot", r.to, server.known[r.of.output][2])
<1>1. r.to \in DOMAIN objects /\ objects[r.to] = "screenshooter" /\ r.to \in Int
  BY DEF Handleable, Target, Requests, Is
<1>2. server.known[r.of.output][2] \in Int
  BY DEF Handleable, KnownOK
<1>3. e \in Events /\ e.what = "shot" /\ e.to = r.to /\ e.of \in Int
  BY <1>1, <1>2, Telling DEF Whats
<1>4. EventOK(objects, e)
  BY <1>1, <1>3 DEF EventOK, Recipient
<1>5. server'.known = server.known /\ server'.shots = Append(server.shots, e)
  BY DEF ScreenshooterShoot
<1> HIDE DEF e
<1>6. /\ server'.shots \in Seq(Events)
      /\ \A k \in 1..Len(server'.shots) :
            \/ server'.shots[k] = e
            \/ k \in 1..Len(server.shots) /\ server'.shots[k] = server.shots[k]
  <2>1. server.shots \in Seq(Events)
    BY DEF ShotsOK
  <2>2. /\ Append(server.shots, e) \in Seq(Events) /\ Append(server.shots, e)[Len(server.shots) + 1] = e
        /\ \A i \in 1..Len(server.shots) : Append(server.shots, e)[i] = server.shots[i]
        /\ \A i \in 1..Len(Append(server.shots, e)) :
                i \in 1..Len(server.shots) \/ i = Len(server.shots) + 1
    BY <1>3, <2>1, Appending
  <2> QED BY <1>5, <2>2
<1>7. \A k \in 1..Len(server'.shots) : EventOK(objects, server'.shots[k]) /\ server'.shots[k].what = "shot"
  BY <1>3, <1>4, <1>6 DEF ShotsOK
<1> QED BY <1>5, <1>6, <1>7 DEF MayKnow, Makers

LEMMA ServesParams ==
    ASSUME NEW r, Handleable(r), ShotsOK, DOMAIN server = {"known", "shots"},
           r.what = "create", server' = ParamsCreate(server, r).server
    PROVE  MayKnow(r) /\ MayTell(r, ParamsCreate(server, r).told)
<1>1. objects[r.to] = "params" /\ r.what \notin Makers
  BY DEF Handleable, Target, Is, Makers
<1>2. CASE "import" \in works
  <2>1. server'.known = With(server.known, ServerId, <<"dmabuf_buffer">>) /\ server'.shots = server.shots
    BY <1>2 DEF ParamsCreate, Knows
  <2>2. MayKnow(r)
    BY <1>1, <2>1 DEF With, MayKnow, ShotsOK
  <2>3. ParamsCreate(server, r).told = <<Event("created", r.to, ServerId)>> /\ ServerId \in Int
    BY <1>2 DEF ParamsCreate, ServerId
  <2> QED BY <1>1, <2>2, <2>3, TellsOne DEF Recipient
<1>3. CASE "import" \notin works
  <2>1. server' = server /\ ParamsCreate(server, r).told = <<Event("failed", r.to, 0)>>
    BY <1>3 DEF ParamsCreate
  <2>2. MayKnow(r)
    BY <1>1, <2>1, KnowsSame
  <2> QED BY <1>1, <2>1, <2>2, TellsOne DEF Recipient
<1> QED BY <1>2, <1>3


Quiet == {"add", "set_toplevel", "attach", "commit"}
Plain == {"create_pool", "create_buffer", "create_params", "create_surface", "get_shell_surface"}

LEMMA ServesRest ==
    ASSUME NEW r, Handleable(r), ShotsOK, DOMAIN server = {"known", "shots"},
           r.what \in {"authenticate", "create_image"} \union Quiet \union Plain,
           server' = Served(server, r).server
    PROVE  MayKnow(r) /\ MayTell(r, Served(server, r).told)
<1>1. CASE r.what = "authenticate"
  <2>1. Served(server, r) = DrmAuthenticate(server, r)
    BY <1>1 DEF Served
  <2>2. server' = server /\ Served(server, r).told = <<Event("authenticated", r.to, 0)>>
    BY <2>1 DEF DrmAuthenticate
  <2>3. objects[r.to] = "drm"
    BY <1>1 DEF Handleable, Target, Is
  <2>4. r.what \notin Makers
    BY <1>1 DEF Makers
  <2> QED BY <2>2, <2>3, <2>4, KnowsSame, TellsOne DEF Recipient
<1>2. CASE r.what = "create_image"
  <2>1. Served(server, r) = DrmCreateBuffer(server, r)
    BY <1>2 DEF Served
  <2>2. Served(server, r).told = <<>> /\ MayTell(r, <<>>)
    BY <2>1, TellsNone DEF DrmCreateBuffer
  <2>3. r.what \in Makers /\ objects[r.id] = "drm_buffer"
    BY <1>2 DEF Handleable, Makers, Makes
  <2>4. CASE "import" \in works
    <3>1. server'.known = With(server.known, r.id, <<"drm_buffer">>) /\ server'.shots = server.shots
      BY <2>1, <2>4 DEF DrmCreateBuffer, Knows
    <3> QED BY <2>2, <2>3, <3>1, KnowsMade
  <2>5. CASE "import" \notin works
    <3>1. server' = server
      BY <2>1, <2>5 DEF DrmCreateBuffer
    <3> QED BY <1>2, <2>2, <3>1, KnowsSame
  <2> QED BY <2>4, <2>5
<1>3. CASE r.what \in Quiet
  <2>1. Served(server, r) = [server |-> server, told |-> <<>>]
    BY <1>3 DEF Served, Quiet
  <2>2. r.what \notin Makers
    BY <1>3 DEF Quiet, Makers
  <2> QED BY <2>1, <2>2, KnowsSame, TellsNone
<1>4. CASE r.what \in Plain
  <2>1. Served(server, r) = [server |-> Knows(server, r.id, <<Made(r.what)>>), told |-> <<>>]
    BY <1>4 DEF Served, Plain
  <2>2. server'.known = With(server.known, r.id, <<Made(r.what)>>) /\ server'.shots = server.shots
    BY <2>1 DEF Knows
  <2>3. r.what \in Makers /\ objects[r.id] = Made(r.what) /\ Made(r.what) # "output"
    BY <1>4 DEF Plain, Makers, Makes, Made, Handleable
  <2>4. MayKnow(r)
    BY <2>2, <2>3, KnowsMade
  <2> QED BY <2>1, <2>4, TellsNone
<1> QED BY <1>1, <1>2, <1>3, <1>4

(* What the server does with a request it can handle is what it may do.    *)
LEMMA ServedMay ==
    ASSUME NEW r, Handleable(r), ShotsOK, KnownOK(objects), screens \in Nat, DOMAIN server = {"known", "shots"},
           server' = Served(server, r).server
    PROVE  MayKnow(r) /\ MayTell(r, Served(server, r).told)
<1>1. r.what \in {"get_registry", "sync", "bind", "create", "shoot"}
            \union {"authenticate", "create_image"} \union Quiet \union Plain
  BY DEF Handleable, Requests, Makers, Others, Quiet, Plain
<1>2. CASE r.what = "get_registry"
  BY <1>2, ServesRegistry DEF Served
<1>3. CASE r.what = "sync"
  BY <1>3, ServesSync DEF Served
<1>4. CASE r.what = "bind"
  BY <1>4, ServesBind DEF Served
<1>5. CASE r.what = "create"
  BY <1>5, ServesParams DEF Served
<1>6. CASE r.what = "shoot"
  <2>1. Served(server, r) = ScreenshooterShoot(server, r)
    BY <1>6 DEF Served
  <2> QED BY <1>6, <2>1, ServesShoot, TellsNone DEF ScreenshooterShoot
<1>7. CASE r.what \in {"authenticate", "create_image"} \union Quiet \union Plain
  BY <1>7, ServesRest
<1> QED BY <1>1, <1>2, <1>3, <1>4, <1>5, <1>6, <1>7

LEMMA ServeKeepsCore ==
    ASSUME Core(objects, requests, pending), Typed, Serve
    PROVE  Core(objects, requests, pending)'
<1> DEFINE r == Head(requests)
<1>1. requests # <<>> /\ Handleable(r) /\ ShotsOK /\ KnownOK(objects)
  BY HeadHandleable DEF Serve, Core, EventsOK, ShotsOK
<1>2. server' = Served(server, r).server
  BY DEF Serve
<1>3. PICK told : told = Served(server, r).told
  OBVIOUS
<1>4. MayKnow(r) /\ MayTell(r, told)
  BY <1>1, <1>2, <1>3, ServedMay DEF Typed
<1>5. pending' = pending \o told
  <2>1. batch' = batch /\ events' = events \o told
    BY <1>3 DEF Serve
  <2>2. batch \in Seq(Events) /\ events \in Seq(Events) /\ told \in Seq(Events)
    BY <1>4 DEF Typed, MayTell
  <2> QED BY <2>1, <2>2 DEF pending
<1>6. requests' = Tail(requests) /\ objects' = objects /\ screens' = screens
  BY DEF Serve, objects
<1> QED BY <1>1, <1>4, <1>5, <1>6, CoreServes


-----------------------------------------------------------------------------
(* What the server answers, and the stage of the application.              *)
OutputTold(o, told) ==
    \E k \in 1..Len(told) :
        /\ told[k].what = "output_done" /\ told[k].to = o
        /\ \E m \in 1..(k - 1) : told[m].what = "mode" /\ told[m].to = o

Answers(o, r, told) ==
    /\ \A k \in 1..Len(told) :
        /\ told[k].what = "done" => r.what = "sync" /\ told[k].to = r.id /\ k = 1
        /\ told[k].what = "authenticated" => r.what = "authenticate"
        /\ told[k].what = "global" => r.what = "get_registry"
    /\ r.what = "bind" /\ o[r.id] = "output" => OutputTold(r.id, told)

LEMMA EventFields ==
    ASSUME NEW what, NEW to, NEW of
    PROVE  Event(what, to, of).what = what /\ Event(what, to, of).to = to
BY DEF Event

LEMMA ServedAnswers ==
    ASSUME NEW r, Handleable(r), screens \in Nat
    PROVE  Answers(objects, r, Served(server, r).told)
<1> SUFFICES ASSUME NEW told, told = Served(server, r).told PROVE Answers(objects, r, told)
  OBVIOUS
<1>1. r.what \in {"get_registry", "sync", "bind", "create", "shoot"}
            \union {"authenticate", "create_image"} \union Quiet \union Plain
  BY DEF Handleable, Requests, Makers, Others, Quiet, Plain
<1>2. CASE r.what = "get_registry"
  <2>1. told = [n \in DOMAIN Globals |-> Event("global", r.id, [name |-> n, interface |-> Globals[n]])]
    BY <1>2 DEF Served, GetRegistry
  <2>2. DOMAIN Globals = 1..(7 + screens) /\ 7 + screens \in Nat
    BY GlobalsOK
  <2>3. \A n \in DOMAIN Globals : told[n].what = "global"
    BY <2>1, EventFields
  <2>4. Len(told) = 7 + screens
    BY <2>1, <2>2
  <2>5. \A n \in 1..Len(told) : told[n].what = "global"
    BY <2>2, <2>3, <2>4
  <2> QED BY <1>2, <2>5 DEF Answers
<1>3. CASE r.what = "sync"
  <2>1. told = <<Event("done", r.id, 0), Event("delete_id", r.to, r.id)>>
    BY <1>3 DEF Served, Sync
  <2>2. Len(told) = 2 /\ told[1].what = "done" /\ told[1].to = r.id /\ told[2].what = "delete_id"
    BY <2>1, EventFields
  <2>3. \A k \in 1..Len(told) : k = 1 \/ k = 2
    BY <2>2
  <2> QED BY <1>3, <2>2, <2>3 DEF Answers
<1>4. CASE r.what = "bind"
  <2>1. told = RegistryBind(server, r).told
    BY <1>4 DEF Served
  <2>2. objects[r.id] = Globals[r.of]
    BY <1>4 DEF Handleable, Makers, Makes
  <2>3. CASE Globals[r.of] = "output"
    <3>1. told = OutputNew(r)
      BY <2>1, <2>3 DEF RegistryBind
    <3>2. /\ Len(told) = 3 /\ told[1].what = "geometry"
          /\ told[2].what = "mode" /\ told[2].to = r.id /\ told[3].what = "output_done" /\ told[3].to = r.id
      BY <3>1, EventFields DEF OutputNew
    <3>3. \A k \in 1..Len(told) : told[k].what \notin {"done", "authenticated", "global"}
      <4>1. \A k \in 1..Len(told) : k = 1 \/ k = 2 \/ k = 3
        BY <3>2
      <4> QED BY <3>2, <4>1
    <3>4. OutputTold(r.id, told)
      <4>1. 3 \in 1..Len(told) /\ 2 \in 1..(3 - 1)
        BY <3>2
      <4> QED BY <3>2, <4>1 DEF OutputTold
    <3> QED BY <3>3, <3>4 DEF Answers
  <2>4. CASE Globals[r.of] # "output"
    <3>1. told = IF Globals[r.of] = "drm" THEN DrmNew(r) ELSE <<>>
      BY <2>1, <2>4 DEF RegistryBind
    <3>2. told = <<>> \/ told = <<Event("device", r.id, 0)>>
      BY <3>1 DEF DrmNew
    <3>3. CASE told = <<>>
      <4>1. Len(told) = 0
        BY <3>3
      <4> QED BY <2>2, <2>4, <4>1 DEF Answers
    <3>4. CASE told = <<Event("device", r.id, 0)>>
      <4>1. Len(told) = 1 /\ told[1].what = "device"
        BY <3>4, EventFields
      <4> QED BY <2>2, <2>4, <4>1 DEF Answers
    <3> QED BY <3>2, <3>3, <3>4
  <2> QED BY <2>3, <2>4
<1>5. CASE r.what = "create"
  <2>1. \E what \in {"created", "failed"} : \E of : told = <<Event(what, r.to, of)>>
    BY <1>5 DEF Served, ParamsCreate
  <2>2. Len(told) = 1 /\ told[1].what \in {"created", "failed"}
    BY <2>1, EventFields
  <2> QED BY <1>5, <2>2 DEF Answers
<1>6. CASE r.what = "authenticate"
  <2>1. told = <<Event("authenticated", r.to, 0)>>
    BY <1>6 DEF Served, DrmAuthenticate
  <2>2. Len(told) = 1 /\ told[1].what = "authenticated"
    BY <2>1, EventFields
  <2> QED BY <1>6, <2>2 DEF Answers
<1>7. CASE r.what \in {"shoot", "create_image"} \union Quiet \union Plain
  <2>1. told = <<>>
    BY <1>7 DEF Served, ScreenshooterShoot, DrmCreateBuffer, Quiet, Plain
  <2>2. Len(told) = 0
    BY <2>1
  <2> QED BY <1>7, <2>2 DEF Answers, Quiet, Plain
<1> QED BY <1>1, <1>2, <1>3, <1>4, <1>5, <1>6, <1>7


LEMMA ServeKeepsStage ==
    ASSUME NEW x, NEW q, NEW E, NEW told, NEW n \in 0..Len(E), Core(x.objects, q, E), Stage(x, q, E, n),
           q # <<>>, told \in Seq(Events), Answers(x.objects, Head(q), told)
    PROVE  Stage(x, Tail(q), E \o told, n)
<1> DEFINE p == Tail(q)
           F == E \o told
<1> SUFFICES ASSUME NEW r, r = Head(q) PROVE Stage(x, p, F, n)
  OBVIOUS
<1>1. /\ r = q[1] /\ 1 \in 1..Len(q) /\ r \in Requests /\ Len(q) \in Nat \ {0} /\ Len(p) = Len(q) - 1
      /\ \A i \in 1..Len(p) : i + 1 \in 1..Len(q) /\ i + 1 # 1 /\ p[i] = q[i + 1]
      /\ \A i \in 1..Len(q) : i # 1 => i - 1 \in 1..Len(p) /\ p[i - 1] = q[i]
  BY Tailing DEF Core
<1>2. /\ F \in Seq(Events) /\ Len(F) = Len(E) + Len(told) /\ Len(E) \in Nat /\ Len(told) \in Nat
      /\ \A k \in 1..Len(E) : F[k] = E[k]
      /\ \A k \in 1..Len(told) : F[Len(E) + k] = told[k]
      /\ \A k \in 1..Len(F) :
            k \in 1..Len(E) \/ \E j \in 1..Len(told) : k = Len(E) + j
  BY Joining DEF Core
<1>3. /\ \A k \in 1..Len(told) : told[k].what = "done" => r.what = "sync" /\ told[k].to = r.id /\ k = 1
      /\ \A k \in 1..Len(told) : told[k].what = "authenticated" => r.what = "authenticate"
      /\ \A k \in 1..Len(told) : told[k].what = "global" => r.what = "get_registry"
      /\ r.what = "bind" /\ x.objects[r.id] = "output" => OutputTold(r.id, told)
  BY DEF Answers
<1>4. /\ AskedOnce(q, E) /\ GlobalsInTime(x, q, E)
      /\ (Asked(q, E) => Early(x) /\ InitKnown(x, q, E, n) /\ OutputComes(x, q, E))
      /\ Taking(x) /\ FilesOK(x) /\ ParamsOK(x) /\ DeviceOK(x, q, E)
  BY DEF Stage
<1> HIDE DEF p, F
<1>5. ASSUME NEW k \in 1..Len(F), F[k].what = "done"
      PROVE  \/ k \in 1..Len(E) /\ E[k].what = "done" /\ F[k] = E[k] /\ r.what # "sync"
             \/ r.what = "sync" /\ F[k].to = r.id /\ k = Len(E) + 1
  <2>1. CASE k \in 1..Len(E)
    BY <1>1, <1>2, <1>4, <1>5, <2>1 DEF AskedOnce
  <2>2. ASSUME NEW j \in 1..Len(told), k = Len(E) + j
        PROVE  r.what = "sync" /\ F[k].to = r.id /\ k = Len(E) + 1
    BY <1>2, <1>3, <1>5, <2>2
  <2> QED BY <1>2, <2>1, <2>2
<1>6. AskedOnce(p, F)
  <2>1. ASSUME NEW i \in 1..Len(p), NEW j \in 1..Len(p), p[i].what = "sync", p[j].what = "sync" PROVE i = j
    <3>1. i + 1 \in 1..Len(q) /\ p[i] = q[i + 1] /\ j + 1 \in 1..Len(q) /\ p[j] = q[j + 1]
      BY <1>1
    <3>2. i + 1 = j + 1
      BY <1>4, <2>1, <3>1 DEF AskedOnce
    <3> QED BY <3>2
  <2>2. ASSUME NEW k \in 1..Len(F), NEW m \in 1..Len(F), F[k].what = "done", F[m].what = "done" PROVE k = m
    BY <1>4, <1>5, <2>2 DEF AskedOnce
  <2>3. ASSUME NEW i \in 1..Len(p), NEW k \in 1..Len(F), p[i].what = "sync", F[k].what = "done" PROVE FALSE
    <3>1. i + 1 \in 1..Len(q) /\ p[i] = q[i + 1] /\ i + 1 # 1
      BY <1>1
    <3> QED BY <1>1, <1>4, <1>5, <2>3, <3>1 DEF AskedOnce
  <2> QED BY <2>1, <2>2, <2>3 DEF AskedOnce
<1>7. ASSUME Asked(p, F) PROVE Asked(q, E)
  <2>1. CASE \E i \in 1..Len(p) : p[i].what = "sync"
    BY <1>1, <2>1 DEF Asked
  <2>2. CASE \E k \in 1..Len(F) : F[k].what = "done"
    BY <1>1, <1>5, <2>2 DEF Asked
  <2> QED BY <1>7, <2>1, <2>2 DEF Asked
(* The answer comes where the request was.                                 *)
<1>8. ASSUME NEW k \in 1..Len(F), AnswersInit(x, F[k])
      PROVE  \/ k \in 1..Len(E) /\ AnswersInit(x, E[k])
             \/ AsksInit(x, q[1]) /\ k = Len(E) + 1
  BY <1>1, <1>5, <1>8 DEF AnswersInit, AsksInit
<1>9. ASSUME InitKnown(x, q, E, n) PROVE InitKnown(x, p, F, n)
  <2>1. CASE Required(app) \subseteq x.globals
    BY <2>1 DEF InitKnown
  <2>2. CASE ~x.run /\ \A k \in 1..n : ~AnswersInit(x, E[k])
    <3>1. \A k \in 1..n : k \in 1..Len(E)
      BY <1>2
    <3> QED BY <1>2, <2>2, <3>1 DEF InitKnown
  <2>3. CASE (\A i \in 1..Len(q) : ~AsksInit(x, q[i])) /\ (\A k \in 1..Len(E) : ~AnswersInit(x, E[k]))
    <3>1. \A i \in 1..Len(p) : ~AsksInit(x, p[i])
      BY <1>1, <2>3
    <3>2. \A k \in 1..Len(F) : ~AnswersInit(x, F[k])
      BY <1>1, <1>8, <2>3
    <3> QED BY <3>1, <3>2 DEF InitKnown
  <2> QED BY <1>9, <2>1, <2>2, <2>3 DEF InitKnown
<1>10. ASSUME NEW o, ToldInTime(x, E, o) PROVE ToldInTime(x, F, o)
  <2>1. PICK k \in 1..Len(E) :
            /\ E[k].what = "output_done" /\ E[k].to = o
            /\ \A m \in 1..(k - 1) : ~AnswersInit(x, E[m])
            /\ x.drafts[o].width # 0 \/ \E m \in 1..(k - 1) : E[m].what = "mode" /\ E[m].to = o
    BY <1>10 DEF ToldInTime
  <2>2. k \in 1..Len(F) /\ F[k] = E[k] /\ \A m \in 1..(k - 1) : m \in 1..Len(E) /\ F[m] = E[m]
    BY <1>2
  <2> QED BY <2>1, <2>2 DEF ToldInTime
<1>11. ASSUME NEW o \in DOMAIN x.objects, x.objects[o] = "output", BindsInTime(x, q, E, o)
       PROVE  BindsInTime(x, p, F, o) \/ ToldInTime(x, F, o)
  <2>1. PICK i \in 1..Len(q) :
            /\ q[i].id = o
            /\ \A j \in 1..(i - 1) : ~AsksInit(x, q[j])
            /\ \A k \in 1..Len(E) : ~AnswersInit(x, E[k])
    BY <1>11 DEF BindsInTime
  <2>2. CASE i = 1
    <3>1. r.id = o /\ o # 0
      BY <1>1, <2>1, <2>2 DEF Core, ObjectsOK
    <3>2. r.what = "bind"
      <4>1. /\ r.what \notin Others /\ (r.what = "sync" => x.objects[o] \in Callbacks)
            /\ (r.what \in Makers => x.objects[o] = Makes(r))
        BY <1>1, <3>1 DEF Core, MakesOK
      <4>2. r.what \in Makers
        BY <1>1, <1>11, <4>1 DEF Requests, Callbacks
      <4>3. r.what \in Makers \ {"bind"} => Makes(r) # "output"
        BY DEF Makers, Makes, Made
      <4> QED BY <1>11, <4>1, <4>2, <4>3
    <3>3. OutputTold(o, told)
      BY <1>3, <1>11, <3>1, <3>2
    <3>4. PICK k \in 1..Len(told) :
            /\ told[k].what = "output_done" /\ told[k].to = o
            /\ \E m \in 1..(k - 1) : told[m].what = "mode" /\ told[m].to = o
      BY <3>3 DEF OutputTold
    <3>5. PICK m \in 1..(k - 1) : told[m].what = "mode" /\ told[m].to = o
      BY <3>4
    <3>6. /\ Len(E) + k \in 1..Len(F) /\ F[Len(E) + k] = told[k]
          /\ Len(E) + m \in 1..(Len(E) + k - 1) /\ F[Len(E) + m] = told[m]
      <4>1. m \in 1..Len(told) /\ m < k /\ 0 < m
        <5>1. Len(told) \in Nat /\ k \in 1..Len(told) /\ m \in 1..(k - 1)
          BY <1>2
        <5> QED BY <5>1
      <4>2. /\ Len(E) + k \in 1..(Len(E) + Len(told))
            /\ Len(E) + m \in 1..(Len(E) + k - 1)
        BY <1>2, <3>4, <4>1
      <4> QED BY <1>2, <3>4, <4>1, <4>2
    <3>7. \A l \in 1..(Len(E) + k - 1) : ~AnswersInit(x, F[l])
      <4> TAKE l \in 1..(Len(E) + k - 1)
      <4>1. l \in 1..Len(F)
        BY <1>2
      <4>2. ~AsksInit(x, q[1])
        BY <1>1, <3>2 DEF AsksInit
      <4>3. ASSUME AnswersInit(x, F[l]) PROVE FALSE
        <5>1. l \in 1..Len(E) /\ AnswersInit(x, E[l])
          BY <1>8, <4>1, <4>2, <4>3
        <5> QED BY <2>1, <5>1
      <4> QED BY <4>3
    <3> DEFINE w == Len(E) + k
    <3>8. /\ w \in 1..Len(F) /\ F[w].what = "output_done" /\ F[w].to = o
          /\ \A l \in 1..(w - 1) : ~AnswersInit(x, F[l])
      BY <3>4, <3>6, <3>7
    <3>9. \E l \in 1..(w - 1) : F[l].what = "mode" /\ F[l].to = o
      <4> DEFINE v == Len(E) + m
      <4>1. v \in 1..(w - 1) /\ F[v].what = "mode" /\ F[v].to = o
        BY <3>5, <3>6
      <4> HIDE DEF v, w
      <4> QED BY <4>1
    <3> HIDE DEF w
    <3> QED BY <3>8, <3>9 DEF ToldInTime
  <2>3. CASE i # 1
    <3>1. i - 1 \in 1..Len(p) /\ p[i - 1] = q[i] /\ 1 \in 1..(i - 1)
      BY <1>1, <2>3
    <3>2. \A j \in 1..(i - 1 - 1) : ~AsksInit(x, p[j])
      <4> TAKE j \in 1..(i - 1 - 1)
      <4>1. j \in 1..Len(p) /\ j + 1 \in 1..(i - 1) /\ p[j] = q[j + 1]
        BY <1>1, <3>1
      <4> QED BY <2>1, <4>1
    <3>3. \A k \in 1..Len(F) : ~AnswersInit(x, F[k])
      BY <1>8, <2>1, <3>1
    <3> QED BY <2>1, <3>1, <3>2, <3>3 DEF BindsInTime
  <2> QED BY <2>2, <2>3
<1>12. ASSUME OutputComes(x, q, E) PROVE OutputComes(x, p, F)
  BY <1>10, <1>11, <1>12 DEF OutputComes
<1>13. DeviceOK(x, p, F)
  <2> SUFFICES ASSUME x.listener.fd # TRUE
               PROVE  /\ \A i \in 1..Len(p) : p[i].what # "authenticate"
                      /\ \A k \in 1..Len(F) : F[k].what # "authenticated"
    BY DEF DeviceOK
  <2>1. /\ \A i \in 1..Len(q) : q[i].what # "authenticate"
        /\ \A k \in 1..Len(E) : E[k].what # "authenticated"
    BY <1>4 DEF DeviceOK
  <2>2. \A i \in 1..Len(p) : p[i].what # "authenticate"
    BY <1>1, <2>1
  <2>3. \A k \in 1..Len(told) : told[k].what # "authenticated"
    <3>1. r.what # "authenticate"
      BY <1>1, <2>1
    <3> QED BY <1>3, <3>1
  <2>4. ASSUME NEW k \in 1..Len(F) PROVE F[k].what # "authenticated"
    <3>1. CASE k \in 1..Len(E)
      BY <1>2, <2>1, <3>1
    <3>2. ASSUME NEW j \in 1..Len(told), k = Len(E) + j PROVE F[k].what # "authenticated"
      BY <1>2, <2>3, <3>2
    <3> QED BY <1>2, <3>1, <3>2
  <2> QED BY <2>2, <2>4
<1>14. ASSUME NEW k \in 1..Len(F), F[k].what = "global"
       PROVE  \/ k \in 1..Len(E) /\ E[k].what = "global"
              \/ r.what = "get_registry"
  <2>1. CASE k \in 1..Len(E)
    BY <1>2, <1>14, <2>1
  <2>2. ASSUME NEW j \in 1..Len(told), k = Len(E) + j PROVE r.what = "get_registry"
    BY <1>2, <1>3, <1>14, <2>2
  <2> QED BY <1>2, <2>1, <2>2
<1>15. Announces(p, F) => Announces(q, E)
  BY <1>1, <1>14 DEF Announces
<1>16. Announces(p, F) =>
            /\ \A i \in 1..Len(p) : ~AsksInit(x, p[i])
            /\ \A k \in 1..Len(F) : ~AnswersInit(x, F[k])
  BY <1>1, <1>4, <1>8, <1>15 DEF GlobalsInTime
<1>17. ASSUME NEW i \in 1..Len(p), NEW j \in 1..Len(p), p[i].what = "get_registry", p[j].what = "sync"
       PROVE  i < j
  <2>1. i + 1 \in 1..Len(q) /\ p[i] = q[i + 1] /\ j + 1 \in 1..Len(q) /\ p[j] = q[j + 1]
    BY <1>1
  <2>2. i + 1 < j + 1
    BY <1>4, <1>17, <2>1 DEF GlobalsInTime
  <2> QED BY <2>2
<1>18. ASSUME NEW k \in 1..Len(F), F[k].what = "done"
       PROVE  /\ \A i \in 1..Len(p) : p[i].what # "get_registry"
              /\ \A m \in 1..Len(F) : F[m].what = "global" => m < k
  <2>1. CASE k \in 1..Len(E) /\ E[k].what = "done"
    <3>1. /\ \A i \in 1..Len(q) : q[i].what # "get_registry"
          /\ \A m \in 1..Len(E) : E[m].what = "global" => m < k
      BY <1>4, <2>1 DEF GlobalsInTime
    <3>2. \A i \in 1..Len(p) : p[i].what # "get_registry"
      BY <1>1, <3>1
    <3>3. \A m \in 1..Len(F) : F[m].what = "global" => m < k
      BY <1>1, <1>14, <3>1
    <3> QED BY <3>2, <3>3
  <2>2. CASE r.what = "sync" /\ k = Len(E) + 1
    <3>1. \A i \in 1..Len(p) : p[i].what # "get_registry"
      <4> TAKE i \in 1..Len(p)
      <4>1. i + 1 \in 1..Len(q) /\ p[i] = q[i + 1] /\ ~(i + 1 < 1)
        BY <1>1
      <4> QED BY <1>1, <1>4, <2>2, <4>1 DEF GlobalsInTime
    <3>2. ASSUME NEW m \in 1..Len(F), F[m].what = "global" PROVE m < k
      <4>1. m \in 1..Len(E)
        BY <1>14, <2>2, <3>2
      <4> QED BY <1>2, <2>2, <4>1
    <3> QED BY <3>1, <3>2
  <2> QED BY <1>5, <1>18, <2>1, <2>2
<1>19. GlobalsInTime(x, p, F)
  BY <1>16, <1>17, <1>18 DEF GlobalsInTime
<1> QED BY <1>4, <1>6, <1>7, <1>9, <1>12, <1>13, <1>19 DEF Stage
=============================================================================
