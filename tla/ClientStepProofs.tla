----------------------------- MODULE ClientStepProofs ----------------------------
(***************************************************************************)
(* What each handler of the client does to what the client and the server  *)
(* agree on, and that they understand each other whatever happens.         *)
(***************************************************************************)
EXTENDS ClientAppsProofs

-----------------------------------------------------------------------------
(* Clients                                                                 *)
LEMMA FreeIsFree ==
    ASSUME NEW x, IsFiniteSet(DOMAIN x.objects)
    PROVE  Free(x) \in Nat \ {0} /\ Free(x) \notin DOMAIN x.objects
<1> DEFINE D == DOMAIN x.objects
           n == Cardinality(D)
           free == (1..(n + 1)) \ D
<1>1. n \in Nat
  BY FS_CardinalityType
<1>2. free # {}
  <2> SUFFICES ASSUME 1..(n + 1) \subseteq D PROVE FALSE
    OBVIOUS
  <2>1. Cardinality(1..(n + 1)) = n + 1
    BY <1>1, FS_Interval
  <2>2. Cardinality(1..(n + 1)) <= n
    BY FS_Subset
  <2> QED BY <1>1, <2>1, <2>2
<1>3. free \subseteq Nat /\ 0 \notin free
  BY <1>1
<1>4. PICK i \in free : \A j \in free : i <= j
  BY <1>2, <1>3, LeastNat
<1>5. Free(x) \in free
  BY <1>4 DEF Free
<1> QED BY <1>3, <1>5

(* The fields a request leaves alone.                                      *)
Rest(x, y) ==
    /\ y.drafts = x.drafts /\ y.store = x.store /\ y.globals = x.globals /\ y.outputs = x.outputs
    /\ y.listener = x.listener /\ y.run = x.run /\ y.disk = x.disk /\ y.fault = x.fault

LEMMA SendFields ==
    ASSUME NEW x, Shape(x), NEW r
    PROVE  /\ Shape(Send(x, r)) /\ Rest(x, Send(x, r)) /\ Send(x, r).objects = x.objects
           /\ Send(x, r).sent = Append(x.sent, r)
BY DEF Send, Shape, Fields, Rest

LEMMA CreateFields ==
    ASSUME NEW x, Shape(x), NEW kind, NEW what, NEW to
    PROVE  LET y == Create(x, kind, what, to)
           IN  /\ Shape(y) /\ Rest(x, y) /\ y.objects = With(x.objects, Free(x), kind)
               /\ y.sent = Append(x.sent, Request(what, to, Free(x), 0))
<1> DEFINE a == AddObject(x, Free(x), kind)
<1>1. Shape(a) /\ Rest(x, a) /\ a.objects = With(x.objects, Free(x), kind) /\ a.sent = x.sent
  BY DEF AddObject, Shape, Fields, Rest
<1> HIDE DEF a
<1>2. Create(x, kind, what, to) = Send(a, Request(what, to, Free(x), 0))
  BY DEF Create, a
<1> QED BY <1>1, <1>2, SendFields DEF Rest

LEMMA AppendsLast ==
    ASSUME NEW q \in Seq(Requests), NEW s \in Seq(Requests), NEW r \in Requests
    PROVE  q \o Append(s, r) = Append(q \o s, r) /\ Append(s, r) \in Seq(Requests)
OBVIOUS

(* What the client records is about its objects.                           *)
LEMMA StoreStays ==
    ASSUME NEW x, NEW y, StoreOK(x), Extends(x.objects, y.objects), y.store = x.store, y.globals = x.globals
    PROVE  StoreOK(y)
BY DEF StoreOK, Extends, Is

LEMMA OutputsStay ==
    ASSUME NEW x, NEW y, OutputsOK(x), Extends(x.objects, y.objects),
           \A id \in DOMAIN y.objects : y.objects[id] = "output" => id \in DOMAIN x.objects,
           y.drafts = x.drafts, y.outputs = x.outputs, y.listener.outputs = x.listener.outputs
    PROVE  OutputsOK(y)
BY DEF OutputsOK, Extends, Is

-----------------------------------------------------------------------------
(* A client with requests it is about to send, after those in q.           *)
Good(x, q, E) ==
    Shape(x) /\ x.fault = Nothing /\ x.sent \in Seq(Requests) /\ World(x, q \o x.sent, E)

(* None of these is a sync, which is only sent for the callbacks.          *)
Calm(s) == \A i \in 1..Len(s) : s[i].what \notin {"sync", "get_registry", "authenticate"}

LEMMA GoodGrows ==
    ASSUME NEW q \in Seq(Requests), NEW E, NEW x, Good(x, q, E), NEW y, NEW r,
           Shape(y), y.fault = Nothing, y.sent = Append(x.sent, r), StoreOK(y), OutputsOK(y),
           Extends(x.objects, y.objects), MaySend(x.objects, y.objects, r)
    PROVE  Good(y, q, E)
<1>1. r \in Requests /\ x.sent \in Seq(Requests)
  BY DEF MaySend, Good
<1>2. q \o Append(x.sent, r) = Append(q \o x.sent, r) /\ Append(x.sent, r) \in Seq(Requests)
  BY <1>1, AppendsLast
<1>3. Core(x.objects, q \o x.sent, E)
  BY DEF Good, World
<1>4. Core(y.objects, Append(q \o x.sent, r), E)
  BY <1>3, CoreSends
<1> QED BY <1>2, <1>4 DEF Good, World

LEMMA CalmGrows ==
    ASSUME NEW s \in Seq(Requests), Calm(s), NEW r \in Requests,
           r.what \notin {"sync", "get_registry", "authenticate"}
    PROVE  Calm(Append(s, r))
<1>1. /\ \A i \in 1..Len(s) : Append(s, r)[i] = s[i]
      /\ Append(s, r)[Len(s) + 1] = r
      /\ \A i \in 1..Len(Append(s, r)) : i \in 1..Len(s) \/ i = Len(s) + 1
  BY Appending
<1> QED BY <1>1 DEF Calm

LEMMA IsRequest ==
    ASSUME NEW what \in Makers \union Others \union {"sync"}, NEW to \in Int, NEW id \in Int, NEW of \in Int
    PROVE  /\ Request(what, to, id, of) \in Requests
           /\ Request(what, to, id, of).what = what /\ Request(what, to, id, of).to = to
           /\ Request(what, to, id, of).id = id /\ Request(what, to, id, of).of = of
BY DEF Request, Requests

(* What a request that only names its object brings about.                 *)
LEMMA GoodSends ==
    ASSUME NEW q \in Seq(Requests), NEW E, NEW x, Good(x, q, E), NEW what \in Others \ {"shoot"},
           NEW to, NEW of \in Int, Is(x.objects, to, Target(what))
    PROVE  LET y == Send(x, Request(what, to, 0, of))
           IN  /\ Good(y, q, E) /\ Rest(x, y) /\ y.objects = x.objects
               /\ y.sent = Append(x.sent, Request(what, to, 0, of))
               /\ Calm(x.sent) /\ what # "authenticate" => Calm(y.sent)
<1> DEFINE r == Request(what, to, 0, of)
<1>1. to \in Int
  BY DEF Good, World, Core, ObjectsOK, Is
<1>2. r \in Requests /\ r.what = what /\ r.to = to /\ r.id = 0
  BY <1>1, IsRequest
<1> HIDE DEF r
<1> DEFINE y == Send(x, r)
<1>3. Shape(y) /\ Rest(x, y) /\ y.objects = x.objects /\ y.sent = Append(x.sent, r)
  BY SendFields DEF Good
<1> HIDE DEF y
<1>4. Extends(x.objects, y.objects) /\ MaySend(x.objects, y.objects, r)
  BY <1>2, <1>3 DEF Extends, MaySend
<1>5. StoreOK(y) /\ OutputsOK(y)
  BY <1>3, <1>4, StoreStays, OutputsStay DEF Good, World, Rest
<1>6. Good(y, q, E)
  BY <1>3, <1>4, <1>5, GoodGrows DEF Rest, Good
<1>7. Calm(x.sent) /\ what # "authenticate" => Calm(y.sent)
  <2>1. what # "sync" /\ what # "get_registry"
    BY DEF Others
  <2> QED BY <1>2, <1>3, <2>1, CalmGrows DEF Good
<1> QED BY <1>3, <1>6, <1>7 DEF y, r

Product(what) == IF what = "create_image" THEN "drm_buffer" ELSE Made(what)

(* An object is made with a request that makes the server know it.         *)
LEMMA GoodCreates ==
    ASSUME NEW q \in Seq(Requests), NEW E, NEW x, Good(x, q, E), NEW what \in Makers \ {"get_registry", "bind"},
           NEW kind, kind = Product(what),
           NEW to, Is(x.objects, to, Target(what))
    PROVE  LET y == Create(x, kind, what, to)
           IN  /\ Good(y, q, E) /\ Rest(x, y) /\ Extends(x.objects, y.objects)
               /\ Free(x) \in Nat \ {0} /\ Free(x) \notin DOMAIN x.objects
               /\ DOMAIN y.objects = DOMAIN x.objects \union {Free(x)} /\ y.objects[Free(x)] = kind
               /\ y.sent = Append(x.sent, Request(what, to, Free(x), 0))
               /\ Calm(x.sent) => Calm(y.sent)
<1> DEFINE new == Free(x)
           y == Create(x, kind, what, to)
           r == Request(what, to, new, 0)
<1>1. to \in Int /\ IsFiniteSet(DOMAIN x.objects)
  BY DEF Good, World, Core, ObjectsOK, Is
<1>2. new \in Nat \ {0} /\ new \in Int /\ new \notin DOMAIN x.objects
  BY <1>1, FreeIsFree
<1>3. r \in Requests /\ r.what = what /\ r.to = to /\ r.id = new
  BY <1>1, <1>2, IsRequest
<1>4. /\ Shape(y) /\ Rest(x, y) /\ y.objects = With(x.objects, new, kind)
      /\ y.sent = Append(x.sent, r)
  BY CreateFields DEF Good
<1> HIDE DEF new, y
<1>5. DOMAIN y.objects = DOMAIN x.objects \union {new} /\ y.objects[new] = kind /\ Extends(x.objects, y.objects)
  BY <1>2, <1>4 DEF With, Extends
<1>6. kind \notin Callbacks /\ kind # "output" /\ Makes(r) = kind
  BY <1>3 DEF Makers, Makes, Made, Callbacks, Product
<1> HIDE DEF r
<1>7. MaySend(x.objects, y.objects, r)
  <2>1. what \notin Others /\ what # "sync" /\ what # "bind" /\ what # "shoot" /\ new # ServerId
    BY <1>2 DEF Makers, Others, ServerId
  <2> QED BY <1>2, <1>3, <1>5, <1>6, <2>1 DEF MaySend
<1>8. StoreOK(y)
  BY <1>4, <1>5, StoreStays DEF Good, World, Rest
<1>9. OutputsOK(y)
  <2>1. \A i \in DOMAIN y.objects : y.objects[i] = "output" => i \in DOMAIN x.objects
    BY <1>5, <1>6
  <2> QED BY <1>4, <1>5, <2>1, OutputsStay DEF Good, World, Rest
<1>10. Good(y, q, E)
  BY <1>4, <1>5, <1>7, <1>8, <1>9, GoodGrows DEF Rest, Good
<1>11. Calm(x.sent) => Calm(y.sent)
  <2>1. what \notin {"sync", "get_registry", "authenticate"}
    BY DEF Makers
  <2> QED BY <1>3, <1>4, <2>1, CalmGrows DEF Good
<1> QED BY <1>2, <1>4, <1>5, <1>10, <1>11 DEF new, y, r


LEMMA SendsThree ==
    ASSUME NEW x, Shape(x), x.sent \in Seq(Requests),
           NEW a \in Requests, NEW b \in Requests, NEW c \in Requests
    PROVE  [x EXCEPT !.sent = @ \o <<a, b, c>>] = Send(Send(Send(x, a), b), c)
<1>1. x.sent \o <<a, b, c>> = Append(Append(Append(x.sent, a), b), c)
  OBVIOUS
<1>2. Send(Send(Send(x, a), b), c) = [x EXCEPT !.sent = Append(Append(Append(@, a), b), c)]
  BY DEF Send, Shape, Fields
<1> QED BY <1>1, <1>2

(* Fields of clients that follow each other.                               *)
LEMMA RestOn ==
    ASSUME NEW x, NEW y, NEW z, Rest(x, y), Rest(y, z) PROVE Rest(x, z)
BY DEF Rest

LEMMA ExtendsOn ==
    ASSUME NEW o, NEW u, NEW w, Extends(o, u), Extends(u, w) PROVE Extends(o, w)
BY DEF Extends

(* What is made besides: objects of these kinds, with nothing else said.   *)
MakesOnly(x, y, kinds) ==
    /\ Extends(x.objects, y.objects)
    /\ \A id \in DOMAIN y.objects : id \in DOMAIN x.objects \/ y.objects[id] \in kinds

LEMMA ShellSurfaceMade ==
    ASSUME NEW q \in Seq(Requests), NEW E, NEW x, Good(x, q, E), Calm(x.sent),
           x.store.compositor # 0, x.store.shell # 0, NEW buffer \in Int
    PROVE  LET y == CreateShellSurface(x, buffer)
           IN  /\ Good(y, q, E) /\ Rest(x, y) /\ Calm(y.sent)
               /\ MakesOnly(x, y, {"surface", "shell_surface"})
<1> DEFINE surface == Free(x)
           y == Create(x, "surface", "create_surface", x.store.compositor)
           shell == Free(y)
           z == Create(y, "shell_surface", "get_shell_surface", x.store.shell)
<1>1. /\ Is(x.objects, x.store.compositor, "compositor") /\ Is(x.objects, x.store.shell, "shell")
  BY DEF Good, World, StoreOK, Known
<1>2. /\ Good(y, q, E) /\ Rest(x, y) /\ Extends(x.objects, y.objects) /\ surface \in Nat \ {0}
      /\ DOMAIN y.objects = DOMAIN x.objects \union {surface} /\ y.objects[surface] = "surface"
      /\ Calm(y.sent)
  <2>1. "create_surface" \in Makers \ {"get_registry", "bind"} /\ Product("create_surface") = "surface"
        /\ Target("create_surface") = "compositor"
    BY DEF Makers, Product, Made, Target
  <2> QED BY <1>1, <2>1, GoodCreates
<1> HIDE DEF y, surface
<1>3. Is(y.objects, x.store.shell, "shell")
  BY <1>1, <1>2 DEF Extends, Is
<1>4. /\ Good(z, q, E) /\ Rest(y, z) /\ Extends(y.objects, z.objects) /\ shell \in Nat \ {0}
      /\ DOMAIN z.objects = DOMAIN y.objects \union {shell} /\ z.objects[shell] = "shell_surface"
      /\ Calm(z.sent)
  <2>1. "get_shell_surface" \in Makers \ {"get_registry", "bind"} /\ Product("get_shell_surface") = "shell_surface"
        /\ Target("get_shell_surface") = "shell"
    BY DEF Makers, Product, Made, Target
  <2> QED BY <1>2, <1>3, <2>1, GoodCreates
<1> HIDE DEF z, shell
<1>5. Is(z.objects, surface, "surface") /\ Is(z.objects, shell, "shell_surface")
  BY <1>2, <1>4 DEF Extends, Is
<1> DEFINE a == Request("set_toplevel", shell, 0, 0)
           b == Request("attach", surface, 0, buffer)
           c == Request("commit", surface, 0, 0)
<1>6. a \in Requests /\ b \in Requests /\ c \in Requests
  <2>1. surface \in Int /\ shell \in Int /\ {"set_toplevel", "attach", "commit"} \subseteq Others
    BY <1>2, <1>4 DEF Others
  <2> QED BY <2>1 DEF Request, Requests
<1> DEFINE za == Send(z, a)
           zb == Send(za, b)
           zc == Send(zb, c)
<1>7. Good(za, q, E) /\ Rest(z, za) /\ za.objects = z.objects /\ Calm(za.sent)
  <2>1. "set_toplevel" \in Others \ {"shoot"} /\ Target("set_toplevel") = "shell_surface"
    BY DEF Others, Target
  <2> QED BY <1>4, <1>5, <2>1, GoodSends
<1> HIDE DEF za
<1>8. Good(zb, q, E) /\ Rest(za, zb) /\ zb.objects = z.objects /\ Calm(zb.sent)
  <2>1. "attach" \in Others \ {"shoot"} /\ Target("attach") = "surface"
    BY DEF Others, Target
  <2> QED BY <1>5, <1>7, <2>1, GoodSends
<1> HIDE DEF zb
<1>9. Good(zc, q, E) /\ Rest(zb, zc) /\ zc.objects = z.objects /\ Calm(zc.sent)
  <2>1. "commit" \in Others \ {"shoot"} /\ Target("commit") = "surface"
    BY DEF Others, Target
  <2> QED BY <1>5, <1>8, <2>1, GoodSends
<1>10. CreateShellSurface(x, buffer) = zc
  <2>1. CreateShellSurface(x, buffer) = [z EXCEPT !.sent = @ \o <<a, b, c>>]
    BY DEF CreateShellSurface, surface, y, shell, z
  <2> HIDE DEF a, b, c
  <2>2. Shape(z) /\ z.sent \in Seq(Requests)
    BY <1>4 DEF Good
  <2>3. [z EXCEPT !.sent = @ \o <<a, b, c>>] = Send(Send(Send(z, a), b), c)
    BY <1>6, <2>2, SendsThree
  <2> QED BY <2>1, <2>3 DEF za, zb
<1> HIDE DEF zc
<1>11. Rest(x, zc)
  BY <1>2, <1>4, <1>7, <1>8, <1>9, RestOn
<1>12. MakesOnly(x, zc, {"surface", "shell_surface"})
  <2>1. Extends(x.objects, zc.objects)
    BY <1>2, <1>4, <1>9, ExtendsOn
  <2> QED BY <1>2, <1>4, <1>9, <2>1 DEF MakesOnly, Extends
<1> QED BY <1>9, <1>10, <1>11, <1>12


-----------------------------------------------------------------------------
(* The stage of the application when an event e was handled.               *)
Keeps(o, u, e) ==
    \A id \in DOMAIN o :
        \/ id \in DOMAIN u /\ u[id] = o[id]
        \/ e.what = "delete_id" /\ id = e.of

LEMMA InitMeans ==
    ASSUME NEW x, NEW y, NEW q, NEW E, Core(x.objects, q, E), E # <<>>,
           Keeps(x.objects, y.objects, Head(E))
    PROVE  /\ \A i \in 1..Len(q) : AsksInit(y, q[i]) <=> AsksInit(x, q[i])
           /\ \A k \in 1..Len(E) : k # 1 => (AnswersInit(y, E[k]) <=> AnswersInit(x, E[k]))
<1>1. Head(E) = E[1] /\ 1 \in 1..Len(E) /\ Len(E) \in Nat
  BY Tailing DEF Core
<1>2. ASSUME NEW i \in 1..Len(q), q[i].what = "sync"
      PROVE  q[i].id \in DOMAIN y.objects /\ y.objects[q[i].id] = x.objects[q[i].id]
  <2>1. q[i].id \in DOMAIN x.objects
    BY <1>2 DEF Core, MakesOK, Others
  <2>2. ~(Head(E).what = "delete_id" /\ q[i].id = Head(E).of)
    BY <1>1 DEF Core, DeletesOK
  <2> QED BY <2>1, <2>2 DEF Keeps
<1>3. ASSUME NEW k \in 1..Len(E), k # 1
      PROVE  E[k].to \in DOMAIN y.objects /\ y.objects[E[k].to] = x.objects[E[k].to]
  <2>1. E[k].to \in DOMAIN x.objects
    BY DEF Core, EventsOK, EventOK
  <2>2. 1 < k
    BY <1>1, <1>3
  <2>3. ~(Head(E).what = "delete_id" /\ E[k].to = Head(E).of)
    BY <1>1, <2>2 DEF Core, DeletesOK
  <2> QED BY <2>1, <2>3 DEF Keeps
<1> QED BY <1>2, <1>3 DEF AsksInit, AnswersInit

(* Requests that are added ask nothing of this.                            *)
LEMMA LineJoins ==
    ASSUME NEW q \in Seq(Requests), NEW s \in Seq(Requests)
    PROVE  /\ q \o s \in Seq(Requests) /\ Len(q \o s) = Len(q) + Len(s) /\ Len(q) \in Nat /\ Len(s) \in Nat
           /\ \A i \in 1..Len(q) : (q \o s)[i] = q[i]
           /\ \A i \in 1..Len(s) : (q \o s)[Len(q) + i] = s[i]
           /\ \A i \in 1..Len(q \o s) :
                i \in 1..Len(q) \/ \E j \in 1..Len(s) : i = Len(q) + j
BY Joining

LEMMA LineGrows ==
    ASSUME NEW q \in Seq(Requests), NEW s \in Seq(Requests),
           \A i \in 1..Len(s) : s[i].what \notin {"sync", "get_registry"}
    PROVE  /\ \A i \in 1..Len(q) : i \in 1..Len(q \o s) /\ (q \o s)[i] = q[i]
           /\ \A i \in 1..Len(q \o s) : (q \o s)[i].what \in {"sync", "get_registry"} =>
                i \in 1..Len(q) /\ (q \o s)[i] = q[i]
<1>1. /\ Len(q \o s) = Len(q) + Len(s) /\ Len(q) \in Nat /\ Len(s) \in Nat
      /\ \A i \in 1..Len(q) : (q \o s)[i] = q[i]
      /\ \A i \in 1..Len(s) : (q \o s)[Len(q) + i] = s[i]
      /\ \A i \in 1..Len(q \o s) :
                i \in 1..Len(q) \/ \E j \in 1..Len(s) : i = Len(q) + j
  BY LineJoins
<1> DEFINE p == q \o s
<1> HIDE DEF p
<1>2. \A i \in 1..Len(q) : i \in 1..Len(p) /\ p[i] = q[i]
  BY <1>1 DEF p
<1>3. ASSUME NEW i \in 1..Len(p), p[i].what \in {"sync", "get_registry"}
      PROVE  i \in 1..Len(q) /\ p[i] = q[i]
  <2>1. CASE i \in 1..Len(q)
    BY <1>2, <2>1
  <2>2. ASSUME NEW j \in 1..Len(s), i = Len(q) + j PROVE FALSE
    <3>1. p[i] = s[j]
      BY <1>1, <2>2 DEF p
    <3> QED BY <1>3, <3>1
  <2>3. i \in 1..Len(q) \/ \E j \in 1..Len(s) : i = Len(q) + j
    BY <1>1 DEF p
  <2> QED BY <2>1, <2>2, <2>3
<1> QED BY <1>2, <1>3 DEF p

LEMMA StageAfter ==
    ASSUME NEW x, NEW y, NEW q, NEW s \in Seq(Requests), NEW E, NEW n \in 1..Len(E), E # <<>>,
           Core(x.objects, q, E), Stage(x, q, E, n), Keeps(x.objects, y.objects, Head(E)),
           \A i \in 1..Len(s) : s[i].what \notin {"sync", "get_registry"},
           \A i \in 1..Len(s) : s[i].what = "authenticate" => y.listener.fd = TRUE,
           x.listener.fd = TRUE => y.listener.fd = TRUE,
           Taking(y), FilesOK(y), ParamsOK(y),
           Asked(q, Tail(E)) =>
                /\ Early(y) /\ x.globals \subseteq y.globals /\ (~x.run => ~y.run)
                /\ OutputComes(y, q \o s, Tail(E))
    PROVE  Stage(y, q \o s, Tail(E), n - 1)
<1> DEFINE p == q \o s
           T == Tail(E)
<1>1. /\ T \in Seq(Events) /\ Len(E) \in Nat \ {0} /\ Len(T) = Len(E) - 1
      /\ \A k \in 1..Len(T) : k + 1 \in 1..Len(E) /\ k + 1 # 1 /\ T[k] = E[k + 1]
      /\ \A k \in 1..Len(E) : k # 1 => k - 1 \in 1..Len(T) /\ T[k - 1] = E[k]
  BY Tailing DEF Core
<1>2. q \in Seq(Requests)
  BY DEF Core
<1>3. /\ \A i \in 1..Len(q) : i \in 1..Len(p) /\ p[i] = q[i]
      /\ \A i \in 1..Len(p) : p[i].what \in {"sync", "get_registry"} => i \in 1..Len(q) /\ p[i] = q[i]
  BY <1>2, LineGrows
<1>4. /\ AskedOnce(q, E) /\ GlobalsInTime(x, q, E) /\ DeviceOK(x, q, E)
      /\ (Asked(q, E) => InitKnown(x, q, E, n))
  BY DEF Stage
<1>5. /\ \A i \in 1..Len(q) : AsksInit(y, q[i]) <=> AsksInit(x, q[i])
      /\ \A k \in 1..Len(E) : k # 1 => (AnswersInit(y, E[k]) <=> AnswersInit(x, E[k]))
  BY InitMeans
<1> HIDE DEF p, T
<1>6. /\ \A i \in 1..Len(p) : AsksInit(y, p[i]) => i \in 1..Len(q) /\ AsksInit(x, q[i])
      /\ \A k \in 1..Len(T) : AnswersInit(y, T[k]) => AnswersInit(x, E[k + 1])
  <2>1. ASSUME NEW i \in 1..Len(p), AsksInit(y, p[i]) PROVE i \in 1..Len(q) /\ AsksInit(x, q[i])
    <3>1. i \in 1..Len(q) /\ p[i] = q[i]
      BY <1>3, <2>1 DEF AsksInit
    <3> QED BY <1>5, <2>1, <3>1
  <2> QED BY <1>1, <1>5, <2>1
<1>7. AskedOnce(p, T)
  <2>1. \A i, j \in 1..Len(p) : p[i].what = "sync" /\ p[j].what = "sync" => i = j
    BY <1>3, <1>4 DEF AskedOnce
  <2>2. ASSUME NEW k \in 1..Len(T), NEW m \in 1..Len(T), T[k].what = "done", T[m].what = "done" PROVE k = m
    <3>1. /\ k + 1 \in 1..Len(E) /\ E[k + 1].what = "done"
          /\ m + 1 \in 1..Len(E) /\ E[m + 1].what = "done"
      BY <1>1, <2>2
    <3>2. k + 1 = m + 1
      BY <1>4, <3>1 DEF AskedOnce
    <3> QED BY <3>2
  <2>3. ASSUME NEW i \in 1..Len(p), NEW k \in 1..Len(T), p[i].what = "sync", T[k].what = "done" PROVE FALSE
    <3>1. i \in 1..Len(q) /\ q[i].what = "sync"
      BY <1>3, <2>3
    <3>2. k + 1 \in 1..Len(E) /\ E[k + 1].what = "done"
      BY <1>1, <2>3
    <3> QED BY <1>4, <3>1, <3>2 DEF AskedOnce
  <2> QED BY <2>1, <2>2, <2>3 DEF AskedOnce
<1>8. Asked(p, T) => Asked(q, E) /\ Asked(q, T)
  <2>1. ASSUME NEW i \in 1..Len(p), p[i].what = "sync" PROVE i \in 1..Len(q) /\ q[i].what = "sync"
    BY <1>3, <2>1
  <2>2. ASSUME NEW k \in 1..Len(T), T[k].what = "done" PROVE k + 1 \in 1..Len(E) /\ E[k + 1].what = "done"
    BY <1>1, <2>2
  <2> QED BY <2>1, <2>2 DEF Asked
<1>9. GlobalsInTime(y, p, T)
  <2>1. Announces(p, T) => Announces(q, E)
    <3>1. \A i \in 1..Len(p) : p[i].what = "get_registry" => i \in 1..Len(q) /\ q[i].what = "get_registry"
      BY <1>3
    <3>2. \A k \in 1..Len(T) : T[k].what = "global" => k + 1 \in 1..Len(E) /\ E[k + 1].what = "global"
      BY <1>1
    <3> QED BY <3>1, <3>2 DEF Announces
  <2>2. Announces(p, T) =>
            /\ \A i \in 1..Len(p) : ~AsksInit(y, p[i])
            /\ \A k \in 1..Len(T) : ~AnswersInit(y, T[k])
    BY <1>1, <1>4, <1>6, <2>1 DEF GlobalsInTime
  <2>3. \A i, j \in 1..Len(p) : p[i].what = "get_registry" /\ p[j].what = "sync" => i < j
    BY <1>3, <1>4 DEF GlobalsInTime
  <2>4. ASSUME NEW k \in 1..Len(T), T[k].what = "done"
        PROVE  /\ \A i \in 1..Len(p) : p[i].what # "get_registry"
               /\ \A m \in 1..Len(T) : T[m].what = "global" => m < k
    <3>1. /\ \A i \in 1..Len(q) : q[i].what # "get_registry"
          /\ \A m \in 1..Len(E) : E[m].what = "global" => m < k + 1
      BY <1>1, <1>4, <2>4 DEF GlobalsInTime
    <3>2. ASSUME NEW m \in 1..Len(T), T[m].what = "global" PROVE m < k
      <4>1. m + 1 < k + 1
        BY <1>1, <3>1, <3>2
      <4> QED BY <4>1
    <3> QED BY <1>3, <3>1, <3>2
  <2> QED BY <2>2, <2>3, <2>4 DEF GlobalsInTime
<1>10. ASSUME InitKnown(x, q, E, n), x.globals \subseteq y.globals, ~x.run => ~y.run
       PROVE  InitKnown(y, p, T, n - 1)
  <2>1. CASE Required(app) \subseteq x.globals
    BY <1>10, <2>1 DEF InitKnown
  <2>2. CASE ~x.run /\ \A k \in 1..n : ~AnswersInit(x, E[k])
    <3>1. ASSUME NEW k \in 1..(n - 1) PROVE ~AnswersInit(y, T[k])
      <4>1. k \in 1..Len(T) /\ k + 1 \in 1..n
        BY <1>1
      <4> QED BY <1>6, <2>2, <4>1
    <3> QED BY <1>10, <2>2, <3>1 DEF InitKnown
  <2>3. CASE (\A i \in 1..Len(q) : ~AsksInit(x, q[i])) /\ (\A k \in 1..Len(E) : ~AnswersInit(x, E[k]))
    <3>1. \A i \in 1..Len(p) : ~AsksInit(y, p[i])
      BY <1>6, <2>3
    <3>2. \A k \in 1..Len(T) : ~AnswersInit(y, T[k])
      BY <1>1, <1>6, <2>3
    <3> QED BY <3>1, <3>2 DEF InitKnown
  <2> QED BY <1>10, <2>1, <2>2, <2>3 DEF InitKnown
<1>11. DeviceOK(y, p, T)
  <2> SUFFICES ASSUME y.listener.fd # TRUE
               PROVE  /\ \A i \in 1..Len(p) : p[i].what # "authenticate"
                      /\ \A k \in 1..Len(T) : T[k].what # "authenticated"
    BY DEF DeviceOK
  <2>1. /\ \A i \in 1..Len(q) : q[i].what # "authenticate"
        /\ \A k \in 1..Len(E) : E[k].what # "authenticated"
    BY <1>4 DEF DeviceOK
  <2>2. \A i \in 1..Len(s) : s[i].what # "authenticate"
    OBVIOUS
  <2>3. ASSUME NEW i \in 1..Len(p) PROVE p[i].what # "authenticate"
    <3>1. /\ \A j \in 1..Len(q) : p[j] = q[j]
          /\ \A j \in 1..Len(s) : p[Len(q) + j] = s[j]
          /\ i \in 1..Len(q) \/ \E j \in 1..Len(s) : i = Len(q) + j
      BY <1>2, Joining DEF p
    <3> QED BY <2>1, <2>2, <3>1
  <2> QED BY <1>1, <2>1, <2>3
<1>12. Asked(p, T) => Early(y) /\ InitKnown(y, p, T, n - 1) /\ OutputComes(y, p, T)
  BY <1>4, <1>8, <1>10 DEF p, T
<1> QED BY <1>7, <1>9, <1>11, <1>12 DEF Stage, p, T


LEMMA OutputStays ==
    ASSUME NEW x, NEW y, NEW q, NEW s \in Seq(Requests), NEW E, E # <<>>,
           Core(x.objects, q, E), OutputComes(x, q, E), Keeps(x.objects, y.objects, Head(E)),
           "output" \in y.globals => "output" \in x.globals, x.outputs # <<>> => y.outputs # <<>>,
           Head(E).what = "output_done" /\ x.drafts[Head(E).to].width # 0 => y.outputs # <<>>,
           \A o \in DOMAIN x.objects :
                x.objects[o] = "output" /\ x.drafts[o].width # 0 => y.drafts[o].width # 0,
           Head(E).what = "mode" => y.drafts[Head(E).to].width # 0
    PROVE  OutputComes(y, q \o s, Tail(E))
<1> DEFINE p == q \o s
           T == Tail(E)
<1>1. /\ T \in Seq(Events) /\ Len(E) \in Nat \ {0} /\ Len(T) = Len(E) - 1 /\ Head(E) = E[1] /\ 1 \in 1..Len(E)
      /\ \A k \in 1..Len(T) : k + 1 \in 1..Len(E) /\ k + 1 # 1 /\ T[k] = E[k + 1]
      /\ \A k \in 1..Len(E) : k # 1 => k - 1 \in 1..Len(T) /\ T[k - 1] = E[k]
  BY Tailing DEF Core
<1>2. q \in Seq(Requests)
  BY DEF Core
<1>3. \A i \in 1..Len(q) : i \in 1..Len(p) /\ p[i] = q[i]
  BY <1>2, Joining
<1>4. /\ \A i \in 1..Len(q) : AsksInit(y, q[i]) <=> AsksInit(x, q[i])
      /\ \A k \in 1..Len(E) : k # 1 => (AnswersInit(y, E[k]) <=> AnswersInit(x, E[k]))
  BY InitMeans
<1> HIDE DEF p, T
<1> SUFFICES ASSUME "output" \in x.globals, y.outputs = <<>> PROVE
        \E o \in DOMAIN y.objects : y.objects[o] = "output" /\ (BindsInTime(y, p, T, o) \/ ToldInTime(y, T, o))
  BY DEF OutputComes, p, T
<1>5. PICK o \in DOMAIN x.objects :
            x.objects[o] = "output" /\ (BindsInTime(x, q, E, o) \/ ToldInTime(x, E, o))
  BY DEF OutputComes
<1>6. o \in DOMAIN y.objects /\ y.objects[o] = "output"
  <2>1. Head(E).what = "delete_id" => x.objects[Head(E).of] \in Callbacks
    BY <1>1 DEF Core, EventsOK, EventOK
  <2>2. ~(Head(E).what = "delete_id" /\ o = Head(E).of)
    BY <1>5, <2>1 DEF Callbacks
  <2> QED BY <1>5, <2>2 DEF Keeps
<1>7. ASSUME BindsInTime(x, q, E, o) PROVE BindsInTime(y, p, T, o)
  <2>1. PICK i \in 1..Len(q) :
            /\ q[i].id = o
            /\ \A j \in 1..(i - 1) : ~AsksInit(x, q[j])
            /\ \A k \in 1..Len(E) : ~AnswersInit(x, E[k])
    BY <1>7 DEF BindsInTime
  <2>2. \A j \in 1..(i - 1) : ~AsksInit(y, p[j])
    <3> TAKE j \in 1..(i - 1)
    <3>1. j \in 1..Len(q) /\ p[j] = q[j]
      BY <1>2, <1>3
    <3> QED BY <1>4, <2>1, <3>1
  <2>3. \A k \in 1..Len(T) : ~AnswersInit(y, T[k])
    BY <1>1, <1>4, <2>1
  <2> QED BY <1>3, <2>1, <2>2, <2>3 DEF BindsInTime
<1>8. ASSUME ToldInTime(x, E, o) PROVE ToldInTime(y, T, o)
  <2>1. PICK k \in 1..Len(E) :
            /\ E[k].what = "output_done" /\ E[k].to = o
            /\ \A m \in 1..(k - 1) : ~AnswersInit(x, E[m])
            /\ x.drafts[o].width # 0 \/ \E m \in 1..(k - 1) : E[m].what = "mode" /\ E[m].to = o
    BY <1>8 DEF ToldInTime
  <2>2. k # 1
    <3> SUFFICES ASSUME k = 1 PROVE FALSE
      OBVIOUS
    <3>1. x.drafts[o].width # 0
      BY <2>1
    <3> QED BY <1>1, <2>1, <3>1
  <2>3. k - 1 \in 1..Len(T) /\ T[k - 1].what = "output_done" /\ T[k - 1].to = o
    BY <1>1, <2>1, <2>2
  <2>4. \A m \in 1..(k - 1 - 1) : ~AnswersInit(y, T[m])
    <3> TAKE m \in 1..(k - 1 - 1)
    <3>1. m \in 1..Len(T) /\ m + 1 \in 1..(k - 1) /\ m + 1 \in 1..Len(E) /\ m + 1 # 1 /\ T[m] = E[m + 1]
      BY <1>1
    <3> QED BY <1>4, <2>1, <3>1
  <2>5. y.drafts[o].width # 0 \/ \E m \in 1..(k - 1 - 1) : T[m].what = "mode" /\ T[m].to = o
    <3>1. CASE x.drafts[o].width # 0
      BY <1>5, <3>1
    <3>2. ASSUME NEW m \in 1..(k - 1), E[m].what = "mode", E[m].to = o, m = 1
          PROVE  y.drafts[o].width # 0
      BY <1>1, <3>2
    <3>3. ASSUME NEW m \in 1..(k - 1), E[m].what = "mode", E[m].to = o, m # 1
          PROVE  \E l \in 1..(k - 1 - 1) : T[l].what = "mode" /\ T[l].to = o
      <4> DEFINE l == m - 1
      <4>1. l \in 1..(k - 1 - 1) /\ T[l] = E[m]
        BY <1>1, <3>3
      <4> HIDE DEF l
      <4> QED BY <3>3, <4>1
    <3> QED BY <2>1, <3>1, <3>2, <3>3
  <2> DEFINE w == k - 1
  <2>6. /\ w \in 1..Len(T) /\ T[w].what = "output_done" /\ T[w].to = o
        /\ \A m \in 1..(w - 1) : ~AnswersInit(y, T[m])
        /\ y.drafts[o].width # 0 \/ \E m \in 1..(w - 1) : T[m].what = "mode" /\ T[m].to = o
    BY <2>3, <2>4, <2>5
  <2> HIDE DEF w
  <2> QED BY <2>6 DEF ToldInTime
<1> QED BY <1>5, <1>6, <1>7, <1>8


-----------------------------------------------------------------------------
(* A client x that handles the first event of E, of which n are read.      *)
Before(x, q, E, n) ==
    /\ E # <<>> /\ n \in 1..Len(E) /\ screens \in Nat /\ runs \in Nat \ {0}
    /\ World(x, q, E) /\ Stage(x, q, E, n) /\ x.sent = <<>> /\ x.fault = Nothing

(* It goes on, or has failed for a cause.                                  *)
Goes(y, q, T, n) == Good(y, q, T) /\ Stage(y, q \o y.sent, T, n)

Caused(y) ==
    \/ y.fault = "file" /\ runs > 1
    \/ y.fault = "window" /\ app # "screenshot" /\ "window" \notin works

After(y, q, E, n) == Shape(y) /\ (Goes(y, q, Tail(E), n - 1) \/ Caused(y))

LEMMA Handles ==
    ASSUME NEW x, NEW q, NEW E, NEW n, Before(x, q, E, n)
    PROVE  /\ Good(x, q, Tail(E)) /\ Calm(x.sent) /\ q \in Seq(Requests) /\ Core(x.objects, q, E)
           /\ EventOK(x.objects, Head(E)) /\ Head(E) \in Events /\ ObjectsOK(x.objects)
<1>1. Core(x.objects, q, E) /\ E # <<>>
  BY DEF Before, World
<1>2. Core(x.objects, q, Tail(E)) /\ EventOK(x.objects, Head(E)) /\ Head(E) \in Events
  BY <1>1, CoreHandles
<1>3. q \in Seq(Requests) /\ ObjectsOK(x.objects)
  BY <1>1 DEF Core
<1>4. q \o x.sent = q /\ x.sent \in Seq(Requests) /\ Len(x.sent) = 0
  BY <1>3 DEF Before
<1> QED BY <1>1, <1>2, <1>3, <1>4 DEF Before, Good, World, Calm

(* The records its stage depends on stay.                                  *)
Alike(x, y) ==
    /\ y.store.screenshot = x.store.screenshot /\ y.store.screenshooter = x.store.screenshooter
    /\ y.store.shm = x.store.shm /\ y.store.compositor = x.store.compositor /\ y.store.shell = x.store.shell
    /\ y.globals = x.globals /\ y.listener = x.listener /\ y.disk = x.disk /\ (~x.run => ~y.run)

OutputsGrow(x, y, e) ==
    /\ x.outputs # <<>> => y.outputs # <<>>
    /\ e.what = "output_done" /\ x.drafts[e.to].width # 0 => y.outputs # <<>>
    /\ \A o \in DOMAIN x.objects :
            x.objects[o] = "output" /\ x.drafts[o].width # 0 => y.drafts[o].width # 0
    /\ e.what = "mode" => y.drafts[e.to].width # 0

LEMMA StageAlike ==
    ASSUME NEW x, NEW q, NEW E, NEW n, Before(x, q, E, n), NEW y, y.sent \in Seq(Requests), Calm(y.sent),
           Keeps(x.objects, y.objects, Head(E)), Alike(x, y), OutputsGrow(x, y, Head(E)),
           \A id \in DOMAIN y.objects :
                \/ id \in DOMAIN x.objects /\ y.objects[id] = x.objects[id]
                \/ y.objects[id] \notin {"params", "screenshooter"}
    PROVE  Stage(y, q \o y.sent, Tail(E), n - 1)
<1>1. /\ E # <<>> /\ n \in 1..Len(E) /\ Core(x.objects, q, E) /\ Stage(x, q, E, n)
  BY DEF Before, World
<1>2. Taking(y) /\ FilesOK(y) /\ ParamsOK(y)
  <2>1. Taking(x) /\ FilesOK(x) /\ ParamsOK(x)
    BY <1>1 DEF Stage
  <2> QED BY <2>1 DEF Taking, FilesOK, ParamsOK, Alike
<1>3. ASSUME Asked(q, Tail(E))
      PROVE  /\ Early(y) /\ x.globals \subseteq y.globals /\ (~x.run => ~y.run)
             /\ OutputComes(y, q \o y.sent, Tail(E))
  <2>1. Asked(q, E)
    <3>1. \A k \in 1..Len(Tail(E)) : k + 1 \in 1..Len(E) /\ Tail(E)[k] = E[k + 1]
      BY <1>1, Tailing DEF Core
    <3> QED BY <1>3, <3>1 DEF Asked
  <2>2. Early(x) /\ OutputComes(x, q, E)
    BY <1>1, <2>1 DEF Stage
  <2>3. Early(y)
    BY <2>2 DEF Early, Alike
  <2>4. OutputComes(y, q \o y.sent, Tail(E))
    BY <1>1, <2>2, OutputStays DEF Alike, OutputsGrow
  <2> QED BY <2>3, <2>4 DEF Alike
<1>4. \A i \in 1..Len(y.sent) : y.sent[i].what \notin {"sync", "get_registry", "authenticate"}
  BY DEF Calm
<1>5. y.listener.fd = x.listener.fd
  BY DEF Alike
<1> QED BY <1>1, <1>2, <1>3, <1>4, <1>5, StageAfter

(* Events that change no objects and ask for nothing.                      *)
LEMMA Noted ==
    ASSUME NEW x, NEW q, NEW E, NEW n, Before(x, q, E, n), NEW y, Shape(y), y.objects = x.objects,
           y.sent = x.sent, y.fault = x.fault, StoreOK(y), OutputsOK(y), Alike(x, y), OutputsGrow(x, y, Head(E))
    PROVE  After(y, q, E, n)
<1>1. Good(x, q, Tail(E)) /\ Calm(x.sent)
  BY Handles
<1>2. Good(y, q, Tail(E))
  BY <1>1 DEF Good, World
<1>3. Stage(y, q \o y.sent, Tail(E), n - 1)
  BY <1>1, StageAlike DEF Keeps, Good
<1> QED BY <1>2, <1>3 DEF After, Goes


-----------------------------------------------------------------------------
(* The handlers of events, one by one.                                     *)
LEMMA DeleteIdHandled ==
    ASSUME NEW x, NEW q, NEW E, NEW n, Before(x, q, E, n), Head(E).what = "delete_id"
    PROVE  After(DisplayDeleteId(x, Head(E)), q, E, n)
<1> DEFINE e == Head(E)
           y == DisplayDeleteId(x, e)
<1>1. /\ Good(x, q, Tail(E)) /\ Calm(x.sent) /\ EventOK(x.objects, e) /\ Core(x.objects, q, E)
      /\ q \in Seq(Requests)
  BY Handles
<1>2. e.of \in DOMAIN x.objects /\ x.objects[e.of] \in Callbacks
  BY <1>1 DEF EventOK
<1>3. /\ Shape(y) /\ Rest(x, y) /\ y.sent = x.sent
      /\ DOMAIN y.objects = DOMAIN x.objects \ {e.of}
      /\ \A id \in DOMAIN y.objects : y.objects[id] = x.objects[id]
  BY <1>1 DEF Good, Shape, Fields, DisplayDeleteId, Destroyed, Rest
<1> HIDE DEF y
<1>4. Core(y.objects, q, Tail(E))
  BY <1>1, <1>3, CoreDeletes DEF Before
<1>5. q \o y.sent = q
  BY <1>1, <1>3 DEF Before
<1>6. \A id, kind : Is(x.objects, id, kind) /\ kind \notin Callbacks => Is(y.objects, id, kind)
  BY <1>2, <1>3 DEF Is
<1>7. StoreOK(y)
  <2>1. StoreOK(x) /\ Known \cap Callbacks = {}
    BY <1>1 DEF Good, World, Known, Callbacks
  <2>2. y.store = x.store /\ y.globals = x.globals
    BY <1>3 DEF Rest
  <2> QED BY <1>6, <2>1, <2>2 DEF StoreOK
<1>8. OutputsOK(y)
  <2>1. OutputsOK(x) /\ "output" \notin Callbacks
    BY <1>1 DEF Good, World, Callbacks
  <2>2. y.drafts = x.drafts /\ y.outputs = x.outputs /\ y.listener = x.listener
    BY <1>3 DEF Rest
  <2> QED BY <1>3, <1>6, <2>1, <2>2 DEF OutputsOK
<1>9. Good(y, q, Tail(E))
  BY <1>1, <1>3, <1>4, <1>5, <1>7, <1>8 DEF Good, World, Rest
<1>10. Stage(y, q \o y.sent, Tail(E), n - 1)
  <2>1. Keeps(x.objects, y.objects, e)
    BY <1>3 DEF Keeps
  <2>2. Alike(x, y) /\ OutputsGrow(x, y, e)
    BY <1>3 DEF Alike, OutputsGrow, Rest
  <2>3. \A id \in DOMAIN y.objects : id \in DOMAIN x.objects /\ y.objects[id] = x.objects[id]
    BY <1>3
  <2> QED BY <1>1, <1>3, <2>1, <2>2, <2>3, StageAlike DEF Good
<1> QED BY <1>3, <1>9, <1>10 DEF After, Goes, y

LEMMA GeometryHandled ==
    ASSUME NEW x, NEW q, NEW E, NEW n, Before(x, q, E, n), Head(E).what = "geometry"
    PROVE  After(OutputGeometry(x, Head(E)), q, E, n)
<1> DEFINE e == Head(E)
           y == OutputGeometry(x, e)
<1>1. Good(x, q, Tail(E)) /\ EventOK(x.objects, e)
  BY Handles
<1>2. e.to \in DOMAIN x.objects /\ x.objects[e.to] = "output" /\ e.of \in Int
  BY <1>1 DEF EventOK, Recipient
<1>3. Shape(x) /\ StoreOK(x) /\ OutputsOK(x)
  BY <1>1 DEF Good, World
<1>4. e.to \in DOMAIN x.drafts /\ x.drafts[e.to] \in Outputs
  BY <1>2, <1>3 DEF OutputsOK
<1>5. /\ Shape(y) /\ y.drafts = [x.drafts EXCEPT ![e.to].x = e.of]
      /\ y.objects = x.objects /\ y.sent = x.sent /\ y.fault = x.fault /\ y.store = x.store /\ y.globals = x.globals
      /\ y.listener = x.listener /\ y.disk = x.disk /\ y.run = x.run /\ y.outputs = x.outputs
  BY <1>3 DEF Shape, Fields, OutputGeometry
<1> HIDE DEF y
<1>6. StoreOK(y)
  BY <1>3, <1>5 DEF StoreOK
<1>7. /\ DOMAIN y.drafts = DOMAIN x.drafts /\ y.drafts[e.to] \in Outputs /\ y.drafts[e.to].id = x.drafts[e.to].id
      /\ y.drafts[e.to].width = x.drafts[e.to].width
      /\ \A o \in DOMAIN x.drafts : o # e.to => y.drafts[o] = x.drafts[o]
  <2>1. /\ DOMAIN y.drafts = DOMAIN x.drafts
        /\ y.drafts[e.to] = [x.drafts[e.to] EXCEPT !.x = e.of]
        /\ \A o \in DOMAIN x.drafts : o # e.to => y.drafts[o] = x.drafts[o]
    BY <1>4, <1>5
  <2> QED BY <1>2, <1>4, <2>1 DEF Outputs
<1>8. OutputsOK(y)
  <2>1. \A id \in DOMAIN y.objects : y.objects[id] = "output" =>
            id \in DOMAIN y.drafts /\ y.drafts[id] \in Outputs /\ y.drafts[id].id = id
    <3> TAKE id \in DOMAIN y.objects
    <3>1. x.objects[id] = "output" =>
            id \in DOMAIN x.drafts /\ x.drafts[id] \in Outputs /\ x.drafts[id].id = id
      BY <1>3, <1>5 DEF OutputsOK
    <3> QED BY <1>5, <1>7, <3>1
  <2> QED BY <1>3, <1>5, <2>1 DEF OutputsOK
<1>9. OutputsGrow(x, y, e)
  BY <1>3, <1>5, <1>7 DEF OutputsGrow, OutputsOK
<1>10. Alike(x, y)
  BY <1>5 DEF Alike
<1> QED BY <1>5, <1>6, <1>8, <1>9, <1>10, Noted DEF y

LEMMA ModeHandled ==
    ASSUME NEW x, NEW q, NEW E, NEW n, Before(x, q, E, n), Head(E).what = "mode"
    PROVE  After(OutputMode(x, Head(E)), q, E, n)
<1> DEFINE e == Head(E)
           y == OutputMode(x, e)
<1>1. Good(x, q, Tail(E)) /\ EventOK(x.objects, e)
  BY Handles
<1>2. e.to \in DOMAIN x.objects /\ x.objects[e.to] = "output" /\ e.of \in Int /\ e.of # 0
  BY <1>1, WidthAssumption DEF EventOK, Recipient
<1>3. Shape(x) /\ StoreOK(x) /\ OutputsOK(x)
  BY <1>1 DEF Good, World
<1>4. e.to \in DOMAIN x.drafts /\ x.drafts[e.to] \in Outputs
  BY <1>2, <1>3 DEF OutputsOK
<1>5. /\ Shape(y) /\ y.drafts = [x.drafts EXCEPT ![e.to].width = e.of]
      /\ y.objects = x.objects /\ y.sent = x.sent /\ y.fault = x.fault /\ y.store = x.store /\ y.globals = x.globals
      /\ y.listener = x.listener /\ y.disk = x.disk /\ y.run = x.run /\ y.outputs = x.outputs
  BY <1>3 DEF Shape, Fields, OutputMode
<1> HIDE DEF y
<1>6. StoreOK(y)
  BY <1>3, <1>5 DEF StoreOK
<1>7. /\ DOMAIN y.drafts = DOMAIN x.drafts /\ y.drafts[e.to] \in Outputs /\ y.drafts[e.to].id = x.drafts[e.to].id
      /\ y.drafts[e.to].width # 0
      /\ \A o \in DOMAIN x.drafts : o # e.to => y.drafts[o] = x.drafts[o]
  <2>1. /\ DOMAIN y.drafts = DOMAIN x.drafts
        /\ y.drafts[e.to] = [x.drafts[e.to] EXCEPT !.width = e.of]
        /\ \A o \in DOMAIN x.drafts : o # e.to => y.drafts[o] = x.drafts[o]
    BY <1>4, <1>5
  <2> QED BY <1>2, <1>4, <2>1 DEF Outputs
<1>8. OutputsOK(y)
  <2>1. \A id \in DOMAIN y.objects : y.objects[id] = "output" =>
            id \in DOMAIN y.drafts /\ y.drafts[id] \in Outputs /\ y.drafts[id].id = id
    <3> TAKE id \in DOMAIN y.objects
    <3>1. x.objects[id] = "output" =>
            id \in DOMAIN x.drafts /\ x.drafts[id] \in Outputs /\ x.drafts[id].id = id
      BY <1>3, <1>5 DEF OutputsOK
    <3> QED BY <1>5, <1>7, <3>1
  <2> QED BY <1>3, <1>5, <2>1 DEF OutputsOK
<1>9. OutputsGrow(x, y, e)
  BY <1>3, <1>5, <1>7 DEF OutputsGrow, OutputsOK
<1>10. Alike(x, y)
  BY <1>5 DEF Alike
<1> QED BY <1>5, <1>6, <1>8, <1>9, <1>10, Noted DEF y

LEMMA OutputDoneHandled ==
    ASSUME NEW x, NEW q, NEW E, NEW n, Before(x, q, E, n), Head(E).what = "output_done"
    PROVE  After(OutputDone(x, Head(E)), q, E, n)
<1> DEFINE e == Head(E)
           y == OutputDone(x, e)
<1>1. Good(x, q, Tail(E)) /\ EventOK(x.objects, e)
  BY Handles
<1>2. e.to \in DOMAIN x.objects /\ x.objects[e.to] = "output"
  BY <1>1 DEF EventOK, Recipient
<1>3. Shape(x) /\ StoreOK(x) /\ OutputsOK(x)
  BY <1>1 DEF Good, World
<1>4. e.to \in DOMAIN x.drafts /\ x.drafts[e.to] \in Outputs /\ x.drafts[e.to].id = e.to
  BY <1>2, <1>3 DEF OutputsOK
<1>5. CASE x.drafts[e.to].width = 0
  <2>1. y = x
    BY <1>5 DEF OutputDone
  <2>2. Alike(x, x) /\ OutputsGrow(x, x, e)
    BY <1>5 DEF Alike, OutputsGrow
  <2> QED BY <1>3, <2>1, <2>2, Noted
<1>6. CASE x.drafts[e.to].width # 0
  <2>1. /\ Shape(y) /\ y.outputs = Append(x.outputs, x.drafts[e.to]) /\ y.drafts = x.drafts
        /\ y.objects = x.objects /\ y.sent = x.sent /\ y.fault = x.fault /\ y.store = x.store /\ y.globals = x.globals
        /\ y.listener = x.listener /\ y.disk = x.disk /\ y.run = x.run
    BY <1>3, <1>6 DEF Shape, Fields, OutputDone
  <2> HIDE DEF y
  <2>2. StoreOK(y)
    BY <1>3, <2>1 DEF StoreOK
  <2>3. x.outputs \in Seq(Outputs)
    BY <1>3 DEF OutputsOK
  <2>4. /\ y.outputs \in Seq(Outputs)
        /\ \A i \in 1..Len(y.outputs) :
                \/ i \in 1..Len(x.outputs) /\ y.outputs[i] = x.outputs[i]
                \/ y.outputs[i] = x.drafts[e.to]
    <3>1. /\ Append(x.outputs, x.drafts[e.to]) \in Seq(Outputs)
          /\ Append(x.outputs, x.drafts[e.to])[Len(x.outputs) + 1] = x.drafts[e.to]
          /\ \A i \in 1..Len(x.outputs) : Append(x.outputs, x.drafts[e.to])[i] = x.outputs[i]
          /\ \A i \in 1..Len(Append(x.outputs, x.drafts[e.to])) : i \in 1..Len(x.outputs) \/ i = Len(x.outputs) + 1
      BY <1>4, <2>3, Appending
    <3> QED BY <2>1, <3>1
  <2>5. OutputsOK(y)
    <3>1. \A i \in 1..Len(y.outputs) : Is(y.objects, y.outputs[i].id, "output")
      <4> TAKE i \in 1..Len(y.outputs)
      <4>1. CASE i \in 1..Len(x.outputs) /\ y.outputs[i] = x.outputs[i]
        BY <1>3, <2>1, <4>1 DEF OutputsOK
      <4>2. CASE y.outputs[i] = x.drafts[e.to]
        BY <1>2, <1>4, <2>1, <4>2 DEF Is
      <4> QED BY <2>4, <4>1, <4>2
    <3>2. /\ \A id \in DOMAIN y.objects : y.objects[id] = "output" =>
                id \in DOMAIN y.drafts /\ y.drafts[id] \in Outputs /\ y.drafts[id].id = id
          /\ y.listener.outputs \in Seq(Outputs)
          /\ \A i \in 1..Len(y.listener.outputs) : Is(y.objects, y.listener.outputs[i].id, "output")
      BY <1>3, <2>1 DEF OutputsOK
    <3> QED BY <2>4, <3>1, <3>2 DEF OutputsOK
  <2>6. y.outputs # <<>>
    BY <2>1, <2>3, <1>4
  <2>7. Alike(x, y) /\ OutputsGrow(x, y, e)
    BY <2>1, <2>6 DEF Alike, OutputsGrow
  <2> QED BY <2>1, <2>2, <2>5, <2>7, Noted DEF y
<1> QED BY <1>5, <1>6

LEMMA DeviceHandled ==
    ASSUME NEW x, NEW q, NEW E, NEW n, Before(x, q, E, n), Head(E).what = "device"
    PROVE  After(DrmDevice(x, Head(E)), q, E, n)
<1> DEFINE e == Head(E)
           y == DrmDevice(x, e)
<1>1. Shape(x) /\ StoreOK(x) /\ OutputsOK(x)
  BY Handles DEF Good, World
<1>2. /\ Shape(y) /\ y.outputs = x.outputs /\ y.drafts = x.drafts
      /\ y.objects = x.objects /\ y.sent = x.sent /\ y.fault = x.fault /\ y.globals = x.globals
      /\ y.listener = x.listener /\ y.disk = x.disk /\ y.run = x.run
      /\ y.store = [x.store EXCEPT !.device = TRUE]
  BY <1>1 DEF Shape, Fields, DrmDevice
<1> HIDE DEF y
<1>3. /\ \A f \in Known : y.store[f] = x.store[f]
      /\ y.store.registry = x.store.registry /\ y.store.name = x.store.name
  BY <1>1, <1>2 DEF Shape, Known
<1>4. StoreOK(y)
  BY <1>1, <1>2, <1>3 DEF StoreOK
<1>5. OutputsOK(y)
  BY <1>1, <1>2 DEF OutputsOK
<1>6. Alike(x, y)
  BY <1>1, <1>2 DEF Alike, Shape, Known
<1>7. OutputsGrow(x, y, e)
  BY <1>2 DEF OutputsGrow
<1> QED BY <1>2, <1>4, <1>5, <1>6, <1>7, Noted DEF y

(* The application stops, or does not care.                                *)
LEMMA StopHandled ==
    ASSUME NEW x, NEW q, NEW E, NEW n, Before(x, q, E, n), Head(E).what \notin {"output_done", "mode"}
    PROVE  After(Stop(x), q, E, n) /\ After(x, q, E, n)
<1>1. Shape(x) /\ StoreOK(x) /\ OutputsOK(x)
  BY Handles DEF Good, World
<1> DEFINE y == Stop(x)
<1>2. /\ Shape(y) /\ y.outputs = x.outputs /\ y.drafts = x.drafts
      /\ y.objects = x.objects /\ y.sent = x.sent /\ y.fault = x.fault /\ y.globals = x.globals
      /\ y.listener = x.listener /\ y.disk = x.disk /\ y.store = x.store /\ ~y.run
  BY <1>1 DEF Shape, Fields, Stop
<1> HIDE DEF y
<1>3. StoreOK(y) /\ OutputsOK(y)
  BY <1>1, <1>2 DEF StoreOK, OutputsOK
<1>4. Alike(x, y) /\ OutputsGrow(x, y, Head(E))
  BY <1>2 DEF Alike, OutputsGrow
<1>5. Alike(x, x) /\ OutputsGrow(x, x, Head(E))
  BY DEF Alike, OutputsGrow
<1> QED BY <1>1, <1>2, <1>3, <1>4, <1>5, Noted DEF y


(* Globals: objects are bound for most of them.                            *)
Noticed(x, e) == [x EXCEPT !.globals = @ \union {e.of.interface}]

BoundTo(x, e) ==
    Send(AddObject(Noticed(x, e), Free(x), e.of.interface), Request("bind", e.to, Free(x), e.of.name))

LEMMA GlobalFacts ==
    ASSUME NEW x, NEW q, NEW E, NEW n, Before(x, q, E, n), Head(E).what = "global"
    PROVE  LET e == Head(E)
               y == Noticed(x, e)
           IN  /\ Is(x.objects, e.to, "registry") /\ e.to \in Int
               /\ e.of.name \in DOMAIN Globals /\ e.of.name \in Nat \ {0}
               /\ e.of.interface = Globals[e.of.name] /\ e.of.interface \in Interfaces
               /\ Free(x) \in Nat \ {0} /\ Free(x) \notin DOMAIN x.objects /\ Free(y) = Free(x)
               /\ Shape(y) /\ y.globals = x.globals \union {e.of.interface}
               /\ y.outputs = x.outputs /\ y.drafts = x.drafts /\ y.objects = x.objects
               /\ y.sent = x.sent /\ y.fault = x.fault /\ y.listener = x.listener
               /\ y.disk = x.disk /\ y.store = x.store /\ y.run = x.run
<1> DEFINE e == Head(E)
           y == Noticed(x, e)
<1>1. /\ EventOK(x.objects, e) /\ ObjectsOK(x.objects) /\ Shape(x)
  BY Handles DEF Good
<1>2. Is(x.objects, e.to, "registry") /\ e.to \in Int
  BY <1>1 DEF EventOK, ObjectsOK, Recipient, Is
<1>3. e.of.name \in DOMAIN Globals /\ e.of.interface = Globals[e.of.name]
  BY <1>1 DEF EventOK
<1>4. e.of.name \in Nat \ {0} /\ e.of.interface \in Interfaces
  <2>1. DOMAIN Globals = 1..(7 + screens) /\ 7 + screens \in Nat /\ \A k \in DOMAIN Globals : Globals[k] \in Interfaces
    BY GlobalsOK DEF Before
  <2> QED BY <1>3, <2>1
<1>5. Free(x) \in Nat \ {0} /\ Free(x) \notin DOMAIN x.objects
  BY <1>1, FreeIsFree DEF ObjectsOK
<1>6. /\ Shape(y) /\ y.globals = x.globals \union {e.of.interface}
      /\ y.outputs = x.outputs /\ y.drafts = x.drafts /\ y.objects = x.objects
      /\ y.sent = x.sent /\ y.fault = x.fault /\ y.listener = x.listener
      /\ y.disk = x.disk /\ y.store = x.store /\ y.run = x.run
  BY <1>1 DEF Noticed, Shape, Fields
<1>7. Free(y) = Free(x)
  BY <1>6 DEF Free
<1> QED BY <1>2, <1>3, <1>4, <1>5, <1>6, <1>7

LEMMA GlobalBound ==
    ASSUME NEW x, NEW q, NEW E, NEW n, Before(x, q, E, n), Head(E).what = "global",
           Head(E).of.interface \notin {"screenshooter", "other"}
    PROVE  LET e == Head(E)
               b == BoundTo(x, e)
               r == Request("bind", e.to, Free(x), e.of.name)
           IN  /\ Shape(b) /\ b.fault = x.fault /\ b.sent = Append(x.sent, r)
               /\ b.globals = x.globals \union {e.of.interface}
               /\ b.outputs = x.outputs /\ b.drafts = x.drafts /\ b.listener = x.listener
               /\ b.disk = x.disk /\ b.store = x.store /\ b.run = x.run
               /\ DOMAIN b.objects = DOMAIN x.objects \union {Free(x)}
               /\ b.objects[Free(x)] = e.of.interface
               /\ Extends(x.objects, b.objects)
               /\ r \in Requests /\ r.what = "bind" /\ r.id = Free(x)
               /\ MaySend(x.objects, b.objects, r)
<1> DEFINE e == Head(E)
           y == Noticed(x, e)
           new == Free(x)
           a == AddObject(y, new, e.of.interface)
           r == Request("bind", e.to, new, e.of.name)
           b == Send(a, r)
<1>1. /\ Is(x.objects, e.to, "registry") /\ e.to \in Int
      /\ e.of.name \in DOMAIN Globals /\ e.of.name \in Nat \ {0} /\ e.of.name \in Int
      /\ e.of.interface = Globals[e.of.name] /\ e.of.interface \in Interfaces
      /\ new \in Nat \ {0} /\ new \in Int /\ new \notin DOMAIN x.objects
      /\ Shape(y) /\ y.globals = x.globals \union {e.of.interface}
      /\ y.outputs = x.outputs /\ y.drafts = x.drafts /\ y.objects = x.objects
      /\ y.sent = x.sent /\ y.fault = x.fault /\ y.listener = x.listener
      /\ y.disk = x.disk /\ y.store = x.store /\ y.run = x.run
  BY GlobalFacts
<1> HIDE DEF e, y, new
<1>2. /\ Shape(a) /\ Rest(y, a) /\ a.objects = With(x.objects, new, e.of.interface) /\ a.sent = x.sent
  BY <1>1 DEF AddObject, Shape, Fields, Rest
<1> HIDE DEF a
<1>3. Shape(b) /\ Rest(a, b) /\ b.objects = a.objects /\ b.sent = Append(x.sent, r)
  BY <1>2, SendFields
<1>4. /\ DOMAIN b.objects = DOMAIN x.objects \union {new} /\ b.objects[new] = e.of.interface
      /\ Extends(x.objects, b.objects)
  BY <1>1, <1>2, <1>3 DEF With, Extends
<1>5. r \in Requests /\ r.what = "bind" /\ r.id = new /\ r.to = e.to /\ r.of = e.of.name
  <2>1. "bind" \in Makers
    BY DEF Makers
  <2> QED BY <1>1, <2>1 DEF Request, Requests
<1> HIDE DEF r, b
<1>6. MaySend(x.objects, b.objects, r)
  <2>1. "bind" \notin Others /\ Target("bind") = "registry" /\ new # ServerId
    BY <1>1 DEF Others, Target, ServerId
  <2>2. Makes(r) = e.of.interface
    BY <1>1, <1>5 DEF Makes
  <2>3. e.of.interface \notin Callbacks
    BY <1>1 DEF Interfaces, Callbacks
  <2> QED BY <1>1, <1>4, <1>5, <2>1, <2>2, <2>3 DEF MaySend
<1>7. BoundTo(x, e) = b
  BY DEF BoundTo, b, a, y, new, r
<1> QED BY <1>1, <1>2, <1>3, <1>4, <1>5, <1>6, <1>7 DEF e, r, Rest, new


LEMMA GlobalStage ==
    ASSUME NEW x, NEW q, NEW E, NEW n, Before(x, q, E, n), Head(E).what = "global",
           NEW z, z.sent \in Seq(Requests), Calm(z.sent), Extends(x.objects, z.objects),
           \A id \in DOMAIN z.objects :
                id \in DOMAIN x.objects \/ z.objects[id] \notin {"params", "screenshooter"},
           x.globals \subseteq z.globals, z.run = x.run, z.listener = x.listener, z.disk = x.disk,
           z.store.screenshot = x.store.screenshot, z.store.screenshooter = x.store.screenshooter,
           x.store.shm # 0 => z.store.shm # 0, x.store.compositor # 0 => z.store.compositor # 0,
           x.store.shell # 0 => z.store.shell # 0,
           OutputComes(x, q, E) => OutputComes(z, q \o z.sent, Tail(E))
    PROVE  Stage(z, q \o z.sent, Tail(E), n - 1)
<1>1. /\ E # <<>> /\ n \in 1..Len(E) /\ Core(x.objects, q, E) /\ Stage(x, q, E, n)
  BY DEF Before, World
<1>2. \A id \in DOMAIN z.objects :
            \/ id \in DOMAIN x.objects /\ z.objects[id] = x.objects[id]
            \/ z.objects[id] \notin {"params", "screenshooter"}
  BY DEF Extends
<1>3. Taking(z) /\ FilesOK(z) /\ ParamsOK(z)
  <2>1. Taking(x) /\ FilesOK(x) /\ ParamsOK(x)
    BY <1>1 DEF Stage
  <2> QED BY <1>2, <2>1 DEF Taking, FilesOK, ParamsOK
<1>4. ASSUME Asked(q, Tail(E))
      PROVE  Early(z) /\ OutputComes(z, q \o z.sent, Tail(E))
  <2>1. Asked(q, E)
    <3>1. \A k \in 1..Len(Tail(E)) : k + 1 \in 1..Len(E) /\ Tail(E)[k] = E[k + 1]
      BY <1>1, Tailing DEF Core
    <3> QED BY <1>4, <3>1 DEF Asked
  <2>2. Early(x) /\ OutputComes(x, q, E)
    BY <1>1, <2>1 DEF Stage
  <2> QED BY <1>2, <2>2 DEF Early
<1>5. \A i \in 1..Len(z.sent) : z.sent[i].what \notin {"sync", "get_registry", "authenticate"}
  BY DEF Calm
<1>6. Keeps(x.objects, z.objects, Head(E))
  BY DEF Keeps, Extends
<1> QED BY <1>1, <1>3, <1>4, <1>5, <1>6, StageAfter

LEMMA ShellLike ==
    ASSUME NEW x, NEW q, NEW E, NEW n, Before(x, q, E, n), Head(E).what = "global",
           Head(E).of.interface \in {"compositor", "shell", "drm", "dmabuf", "shm"}
    PROVE  After(RegistryGlobal(x, Head(E)), q, E, n)
<1> DEFINE e == Head(E)
           i == Head(E).of.interface
           new == Free(x)
           r == Request("bind", e.to, new, e.of.name)
           b == BoundTo(x, e)
           z == [b EXCEPT !.store[i] = new]
<1>1. /\ Good(x, q, Tail(E)) /\ Calm(x.sent) /\ q \in Seq(Requests) /\ x.fault = Nothing
      /\ Shape(x) /\ StoreOK(x) /\ OutputsOK(x) /\ x.sent \in Seq(Requests)
  BY Handles DEF Good, World
<1>2. /\ Shape(b) /\ b.fault = x.fault /\ b.sent = Append(x.sent, r)
      /\ b.globals = x.globals \union {i}
      /\ b.outputs = x.outputs /\ b.drafts = x.drafts /\ b.listener = x.listener
      /\ b.disk = x.disk /\ b.store = x.store /\ b.run = x.run
      /\ DOMAIN b.objects = DOMAIN x.objects \union {new}
      /\ b.objects[new] = i
      /\ Extends(x.objects, b.objects)
      /\ r \in Requests /\ r.what = "bind" /\ r.id = new
      /\ MaySend(x.objects, b.objects, r)
  BY GlobalBound
<1>3. new \in Nat \ {0} /\ Free(Noticed(x, e)) = new
  BY GlobalFacts
<1>4. RegistryGlobal(x, e) = z
  BY <1>3 DEF RegistryGlobal, BoundTo, Noticed
<1> HIDE DEF b, r, new
<1>5. /\ Shape(z) /\ z.objects = b.objects /\ z.sent = b.sent /\ z.fault = b.fault /\ z.globals = b.globals
      /\ z.outputs = b.outputs /\ z.drafts = b.drafts /\ z.listener = b.listener
      /\ z.disk = b.disk /\ z.run = b.run /\ z.store = [b.store EXCEPT ![i] = new]
  BY <1>2 DEF Shape, Fields
<1> HIDE DEF z
<1>6. i \in Known \ {"registry", "screenshooter"}
  BY DEF Known
<1>7. /\ z.store[i] = new /\ \A f \in Known \union {"name", "device", "screenshot"} : f # i => z.store[f] = x.store[f]
  BY <1>2, <1>5, <1>6 DEF Shape
<1>8. /\ z.store.screenshot = x.store.screenshot /\ z.store.screenshooter = x.store.screenshooter
      /\ z.store.registry = x.store.registry /\ z.store.name = x.store.name
      /\ z.store.shm \in {x.store.shm, new} /\ z.store.compositor \in {x.store.compositor, new}
      /\ z.store.shell \in {x.store.shell, new}
  BY <1>6, <1>7 DEF Known
<1>9. StoreOK(z)
  <2>1. ASSUME NEW f \in Known, z.store[f] # 0 PROVE Is(z.objects, z.store[f], f)
    <3>1. CASE f = i
      BY <1>2, <1>5, <1>7, <3>1 DEF Is
    <3>2. CASE f # i
      <4>1. Is(x.objects, z.store[f], f)
        BY <1>1, <1>7, <2>1, <3>2 DEF StoreOK
      <4> QED BY <1>2, <1>5, <4>1 DEF Is, Extends
    <3> QED BY <3>1, <3>2
  <2>2. \A f \in Known \ {"registry", "screenshooter"} : f \in z.globals => z.store[f] # 0
    BY <1>1, <1>2, <1>3, <1>5, <1>7 DEF StoreOK
  <2>3. "screenshooter" \in z.globals => z.store.name # 0
    BY <1>1, <1>2, <1>5, <1>8 DEF StoreOK
  <2> QED BY <1>1, <1>8, <2>1, <2>2, <2>3 DEF StoreOK
<1>10. OutputsOK(z)
  <2>1. \A id \in DOMAIN z.objects : z.objects[id] = "output" => id \in DOMAIN x.objects
    BY <1>2, <1>5
  <2> QED BY <1>1, <1>2, <1>5, <2>1, OutputsStay
<1>11. Good(z, q, Tail(E))
  BY <1>1, <1>2, <1>5, <1>9, <1>10, GoodGrows
<1>12. Calm(z.sent) /\ z.sent \in Seq(Requests)
  BY <1>1, <1>2, <1>5, <1>11, CalmGrows DEF Good
<1>13. OutputComes(x, q, E) => OutputComes(z, q \o z.sent, Tail(E))
  <2>1. E # <<>> /\ Core(x.objects, q, E) /\ Keeps(x.objects, z.objects, Head(E))
    BY <1>2, <1>5 DEF Before, World, Keeps, Extends
  <2>2. "output" \in z.globals => "output" \in x.globals
    BY <1>2, <1>5
  <2>3. /\ x.outputs # <<>> => z.outputs # <<>>
        /\ Head(E).what # "output_done" /\ Head(E).what # "mode"
        /\ \A o \in DOMAIN x.objects :
                x.objects[o] = "output" /\ x.drafts[o].width # 0 => z.drafts[o].width # 0
    BY <1>2, <1>5
  <2> QED BY <1>12, <2>1, <2>2, <2>3, OutputStays
<1>14. Stage(z, q \o z.sent, Tail(E), n - 1)
  <2>1. \A id \in DOMAIN z.objects :
                id \in DOMAIN x.objects \/ z.objects[id] \notin {"params", "screenshooter"}
    BY <1>2, <1>5
  <2>2. /\ Extends(x.objects, z.objects) /\ x.globals \subseteq z.globals /\ z.run = x.run
        /\ z.listener = x.listener /\ z.disk = x.disk
    BY <1>2, <1>5
  <2>3. /\ x.store.shm # 0 => z.store.shm # 0
        /\ x.store.compositor # 0 => z.store.compositor # 0
        /\ x.store.shell # 0 => z.store.shell # 0
    BY <1>3, <1>8
  <2> QED BY <1>8, <1>12, <1>13, <2>1, <2>2, <2>3, GlobalStage
<1> QED BY <1>4, <1>5, <1>11, <1>14 DEF After, Goes


LEMMA OutputAnnounced ==
    ASSUME NEW x, NEW q, NEW E, NEW n, Before(x, q, E, n), Head(E).what = "global",
           Head(E).of.interface = "output"
    PROVE  After(RegistryGlobal(x, Head(E)), q, E, n)
<1> DEFINE e == Head(E)
           new == Free(x)
           r == Request("bind", e.to, new, e.of.name)
           b == BoundTo(x, e)
           draft == [id |-> new, x |-> 0, width |-> 0]
           z == [b EXCEPT !.drafts = With(@, new, draft)]
<1>1. /\ Good(x, q, Tail(E)) /\ Calm(x.sent) /\ q \in Seq(Requests) /\ x.fault = Nothing
      /\ Shape(x) /\ StoreOK(x) /\ OutputsOK(x) /\ x.sent \in Seq(Requests) /\ Core(x.objects, q, E)
  BY Handles DEF Good, World
<1>2. /\ Shape(b) /\ b.fault = x.fault /\ b.sent = Append(x.sent, r)
      /\ b.globals = x.globals \union {"output"}
      /\ b.outputs = x.outputs /\ b.drafts = x.drafts /\ b.listener = x.listener
      /\ b.disk = x.disk /\ b.store = x.store /\ b.run = x.run
      /\ DOMAIN b.objects = DOMAIN x.objects \union {new}
      /\ b.objects[new] = "output"
      /\ Extends(x.objects, b.objects)
      /\ r \in Requests /\ r.what = "bind" /\ r.id = new
      /\ MaySend(x.objects, b.objects, r)
  <2>1. Head(E).of.interface \notin {"screenshooter", "other"}
    OBVIOUS
  <2>2. /\ Shape(b) /\ b.fault = x.fault /\ b.sent = Append(x.sent, r)
        /\ b.globals = x.globals \union {e.of.interface}
        /\ b.outputs = x.outputs /\ b.drafts = x.drafts /\ b.listener = x.listener
        /\ b.disk = x.disk /\ b.store = x.store /\ b.run = x.run
        /\ DOMAIN b.objects = DOMAIN x.objects \union {new}
        /\ b.objects[new] = e.of.interface
        /\ Extends(x.objects, b.objects)
        /\ r \in Requests /\ r.what = "bind" /\ r.id = new
        /\ MaySend(x.objects, b.objects, r)
    BY <2>1, GlobalBound
  <2> HIDE DEF b, r, new
  <2> QED BY <2>2
<1>3. new \in Nat \ {0} /\ new \notin DOMAIN x.objects /\ Free(Noticed(x, e)) = new
  BY GlobalFacts
<1>4. RegistryGlobal(x, e) = z
  BY <1>3 DEF RegistryGlobal, BoundTo, Noticed
<1>5. draft \in Outputs /\ draft.id = new
  BY <1>3 DEF Outputs
<1> HIDE DEF b, r, new, draft
<1>6. /\ Shape(z) /\ z.objects = b.objects /\ z.sent = b.sent /\ z.fault = b.fault /\ z.globals = b.globals
      /\ z.outputs = b.outputs /\ z.drafts = With(b.drafts, new, draft) /\ z.listener = b.listener
      /\ z.disk = b.disk /\ z.run = b.run /\ z.store = b.store
  BY <1>2 DEF Shape, Fields
<1> HIDE DEF z
<1>7. /\ DOMAIN z.drafts = DOMAIN x.drafts \union {new} /\ z.drafts[new] = draft
      /\ \A o \in DOMAIN x.drafts : o # new => z.drafts[o] = x.drafts[o]
  BY <1>2, <1>6 DEF With
<1>8. StoreOK(z)
  <2>1. StoreOK(x) /\ z.store = x.store /\ Extends(x.objects, z.objects) /\ z.globals = x.globals \union {"output"}
    BY <1>1, <1>2, <1>6
  <2>2. "output" \notin Known
    BY DEF Known
  <2>3. \A f \in Known : z.store[f] # 0 => Is(z.objects, z.store[f], f)
    BY <2>1 DEF StoreOK, Is, Extends
  <2> QED BY <2>1, <2>2, <2>3 DEF StoreOK
<1>9. OutputsOK(z)
  <2>1. ASSUME NEW id \in DOMAIN z.objects, z.objects[id] = "output"
        PROVE  id \in DOMAIN z.drafts /\ z.drafts[id] \in Outputs /\ z.drafts[id].id = id
    <3>1. CASE id = new
      BY <1>5, <1>7, <3>1
    <3>2. CASE id # new
      <4>1. id \in DOMAIN x.objects /\ x.objects[id] = "output"
        BY <1>2, <1>6, <2>1, <3>2 DEF Extends
      <4>2. id \in DOMAIN x.drafts /\ x.drafts[id] \in Outputs /\ x.drafts[id].id = id
        BY <1>1, <4>1 DEF OutputsOK
      <4> QED BY <1>7, <3>2, <4>2
    <3> QED BY <3>1, <3>2
  <2>2. z.outputs = x.outputs /\ z.listener = x.listener /\ Extends(x.objects, z.objects)
    BY <1>2, <1>6
  <2> QED BY <1>1, <2>1, <2>2 DEF OutputsOK, Is, Extends
<1>10. Good(z, q, Tail(E))
  BY <1>1, <1>2, <1>6, <1>8, <1>9, GoodGrows
<1>11. Calm(z.sent) /\ z.sent \in Seq(Requests)
  BY <1>1, <1>2, <1>6, <1>10, CalmGrows DEF Good
(* It will be bound before anything else is asked.                         *)
<1>12. BindsInTime(z, q \o z.sent, Tail(E), new)
  <2>1. /\ \A k \in 1..Len(Tail(E)) : k + 1 \in 1..Len(E) /\ k + 1 # 1 /\ Tail(E)[k] = E[k + 1]
        /\ Head(E) = E[1] /\ 1 \in 1..Len(E)
    BY Tailing DEF Before, World, Core
  <2>2. /\ \A i \in 1..Len(q) : ~AsksInit(x, q[i])
        /\ \A k \in 1..Len(E) : ~AnswersInit(x, E[k])
    <3>1. GlobalsInTime(x, q, E)
      BY DEF Before, Stage
    <3>2. Announces(q, E)
      BY <2>1 DEF Announces
    <3> QED BY <3>1, <3>2 DEF GlobalsInTime
  <2>3. Keeps(x.objects, z.objects, Head(E)) /\ E # <<>>
    BY <1>2, <1>6 DEF Keeps, Extends, Before
  <2>4. /\ \A i \in 1..Len(q) : ~AsksInit(z, q[i])
        /\ \A k \in 1..Len(E) : k # 1 => ~AnswersInit(z, E[k])
    BY <1>1, <2>2, <2>3, InitMeans
  <2>5. \A k \in 1..Len(Tail(E)) : ~AnswersInit(z, Tail(E)[k])
    BY <2>1, <2>4
  <2> DEFINE p == q \o z.sent
             w == Len(q) + 1
  <2>6. w \in 1..Len(p) /\ p[w] = r /\ \A j \in 1..(w - 1) : j \in 1..Len(q) /\ p[j] = q[j]
    <3>1. p = Append(q \o x.sent, r) /\ q \o x.sent = q
      BY <1>1, <1>2, <1>6, AppendsLast DEF Before
    <3> HIDE DEF p
    <3> QED BY <1>1, <1>2, <3>1, Appending
  <2>7. \A j \in 1..(w - 1) : ~AsksInit(z, p[j])
    BY <2>4, <2>6
  <2> HIDE DEF p, w
  <2>8. BindsInTime(z, p, Tail(E), new)
    BY <1>2, <2>5, <2>6, <2>7 DEF BindsInTime
  <2> QED BY <2>8 DEF p
<1>13. OutputComes(z, q \o z.sent, Tail(E))
  BY <1>2, <1>6, <1>12 DEF OutputComes
<1>14. Stage(z, q \o z.sent, Tail(E), n - 1)
  <2>1. \A id \in DOMAIN z.objects :
                id \in DOMAIN x.objects \/ z.objects[id] \notin {"params", "screenshooter"}
    BY <1>2, <1>6
  <2>2. /\ Extends(x.objects, z.objects) /\ x.globals \subseteq z.globals /\ z.run = x.run
        /\ z.listener = x.listener /\ z.disk = x.disk /\ z.store = x.store
    BY <1>2, <1>6
  <2> QED BY <1>11, <1>13, <2>1, <2>2, GlobalStage
<1> QED BY <1>4, <1>6, <1>10, <1>14 DEF After, Goes

LEMMA OthersNoticed ==
    ASSUME NEW x, NEW q, NEW E, NEW n, Before(x, q, E, n), Head(E).what = "global",
           Head(E).of.interface \in {"screenshooter", "other"}
    PROVE  After(RegistryGlobal(x, Head(E)), q, E, n)
<1> DEFINE e == Head(E)
           y == Noticed(x, e)
           z == RegistryGlobal(x, e)
<1>1. /\ Good(x, q, Tail(E)) /\ Calm(x.sent) /\ q \in Seq(Requests)
      /\ Shape(x) /\ StoreOK(x) /\ OutputsOK(x) /\ x.sent \in Seq(Requests) /\ Core(x.objects, q, E)
  BY Handles DEF Good, World
<1>2. /\ e.of.name \in DOMAIN Globals /\ e.of.name \in Nat \ {0}
      /\ e.of.interface = Globals[e.of.name]
      /\ Shape(y) /\ y.globals = x.globals \union {e.of.interface}
      /\ y.outputs = x.outputs /\ y.drafts = x.drafts /\ y.objects = x.objects
      /\ y.sent = x.sent /\ y.fault = x.fault /\ y.listener = x.listener
      /\ y.disk = x.disk /\ y.store = x.store /\ y.run = x.run
  BY GlobalFacts
<1> DEFINE i == e.of.interface
<1>3. z = IF i = "screenshooter" THEN [y EXCEPT !.store.name = e.of.name] ELSE y
  BY DEF RegistryGlobal, Noticed
<1> HIDE DEF y, z, i
<1>4. /\ Shape(z) /\ z.globals = x.globals \union {i}
      /\ z.outputs = x.outputs /\ z.drafts = x.drafts /\ z.objects = x.objects
      /\ z.sent = x.sent /\ z.fault = x.fault /\ z.listener = x.listener
      /\ z.disk = x.disk /\ z.run = x.run
      /\ z.store = IF i = "screenshooter" THEN [x.store EXCEPT !.name = e.of.name] ELSE x.store
  <2>1. CASE i = "screenshooter"
    <3>1. z = [y EXCEPT !.store.name = e.of.name]
      BY <1>3, <2>1
    <3> QED BY <1>2, <2>1, <3>1 DEF Shape, Fields, i
  <2>2. CASE i # "screenshooter"
    BY <1>2, <1>3, <2>2 DEF i
  <2> QED BY <2>1, <2>2
<1>5. /\ \A f \in Known \union {"device", "screenshot"} : z.store[f] = x.store[f]
      /\ z.store.name = IF i = "screenshooter" THEN e.of.name ELSE x.store.name
  BY <1>1, <1>4 DEF Shape, Known
<1>6. /\ z.store.screenshot = x.store.screenshot /\ z.store.screenshooter = x.store.screenshooter
      /\ z.store.registry = x.store.registry /\ z.store.shm = x.store.shm
      /\ z.store.compositor = x.store.compositor /\ z.store.shell = x.store.shell
  BY <1>5 DEF Known
<1>7. StoreOK(z)
  <2>1. \A f \in Known : z.store[f] # 0 => Is(z.objects, z.store[f], f)
    BY <1>1, <1>4, <1>5 DEF StoreOK
  <2>2. \A f \in Known \ {"registry", "screenshooter"} : f \in z.globals => z.store[f] # 0
    <3>1. i \notin Known \ {"registry", "screenshooter"}
      BY DEF i, Known
    <3> QED BY <1>1, <1>4, <1>5, <3>1 DEF StoreOK
  <2>3. CASE i = "screenshooter"
    <3>1. z.store.name \in DOMAIN Globals /\ Globals[z.store.name] = "screenshooter" /\ z.store.name # 0
          /\ z.store.name \in Int
      BY <1>2, <1>5, <2>3 DEF i
    <3> QED BY <1>1, <1>6, <2>1, <2>2, <3>1 DEF StoreOK
  <2>4. CASE i # "screenshooter"
    BY <1>1, <1>4, <1>5, <1>6, <2>1, <2>2, <2>4 DEF StoreOK
  <2> QED BY <2>3, <2>4
<1>8. OutputsOK(z)
  BY <1>1, <1>4 DEF OutputsOK
<1>9. Good(z, q, Tail(E))
  BY <1>1, <1>4, <1>7, <1>8 DEF Good, World
<1>10. OutputComes(x, q, E) => OutputComes(z, q \o z.sent, Tail(E))
  <2>1. E # <<>> /\ Keeps(x.objects, z.objects, Head(E))
    BY <1>4 DEF Before, Keeps
  <2>2. "output" \in z.globals => "output" \in x.globals
    BY <1>4 DEF i
  <2>3. /\ x.outputs # <<>> => z.outputs # <<>>
        /\ Head(E).what # "output_done" /\ Head(E).what # "mode"
        /\ \A o \in DOMAIN x.objects :
                x.objects[o] = "output" /\ x.drafts[o].width # 0 => z.drafts[o].width # 0
    BY <1>4
  <2>4. z.sent \in Seq(Requests)
    BY <1>1, <1>4
  <2> QED BY <1>1, <2>1, <2>2, <2>3, <2>4, OutputStays
<1>11. Stage(z, q \o z.sent, Tail(E), n - 1)
  <2>1. /\ \A id \in DOMAIN z.objects :
                id \in DOMAIN x.objects \/ z.objects[id] \notin {"params", "screenshooter"}
        /\ Extends(x.objects, z.objects) /\ x.globals \subseteq z.globals /\ z.run = x.run
        /\ z.listener = x.listener /\ z.disk = x.disk /\ z.sent = x.sent
    BY <1>4 DEF Extends
  <2> QED BY <1>1, <1>6, <1>10, <2>1, GlobalStage
<1> QED BY <1>4, <1>9, <1>11 DEF After, Goes, z

LEMMA GlobalHandled ==
    ASSUME NEW x, NEW q, NEW E, NEW n, Before(x, q, E, n), Head(E).what = "global"
    PROVE  After(RegistryGlobal(x, Head(E)), q, E, n)
<1>1. Head(E).of.interface \in Interfaces
  BY GlobalFacts
<1> QED BY <1>1, OutputAnnounced, OthersNoticed, ShellLike DEF Interfaces


(* Windows                                                                 *)
LEMMA FailFields ==
    ASSUME NEW x, Shape(x), x.fault = Nothing, NEW why
    PROVE  Shape(Fails(x, why)) /\ Fails(x, why).fault = why
BY DEF Shape, Fields, Fails

LEMMA Surfaced ==
    ASSUME NEW x, NEW q, NEW E, NEW n, Before(x, q, E, n), Head(E).what \notin {"output_done", "mode"},
           NEW y, Good(y, q, Tail(E)), Rest(x, y), Calm(y.sent),
           MakesOnly(x, y, {"drm_buffer", "dmabuf_buffer", "surface", "shell_surface"})
    PROVE  After(y, q, E, n)
<1>1. Keeps(x.objects, y.objects, Head(E))
  BY DEF MakesOnly, Keeps, Extends
<1>2. Alike(x, y) /\ OutputsGrow(x, y, Head(E))
  BY DEF Alike, OutputsGrow, Rest
<1>3. \A id \in DOMAIN y.objects :
            \/ id \in DOMAIN x.objects /\ y.objects[id] = x.objects[id]
            \/ y.objects[id] \notin {"params", "screenshooter"}
  BY DEF MakesOnly, Extends
<1>4. y.sent \in Seq(Requests) /\ Shape(y)
  BY DEF Good
<1>5. Stage(y, q \o y.sent, Tail(E), n - 1)
  BY <1>1, <1>2, <1>3, <1>4, StageAlike
<1> QED BY <1>4, <1>5 DEF After, Goes

LEMMA EglSurface ==
    ASSUME NEW x, NEW q, NEW E, NEW n, Before(x, q, E, n), Head(E).what = "authenticated"
    PROVE  After(CreateEglSurface(x), q, E, n)
<1>1. Good(x, q, Tail(E)) /\ Calm(x.sent) /\ q \in Seq(Requests)
  BY Handles
<1>2. CASE EnsureDrm(x)
  <2> DEFINE buffer == Free(x)
             y == CreateEglBuffer(x)
             z == CreateShellSurface(y, buffer)
  <2>1. /\ x.store.compositor # 0 /\ x.store.shell # 0 /\ x.store.drm # 0
    BY <1>2 DEF EnsureDrm
  <2>2. Is(x.objects, x.store.drm, "drm")
    BY <1>1, <2>1 DEF Good, World, StoreOK, Known
  <2>3. /\ Good(y, q, Tail(E)) /\ Rest(x, y) /\ Extends(x.objects, y.objects) /\ buffer \in Nat \ {0}
        /\ DOMAIN y.objects = DOMAIN x.objects \union {buffer} /\ y.objects[buffer] = "drm_buffer"
        /\ Calm(y.sent)
    <3>1. "create_image" \in Makers \ {"get_registry", "bind"} /\ Product("create_image") = "drm_buffer"
          /\ Target("create_image") = "drm"
      BY DEF Makers, Product, Target
    <3> QED BY <1>1, <2>2, <3>1, GoodCreates DEF CreateEglBuffer
  <2> HIDE DEF y, buffer
  <2>4. y.store.compositor # 0 /\ y.store.shell # 0 /\ buffer \in Int
    BY <2>1, <2>3 DEF Rest
  <2>5. /\ Good(z, q, Tail(E)) /\ Rest(y, z) /\ Calm(z.sent)
        /\ MakesOnly(y, z, {"surface", "shell_surface"})
    BY <1>1, <2>3, <2>4, ShellSurfaceMade
  <2>6. CreateEglSurface(x) = z
    BY <1>2 DEF CreateEglSurface, y, buffer
  <2> HIDE DEF z
  <2>7. Rest(x, z)
    BY <2>3, <2>5, RestOn
  <2>8. MakesOnly(x, z, {"drm_buffer", "dmabuf_buffer", "surface", "shell_surface"})
    BY <2>3, <2>5 DEF MakesOnly, Extends
  <2> QED BY <2>5, <2>6, <2>7, <2>8, Surfaced
<1>3. CASE ~EnsureDrm(x)
  BY <1>3, StopHandled DEF CreateEglSurface
<1> QED BY <1>2, <1>3

LEMMA AuthenticatedHandled ==
    ASSUME NEW x, NEW q, NEW E, NEW n, Before(x, q, E, n), Head(E).what = "authenticated"
    PROVE  /\ After(GraphicsDone(x), q, E, n)
           /\ After(GraphicsFailed(x), q, E, n)
<1>1. After(GraphicsFailed(x), q, E, n) /\ After(x, q, E, n)
  BY StopHandled DEF GraphicsFailed
<1>2. x.listener.fd = TRUE
  <2>1. Head(E) = E[1] /\ 1 \in 1..Len(E)
    BY Tailing DEF Before, World, Core
  <2> QED BY <2>1 DEF Before, Stage, DeviceOK
<1>3. CASE "window" \in works
  <2>1. CreateEglWindow(x) = x /\ x.fault = Nothing
    BY <1>2, <1>3 DEF CreateEglWindow, Before
  <2>2. GraphicsDone(x) = IF app = "egl" THEN CreateEglSurface(x) ELSE x
    BY <2>1 DEF GraphicsDone, Then
  <2> QED BY <1>1, <2>2, EglSurface
<1>4. CASE "window" \notin works
  <2> DEFINE y == Fails(x, "window")
  <2>1. Shape(y) /\ y.fault = "window"
    BY FailFields DEF Before, World
  <2>2. CreateEglWindow(x) = y
    BY <1>4 DEF CreateEglWindow
  <2> HIDE DEF y
  <2>3. GraphicsDone(x) = IF app = "egl" THEN y ELSE x
    BY <2>1, <2>2 DEF GraphicsDone, Then, Nothing
  <2>4. app = "egl" => After(y, q, E, n)
    BY <1>4, <2>1 DEF After, Caused
  <2> QED BY <1>1, <2>3, <2>4
<1> QED BY <1>1, <1>3, <1>4

LEMMA CreatedHandled ==
    ASSUME NEW x, NEW q, NEW E, NEW n, Before(x, q, E, n), Head(E).what = "created"
    PROVE  After(ParamsCreated(x, Head(E)), q, E, n)
<1> DEFINE e == Head(E)
           y == AddObject(x, ServerId, "dmabuf_buffer")
           z == CreateShellSurface(y, ServerId)
<1>1. /\ Good(x, q, Tail(E)) /\ Calm(x.sent) /\ q \in Seq(Requests) /\ EventOK(x.objects, e)
      /\ Shape(x) /\ StoreOK(x) /\ OutputsOK(x) /\ ObjectsOK(x.objects)
  BY Handles DEF Good, World
<1>2. e.of = ServerId /\ e.to \in DOMAIN x.objects /\ x.objects[e.to] = "params"
  BY <1>1 DEF EventOK, Recipient
<1>3. x.store.compositor # 0 /\ x.store.shell # 0
  BY <1>2 DEF Before, Stage, ParamsOK
<1>4. /\ Shape(y) /\ Rest(x, y) /\ y.sent = x.sent /\ y.objects = With(x.objects, ServerId, "dmabuf_buffer")
  BY <1>1 DEF AddObject, Shape, Fields, Rest
<1>5. ParamsCreated(x, e) = z
  BY <1>2 DEF ParamsCreated
<1> HIDE DEF y
<1>6. /\ DOMAIN y.objects = DOMAIN x.objects \union {ServerId} /\ y.objects[ServerId] = "dmabuf_buffer"
      /\ \A id \in DOMAIN x.objects : y.objects[id] = x.objects[id]
  BY <1>1, <1>4 DEF With, ObjectsOK
<1>7. Core(y.objects, q \o x.sent, Tail(E)) /\ Extends(x.objects, y.objects)
  BY <1>1, <1>6, CoreImports DEF Good, World
<1>8. StoreOK(y)
  BY <1>1, <1>4, <1>7, StoreStays DEF Rest
<1>9. OutputsOK(y)
  <2>1. \A id \in DOMAIN y.objects : y.objects[id] = "output" => id \in DOMAIN x.objects
    BY <1>6
  <2> QED BY <1>1, <1>4, <1>7, <2>1, OutputsStay DEF Rest
<1>10. Good(y, q, Tail(E)) /\ Calm(y.sent)
  BY <1>1, <1>4, <1>7, <1>8, <1>9 DEF Good, World, Rest
<1>11. y.store.compositor # 0 /\ y.store.shell # 0 /\ ServerId \in Int
  BY <1>3, <1>4 DEF Rest, ServerId
<1>12. /\ Good(z, q, Tail(E)) /\ Rest(y, z) /\ Calm(z.sent)
       /\ MakesOnly(y, z, {"surface", "shell_surface"})
  BY <1>1, <1>10, <1>11, ShellSurfaceMade
<1> HIDE DEF z
<1>13. Rest(x, z)
  BY <1>4, <1>12, RestOn
<1>14. MakesOnly(x, z, {"drm_buffer", "dmabuf_buffer", "surface", "shell_surface"})
  BY <1>6, <1>7, <1>12 DEF MakesOnly, Extends
<1> QED BY <1>5, <1>12, <1>13, <1>14, Surfaced


-----------------------------------------------------------------------------
(* The two callbacks.                                                      *)
LEMMA OneDone ==
    ASSUME NEW x, NEW q, NEW E, NEW n, Before(x, q, E, n), Head(E).what = "done"
    PROVE  /\ \A i \in 1..Len(q) : q[i].what # "sync"
           /\ \A k \in 1..Len(Tail(E)) : Tail(E)[k].what # "done"
           /\ ~Announces(q, Tail(E))
           /\ Asked(q, E) /\ ~Asked(q, Tail(E))
<1>1. /\ E \in Seq(Events) /\ E # <<>> /\ Stage(x, q, E, n)
  BY DEF Before, World, Core
<1>2. /\ Head(E) = E[1] /\ 1 \in 1..Len(E) /\ Len(E) \in Nat \ {0}
      /\ \A k \in 1..Len(Tail(E)) : k + 1 \in 1..Len(E) /\ k + 1 # 1 /\ Tail(E)[k] = E[k + 1]
  BY <1>1, Tailing
<1>3. AskedOnce(q, E) /\ GlobalsInTime(x, q, E)
  BY <1>1 DEF Stage
<1>4. \A i \in 1..Len(q) : q[i].what # "sync"
  BY <1>2, <1>3 DEF AskedOnce
<1>5. \A k \in 1..Len(Tail(E)) : Tail(E)[k].what # "done"
  BY <1>2, <1>3 DEF AskedOnce
<1>6. /\ \A i \in 1..Len(q) : q[i].what # "get_registry"
      /\ \A m \in 1..Len(E) : E[m].what = "global" => m < 1
  BY <1>2, <1>3 DEF GlobalsInTime
<1>7. \A k \in 1..Len(Tail(E)) : Tail(E)[k].what # "global"
  <2> TAKE k \in 1..Len(Tail(E))
  <2>1. ~(k + 1 < 1)
    OBVIOUS
  <2> QED BY <1>2, <1>6, <2>1
<1>8. ~Announces(q, Tail(E))
  BY <1>6, <1>7 DEF Announces
<1> QED BY <1>2, <1>4, <1>5, <1>8 DEF Asked

LEMMA GlobalsAreDone ==
    ASSUME NEW x, Shape(x)
    PROVE  LET y == GlobalsDone(x)
           IN  /\ Shape(y) /\ y.objects = x.objects /\ y.drafts = x.drafts /\ y.store = x.store
               /\ y.globals = x.globals /\ y.outputs = x.outputs /\ y.listener = x.listener
               /\ y.disk = x.disk /\ y.fault = x.fault /\ y.sent = x.sent
               /\ Required(app) \subseteq x.globals \/ ~y.run
<1>1. CASE Required(app) \subseteq x.globals
  BY <1>1 DEF GlobalsDone
<1>2. CASE ~(Required(app) \subseteq x.globals)
  <2>1. GlobalsDone(x) = Stop(x)
    BY <1>2 DEF GlobalsDone
  <2> QED BY <2>1 DEF Stop, Shape, Fields
<1> QED BY <1>1, <1>2

LEMMA GlobalsDoneHandled ==
    ASSUME NEW x, NEW q, NEW E, NEW n, Before(x, q, E, n), Head(E).what = "done"
    PROVE  After(CallbackOfGlobals(GlobalsDone(x), Head(E)), q, E, n)
<1> DEFINE T == Tail(E)
           new == Free(x)
           g == GlobalsDone(x)
           a == AddObject(g, new, "init_done")
           r == Request("sync", DisplayId, new, 0)
           y == Send(a, r)
           p == q \o y.sent
<1>1. /\ Good(x, q, T) /\ Calm(x.sent) /\ q \in Seq(Requests) /\ x.fault = Nothing
      /\ Shape(x) /\ StoreOK(x) /\ OutputsOK(x) /\ x.sent \in Seq(Requests) /\ Core(x.objects, q, E)
      /\ ObjectsOK(x.objects)
  BY Handles DEF Good, World
<1>2. new \in Nat \ {0} /\ new \in Int /\ new \notin DOMAIN x.objects
  BY <1>1, FreeIsFree DEF ObjectsOK
<1>3. /\ Shape(g) /\ g.objects = x.objects /\ g.drafts = x.drafts /\ g.store = x.store
      /\ g.globals = x.globals /\ g.outputs = x.outputs /\ g.listener = x.listener
      /\ g.disk = x.disk /\ g.fault = x.fault /\ g.sent = x.sent
      /\ Required(app) \subseteq x.globals \/ ~g.run
  BY <1>1, GlobalsAreDone
<1> HIDE DEF g
<1>4. CallbackOfGlobals(g, Head(E)) = y
  <2>1. Free(g) = new
    BY <1>3 DEF Free
  <2> QED BY <2>1 DEF CallbackOfGlobals, Synchronize
<1> HIDE DEF new
<1>5. /\ Shape(a) /\ Rest(g, a) /\ a.objects = With(x.objects, new, "init_done") /\ a.sent = x.sent
  BY <1>3 DEF AddObject, Shape, Fields, Rest
<1> HIDE DEF a
<1>6. Shape(y) /\ Rest(a, y) /\ y.objects = a.objects /\ y.sent = Append(x.sent, r)
  BY <1>5, SendFields
<1> HIDE DEF y
<1>7. /\ DOMAIN y.objects = DOMAIN x.objects \union {new} /\ y.objects[new] = "init_done"
      /\ Extends(x.objects, y.objects)
  BY <1>2, <1>5, <1>6 DEF With, Extends
<1>8. r \in Requests /\ r.what = "sync" /\ r.id = new /\ r.to = DisplayId
  <2>1. DisplayId \in Int
    BY DEF DisplayId
  <2> QED BY <1>2, <2>1, IsRequest
<1> HIDE DEF r
<1>9. /\ y.drafts = x.drafts /\ y.store = x.store /\ y.globals = x.globals /\ y.outputs = x.outputs
      /\ y.listener = x.listener /\ y.disk = x.disk /\ y.fault = x.fault /\ y.run = g.run
  BY <1>3, <1>5, <1>6 DEF Rest
<1>10. MaySend(x.objects, y.objects, r)
  <2>1. "sync" \notin Others /\ "sync" \notin Makers /\ Target("sync") = "display" /\ new # ServerId
        /\ "init_done" \in Callbacks
    BY <1>2 DEF Others, Makers, Target, ServerId, Callbacks
  <2>2. Is(x.objects, DisplayId, "display")
    BY <1>1 DEF ObjectsOK
  <2> QED BY <1>2, <1>7, <1>8, <2>1, <2>2 DEF MaySend
<1>11. StoreOK(y) /\ OutputsOK(y)
  <2>1. \A id \in DOMAIN y.objects : y.objects[id] = "output" => id \in DOMAIN x.objects
    BY <1>7
  <2>2. StoreOK(y)
    BY <1>1, <1>7, <1>9, StoreStays
  <2>3. OutputsOK(y)
    BY <1>1, <1>7, <1>9, <2>1, OutputsStay
  <2> QED BY <2>2, <2>3
<1>12. Good(y, q, T)
  BY <1>1, <1>6, <1>7, <1>9, <1>10, <1>11, GoodGrows
<1>13. /\ p = Append(q, r) /\ y.sent \in Seq(Requests)
       /\ \A i \in 1..Len(p) : (i \in 1..Len(q) /\ p[i] = q[i]) \/ (i = Len(q) + 1 /\ p[i] = r)
       /\ \A i \in 1..Len(q) : i \in 1..Len(p)
  <2>1. q \o x.sent = q
    BY <1>1 DEF Before
  <2>2. p = Append(q, r) /\ y.sent \in Seq(Requests)
    BY <1>1, <1>6, <1>8, <2>1, AppendsLast
  <2>3. /\ Len(Append(q, r)) = Len(q) + 1 /\ Len(q) \in Nat /\ Append(q, r)[Len(q) + 1] = r
        /\ \A i \in 1..Len(q) : Append(q, r)[i] = q[i]
        /\ \A i \in 1..Len(Append(q, r)) : i \in 1..Len(q) \/ i = Len(q) + 1
    BY <1>1, <1>8, Appending
  <2> HIDE DEF p
  <2> QED BY <2>2, <2>3
<1> HIDE DEF p
<1>14. /\ \A i \in 1..Len(q) : q[i].what # "sync"
       /\ \A k \in 1..Len(T) : T[k].what # "done"
       /\ ~Announces(q, T) /\ Asked(q, E)
  BY OneDone
<1>15. Stage(x, q, E, n) /\ E # <<>> /\ Early(x) /\ OutputComes(x, q, E)
  BY <1>14 DEF Before, Stage
<1> HIDE DEF T
<1>16. AskedOnce(p, T)
  <2>1. \A i \in 1..Len(p) : p[i].what = "sync" => i = Len(q) + 1
    BY <1>13, <1>14
  <2>2. \A i, j \in 1..Len(p) : p[i].what = "sync" /\ p[j].what = "sync" => i = j
    BY <2>1
  <2> QED BY <1>14, <2>2 DEF AskedOnce
<1>17. GlobalsInTime(y, p, T)
  <2>1. \A i \in 1..Len(p) : p[i].what # "get_registry"
    BY <1>8, <1>13, <1>14 DEF Announces
  <2>2. ~Announces(p, T)
    BY <1>14, <2>1 DEF Announces
  <2> QED BY <1>14, <2>1, <2>2 DEF GlobalsInTime
<1>18. Early(y)
  BY <1>7, <1>9, <1>15 DEF Early, Extends
<1>19. InitKnown(y, p, T, n - 1)
  <2>1. \A k \in 1..Len(T) : ~AnswersInit(y, T[k])
    BY <1>14 DEF AnswersInit
  <2>2. \A k \in 1..(n - 1) : k \in 1..Len(T)
    <3>1. E \in Seq(Events) /\ E # <<>> /\ n \in 1..Len(E)
      BY DEF Before, World, Core
    <3>2. Len(T) = Len(E) - 1 /\ Len(E) \in Nat
      BY <3>1, Tailing DEF T
    <3> QED BY <3>1, <3>2
  <2> QED BY <1>3, <1>9, <2>1, <2>2 DEF InitKnown
<1>20. OutputComes(y, p, T)
  <2>1. Keeps(x.objects, y.objects, Head(E))
    BY <1>7 DEF Keeps, Extends
  <2>2. Head(E).what # "output_done" /\ Head(E).what # "mode"
    OBVIOUS
  <2> QED BY <1>1, <1>9, <1>13, <1>15, <2>1, <2>2, OutputStays DEF p, T
<1>21. Taking(y) /\ FilesOK(y)
  <2>1. Taking(x) /\ FilesOK(x)
    BY <1>15 DEF Stage
  <2> QED BY <1>9, <2>1 DEF Taking, FilesOK
<1>22. ParamsOK(y)
  BY <1>18 DEF ParamsOK, Early
<1>23. DeviceOK(y, p, T)
  <2>1. DeviceOK(x, q, E)
    BY <1>15 DEF Stage
  <2>2. CASE x.listener.fd = TRUE
    BY <1>9, <2>2 DEF DeviceOK
  <2>3. CASE /\ \A i \in 1..Len(q) : q[i].what # "authenticate"
             /\ \A k \in 1..Len(E) : E[k].what # "authenticated"
    <3>1. \A i \in 1..Len(p) : p[i].what # "authenticate"
      BY <1>8, <1>13, <2>3
    <3>2. \A k \in 1..Len(T) : k + 1 \in 1..Len(E) /\ T[k] = E[k + 1]
      BY <1>1, <1>15, Tailing DEF Core, T
    <3> QED BY <2>3, <3>1, <3>2 DEF DeviceOK
  <2> QED BY <2>1, <2>2, <2>3 DEF DeviceOK
<1>24. Stage(y, p, T, n - 1)
  BY <1>16, <1>17, <1>18, <1>19, <1>20, <1>21, <1>22, <1>23 DEF Stage
<1> QED BY <1>4, <1>6, <1>12, <1>24 DEF After, Goes, p, T, g


(* A screenshot of an output is asked for, into a file of its own.         *)
LEMMA ShootIs ==
    ASSUME NEW to \in Int, NEW output \in Int, NEW buffer \in Int
    PROVE  LET of == [output |-> output, buffer |-> buffer]
               r == Request("shoot", to, 0, of)
           IN  /\ r \in Requests /\ r.what = "shoot" /\ r.to = to /\ r.id = 0 /\ r.of = of
               /\ of \in [output : Int, buffer : Int]
               /\ of.output = output /\ of.buffer = buffer
<1> DEFINE of == [output |-> output, buffer |-> buffer]
<1>1. of \in [output : Int, buffer : Int] /\ of.output = output /\ of.buffer = buffer
  OBVIOUS
<1>2. "shoot" \in Makers \union Others \union {"sync"}
  BY DEF Others
<1> HIDE DEF of
<1>3. 0 \in Int /\ of \in Int \union [output : Int, buffer : Int]
  BY <1>1
<1>4. Request("shoot", to, 0, of) = [what |-> "shoot", to |-> to, id |-> 0, of |-> of]
  BY DEF Request
<1>5. Request("shoot", to, 0, of) \in Requests
  BY <1>2, <1>3, <1>4 DEF Requests
<1> QED BY <1>1, <1>4, <1>5 DEF of

LEMMA FileMade ==
    ASSUME NEW q, NEW E, NEW x, Good(x, q, E), NEW seed, seed \notin x.disk
    PROVE  LET y == CreateAnonymousFile(x, seed)
           IN  /\ Good(y, q, E) /\ y.objects = x.objects /\ y.drafts = x.drafts /\ y.store = x.store
               /\ y.globals = x.globals /\ y.outputs = x.outputs /\ y.listener = x.listener
               /\ y.run = x.run /\ y.fault = x.fault /\ y.sent = x.sent
               /\ y.disk = x.disk \union {seed}
<1> DEFINE y == CreateAnonymousFile(x, seed)
<1>1. y = [x EXCEPT !.disk = @ \union {seed}]
  BY DEF CreateAnonymousFile
<1>2. /\ Shape(y) /\ y.objects = x.objects /\ y.drafts = x.drafts /\ y.store = x.store
      /\ y.globals = x.globals /\ y.outputs = x.outputs /\ y.listener = x.listener
      /\ y.run = x.run /\ y.fault = x.fault /\ y.sent = x.sent
      /\ y.disk = x.disk \union {seed}
  BY <1>1 DEF Good, Shape, Fields
<1> HIDE DEF y
<1>3. StoreOK(y) /\ OutputsOK(y)
  BY <1>2 DEF Good, World, StoreOK, OutputsOK
<1> QED BY <1>2, <1>3 DEF Good, World, y

LEMMA ScreenshotMade ==
    ASSUME NEW q \in Seq(Requests), NEW E, NEW x, Good(x, q, E), Calm(x.sent),
           x.store.shm # 0, x.store.screenshooter # 0,
           NEW output, Is(x.objects, output.id, "output"), output.id \notin x.disk
    PROVE  LET y == TakeScreenshot(x, output)
           IN  /\ Good(y, q, E) /\ Calm(y.sent) /\ MakesOnly(x, y, {"pool", "shm_buffer"})
               /\ y.drafts = x.drafts /\ y.globals = x.globals /\ y.outputs = x.outputs
               /\ y.listener = x.listener /\ y.run = x.run /\ y.disk = x.disk \union {output.id}
               /\ y.store.screenshot = output.id
               /\ \A f \in Known : y.store[f] = x.store[f]
<1> DEFINE o == output.id
           file == CreateAnonymousFile(x, o)
           pool == Free(file)
           y == Create(file, "pool", "create_pool", x.store.shm)
           buffer == Free(y)
           z == Create(y, "shm_buffer", "create_buffer", pool)
           of == [output |-> o, buffer |-> buffer]
           r == Request("shoot", x.store.screenshooter, 0, of)
           w == Send(z, r)
           v == [w EXCEPT !.store.screenshot = o]
<1>1. /\ Good(file, q, E) /\ file.objects = x.objects /\ file.drafts = x.drafts /\ file.store = x.store
      /\ file.globals = x.globals /\ file.outputs = x.outputs /\ file.listener = x.listener
      /\ file.run = x.run /\ file.fault = x.fault /\ file.sent = x.sent
      /\ file.disk = x.disk \union {o}
  BY FileMade
<1>2. x.fault = Nothing /\ file.fault = Nothing /\ Free(x) = pool
  BY <1>1 DEF Good, Free
<1> HIDE DEF file, pool
<1>3. /\ Is(x.objects, x.store.shm, "shm") /\ Is(x.objects, x.store.screenshooter, "screenshooter")
  BY DEF Good, World, StoreOK, Known
<1>4. /\ Good(y, q, E) /\ Rest(file, y) /\ Extends(file.objects, y.objects) /\ pool \in Nat \ {0}
      /\ DOMAIN y.objects = DOMAIN file.objects \union {pool} /\ y.objects[pool] = "pool"
      /\ Calm(y.sent)
  <2>1. "create_pool" \in Makers \ {"get_registry", "bind"} /\ Product("create_pool") = "pool"
        /\ Target("create_pool") = "shm"
    BY DEF Makers, Product, Made, Target
  <2> QED BY <1>1, <1>3, <2>1, GoodCreates DEF pool
<1>5. ShmPool(file) = y
  <2>1. Needs(file, {file.store.shm}) = file
    BY <1>1 DEF Needs
  <2> QED BY <1>1, <2>1 DEF ShmPool
<1> HIDE DEF y, buffer
<1>6. y.fault = Nothing
  BY <1>4 DEF Good
<1>7. Is(y.objects, pool, "pool")
  BY <1>4 DEF Is
<1>8. /\ Good(z, q, E) /\ Rest(y, z) /\ Extends(y.objects, z.objects) /\ buffer \in Nat \ {0}
      /\ DOMAIN z.objects = DOMAIN y.objects \union {buffer} /\ z.objects[buffer] = "shm_buffer"
      /\ Calm(z.sent)
  <2>1. "create_buffer" \in Makers \ {"get_registry", "bind"} /\ Product("create_buffer") = "shm_buffer"
        /\ Target("create_buffer") = "pool"
    BY DEF Makers, Product, Made, Target
  <2> QED BY <1>4, <1>7, <2>1, GoodCreates DEF buffer
<1>9. ShmBuffer(y, pool) = z
  BY DEF ShmBuffer
<1> HIDE DEF z
<1>10. z.fault = Nothing /\ z.store = x.store /\ Shape(z)
  BY <1>1, <1>4, <1>8 DEF Good, Rest
<1>11. /\ Is(z.objects, x.store.screenshooter, "screenshooter") /\ Is(z.objects, o, "output")
       /\ Is(z.objects, buffer, "shm_buffer")
  BY <1>1, <1>3, <1>4, <1>8 DEF Is, Extends
<1>12. x.store.screenshooter \in Int /\ o \in Int /\ buffer \in Int
  <2>1. DOMAIN z.objects \subseteq Int
    BY <1>8 DEF Good, World, Core, ObjectsOK
  <2> QED BY <1>11, <2>1 DEF Is
<1>13. /\ r \in Requests /\ r.what = "shoot" /\ r.to = x.store.screenshooter /\ r.id = 0 /\ r.of = of
       /\ of \in [output : Int, buffer : Int] /\ of.output = o /\ of.buffer = buffer
  BY <1>12, ShootIs
<1> HIDE DEF r, of
<1>14. Shape(w) /\ Rest(z, w) /\ w.objects = z.objects /\ w.sent = Append(z.sent, r)
  BY <1>10, SendFields
<1>15. Shoot(z, o, buffer) = w
  <2>1. Needs(z, {z.store.screenshooter}) = z
    BY <1>10 DEF Needs
  <2> QED BY <1>10, <2>1 DEF Shoot, r, of
<1> HIDE DEF w
<1>16. TakeScreenshot(x, output) = v
  <2>1. Then(file, ShmPool(file)) = y
    BY <1>2, <1>5 DEF Then
  <2>2. Then(y, ShmBuffer(y, Free(x))) = z
    BY <1>2, <1>6, <1>9 DEF Then
  <2>3. Then(z, [Shoot(z, o, Free(y)) EXCEPT !.store.screenshot = o]) = v
    BY <1>10, <1>15 DEF Then, buffer
  <2> HIDE DEF v
  <2> QED BY <2>1, <2>2, <2>3 DEF TakeScreenshot, file
<1>17. /\ Shape(v) /\ v.objects = z.objects /\ v.drafts = w.drafts /\ v.globals = w.globals
       /\ v.outputs = w.outputs /\ v.listener = w.listener /\ v.run = w.run /\ v.disk = w.disk
       /\ v.fault = w.fault /\ v.sent = w.sent /\ v.store = [w.store EXCEPT !.screenshot = o]
  BY <1>14 DEF Shape, Fields
<1> HIDE DEF v
<1>18. /\ \A f \in Known \union {"name", "device"} : v.store[f] = x.store[f]
       /\ v.store.screenshot = o
  <2>1. w.store = x.store /\ DOMAIN w.store = Known \union {"name", "device", "screenshot"}
    BY <1>10, <1>14 DEF Rest, Shape
  <2> QED BY <1>17, <2>1 DEF Known
<1>19. /\ v.drafts = x.drafts /\ v.globals = x.globals /\ v.outputs = x.outputs
       /\ v.listener = x.listener /\ v.run = x.run /\ v.disk = x.disk \union {o} /\ v.fault = Nothing
       /\ v.sent = Append(z.sent, r)
  BY <1>1, <1>4, <1>8, <1>10, <1>14, <1>17 DEF Rest
<1>20. Extends(x.objects, v.objects) /\ MakesOnly(x, v, {"pool", "shm_buffer"})
  <2>1. Extends(x.objects, v.objects)
    BY <1>1, <1>4, <1>8, <1>17 DEF Extends
  <2> QED BY <1>1, <1>4, <1>8, <1>17, <2>1 DEF MakesOnly, Extends
<1>21. StoreOK(v)
  <2>1. StoreOK(x)
    BY DEF Good, World
  <2>2. \A f \in Known : v.store[f] # 0 => Is(v.objects, v.store[f], f)
    BY <1>18, <1>20, <2>1 DEF StoreOK, Is, Extends
  <2>3. v.store.registry = x.store.registry /\ v.store.name = x.store.name
    BY <1>18 DEF Known
  <2> QED BY <1>18, <1>19, <2>1, <2>2, <2>3 DEF StoreOK
<1>22. OutputsOK(v)
  <2>1. \A id \in DOMAIN v.objects : v.objects[id] = "output" => id \in DOMAIN x.objects
    BY <1>20 DEF MakesOnly
  <2> QED BY <1>19, <1>20, <2>1, OutputsStay DEF Good, World
<1>23. MaySend(z.objects, v.objects, r)
  <2>1. "shoot" \in Others /\ Target("shoot") = "screenshooter" /\ "shoot" \notin Makers
    BY DEF Others, Target, Makers
  <2> QED BY <1>11, <1>13, <1>17, <2>1 DEF MaySend
<1>24. Good(v, q, E)
  <2>1. Extends(z.objects, v.objects)
    BY <1>17 DEF Extends
  <2> QED BY <1>8, <1>17, <1>19, <1>21, <1>22, <1>23, <2>1, GoodGrows
<1>25. Calm(v.sent)
  BY <1>8, <1>13, <1>19, CalmGrows DEF Good
<1> QED BY <1>16, <1>18, <1>19, <1>20, <1>24, <1>25


(* When it is initialized, an application has what it requires.            *)
LEMMA InitFacts ==
    ASSUME NEW x, NEW q, NEW E, NEW n, Before(x, q, E, n), Head(E).what = "done",
           x.objects[Head(E).to] = "init_done"
    PROVE  /\ Required(app) \subseteq x.globals /\ Early(x)
           /\ "output" \in x.globals => x.outputs # <<>>
<1>1. /\ E \in Seq(Events) /\ E # <<>> /\ Stage(x, q, E, n) /\ n \in 1..Len(E)
  BY DEF Before, World, Core
<1>2. Head(E) = E[1] /\ 1 \in 1..Len(E) /\ 1 \in 1..n
  BY <1>1, Tailing
<1>3. Early(x) /\ InitKnown(x, q, E, n) /\ OutputComes(x, q, E)
  BY <1>1, OneDone DEF Stage
<1>4. AnswersInit(x, E[1]) /\ E[1].what = "done"
  BY <1>2 DEF AnswersInit
<1>5. Required(app) \subseteq x.globals
  BY <1>2, <1>3, <1>4 DEF InitKnown
<1>6. ASSUME NEW o, BindsInTime(x, q, E, o) PROVE FALSE
  BY <1>2, <1>4, <1>6 DEF BindsInTime
<1>7. ASSUME NEW o, ToldInTime(x, E, o) PROVE FALSE
  <2>1. PICK k \in 1..Len(E) : E[k].what = "output_done" /\ \A m \in 1..(k - 1) : ~AnswersInit(x, E[m])
    BY <1>7 DEF ToldInTime
  <2>2. k # 1
    BY <1>4, <2>1
  <2>3. 1 \in 1..(k - 1)
    BY <2>2
  <2> QED BY <1>4, <2>1, <2>3
<1> QED BY <1>3, <1>5, <1>6, <1>7 DEF OutputComes

(* What is left to show when nothing is asked any more.                    *)
LEMMA StageOfLast ==
    ASSUME NEW x, NEW q, NEW E, NEW n, Before(x, q, E, n), ~Asked(q, Tail(E)),
           NEW y, y.sent \in Seq(Requests), Extends(x.objects, y.objects),
           \A i \in 1..Len(y.sent) : y.sent[i].what \notin {"sync", "get_registry"},
           \A i \in 1..Len(y.sent) : y.sent[i].what = "authenticate" => y.listener.fd = TRUE,
           x.listener.fd = TRUE => y.listener.fd = TRUE,
           Taking(y), FilesOK(y), ParamsOK(y)
    PROVE  Stage(y, q \o y.sent, Tail(E), n - 1)
<1>1. Keeps(x.objects, y.objects, Head(E))
  BY DEF Keeps, Extends
<1>2. Core(x.objects, q, E) /\ Stage(x, q, E, n) /\ n \in 1..Len(E) /\ E # <<>>
  BY DEF Before, World
<1> QED BY <1>1, <1>2, StageAfter

LEMMA DeviceOpened ==
    ASSUME NEW x, NEW q, NEW E, NEW n, Before(x, q, E, n), Head(E).what = "done",
           x.objects[Head(E).to] = "init_done", app = "egl"
    PROVE  After(OpenDevice(x), q, E, n)
<1> DEFINE r == Request("authenticate", x.store.drm, 0, 0)
           y == IF "magic" \in works THEN Send(x, r) ELSE x
           z == [y EXCEPT !.listener.fd = TRUE]
<1>1. /\ Good(x, q, Tail(E)) /\ Calm(x.sent) /\ q \in Seq(Requests) /\ StoreOK(x)
  BY Handles DEF Good, World
<1>2. Required(app) \subseteq x.globals /\ Early(x) /\ ~Asked(q, Tail(E))
  BY InitFacts, OneDone
<1>3. x.store.drm # 0 /\ Is(x.objects, x.store.drm, "drm")
  <2>1. "drm" \in x.globals
    BY <1>2 DEF Required
  <2> QED BY <1>1, <2>1 DEF StoreOK, Known
<1>4. /\ Good(y, q, Tail(E)) /\ Rest(x, y) /\ y.objects = x.objects
      /\ \A i \in 1..Len(y.sent) : y.sent[i].what \notin {"sync", "get_registry"}
  <2>1. "authenticate" \in Others \ {"shoot"} /\ Target("authenticate") = "drm"
    BY DEF Others, Target
  <2>2. CASE "magic" \in works
    <3>1. /\ Good(y, q, Tail(E)) /\ Rest(x, y) /\ y.objects = x.objects /\ y.sent = Append(x.sent, r)
      BY <1>1, <1>3, <2>1, <2>2, GoodSends
    <3>2. y.sent = <<r>> /\ r.what = "authenticate"
      BY <3>1 DEF Before, Request
    <3> QED BY <3>1, <3>2
  <2>3. CASE "magic" \notin works
    BY <1>1, <2>3 DEF Rest, Calm
  <2> QED BY <2>2, <2>3
<1>5. OpenDevice(x) = IF "device" \notin works THEN x ELSE z
  <2>1. Needs(x, {x.store.drm}) = x /\ x.fault = Nothing
    BY <1>1, <1>3 DEF Needs, Good
  <2>2. InitializeGraphics(x, "magic" \in works) = y
    BY <2>1 DEF InitializeGraphics, Then
  <2> QED BY <2>2 DEF OpenDevice
<1> HIDE DEF y
<1>6. /\ Shape(z) /\ z.objects = y.objects /\ z.drafts = y.drafts /\ z.globals = y.globals
      /\ z.outputs = y.outputs /\ z.store = y.store /\ z.run = y.run /\ z.disk = y.disk
      /\ z.fault = y.fault /\ z.sent = y.sent /\ z.listener.fd = TRUE
      /\ z.listener.outputs = y.listener.outputs
  BY <1>4 DEF Good, Shape, Fields
<1> HIDE DEF z
<1>7. StoreOK(z) /\ OutputsOK(z)
  BY <1>4, <1>6 DEF Good, World, StoreOK, OutputsOK
<1>8. Good(z, q, Tail(E))
  BY <1>4, <1>6, <1>7 DEF Good, World
<1>9. Taking(z) /\ FilesOK(z) /\ ParamsOK(z)
  <2>1. Taking(x) /\ FilesOK(x) /\ ParamsOK(x)
    BY DEF Before, Stage
  <2> QED BY <1>4, <1>6, <2>1 DEF Taking, FilesOK, ParamsOK, Rest
<1>10. Stage(z, q \o z.sent, Tail(E), n - 1)
  <2>1. z.sent \in Seq(Requests) /\ Extends(x.objects, z.objects)
    BY <1>4, <1>6, <1>8 DEF Good, Extends
  <2>2. \A i \in 1..Len(z.sent) : z.sent[i].what \notin {"sync", "get_registry"}
    BY <1>4, <1>6
  <2> QED BY <1>2, <1>6, <1>9, <2>1, <2>2, StageOfLast
<1>11. After(x, q, E, n) /\ After(z, q, E, n)
  BY <1>6, <1>8, <1>10, StopHandled DEF After, Goes
<1> QED BY <1>5, <1>11

LEMMA DmabufDrawn ==
    ASSUME NEW x, NEW q, NEW E, NEW n, Before(x, q, E, n), Head(E).what = "done",
           x.objects[Head(E).to] = "init_done"
    PROVE  After(CreateDmabufSurface(x), q, E, n)
<1> DEFINE params == Free(x)
           y == Create(x, "params", "create_params", x.store.dmabuf)
           a == Send(y, Request("add", params, 0, 0))
           z == Send(a, Request("create", params, 0, 0))
<1>1. /\ Good(x, q, Tail(E)) /\ Calm(x.sent) /\ q \in Seq(Requests) /\ StoreOK(x)
  BY Handles DEF Good, World
<1>2. Early(x) /\ ~Asked(q, Tail(E))
  BY InitFacts, OneDone
<1>3. CASE EnsureDmabuf(x)
  <2>1. /\ x.store.compositor # 0 /\ x.store.shell # 0 /\ x.store.dmabuf # 0
    BY <1>3 DEF EnsureDmabuf
  <2>2. Is(x.objects, x.store.dmabuf, "dmabuf")
    BY <1>1, <2>1 DEF StoreOK, Known
  <2>3. /\ Good(y, q, Tail(E)) /\ Rest(x, y) /\ Extends(x.objects, y.objects)
        /\ y.objects[params] = "params" /\ params \in DOMAIN y.objects /\ Calm(y.sent)
    <3>1. "create_params" \in Makers \ {"get_registry", "bind"} /\ Product("create_params") = "params"
          /\ Target("create_params") = "dmabuf"
      BY DEF Makers, Product, Made, Target
    <3> QED BY <1>1, <2>2, <3>1, GoodCreates
  <2> HIDE DEF y, params
  <2>4. Is(y.objects, params, "params")
    BY <2>3 DEF Is
  <2>5. Good(a, q, Tail(E)) /\ Rest(y, a) /\ a.objects = y.objects /\ Calm(a.sent)
    <3>1. "add" \in Others \ {"shoot"} /\ Target("add") = "params"
      BY DEF Others, Target
    <3> QED BY <1>1, <2>3, <2>4, <3>1, GoodSends
  <2> HIDE DEF a
  <2>6. Good(z, q, Tail(E)) /\ Rest(a, z) /\ z.objects = y.objects /\ Calm(z.sent)
    <3>1. "create" \in Others \ {"shoot"} /\ Target("create") = "params"
      BY DEF Others, Target
    <3> QED BY <1>1, <2>4, <2>5, <3>1, GoodSends
  <2>7. CreateDmabufSurface(x) = z
    BY <1>3 DEF CreateDmabufSurface, CreateDmabufBuffer, y, a, params
  <2> HIDE DEF z
  <2>8. Rest(x, z)
    BY <2>3, <2>5, <2>6, RestOn
  <2>9. Taking(z) /\ FilesOK(z) /\ ParamsOK(z)
    <3>1. Taking(x) /\ FilesOK(x)
      BY DEF Before, Stage
    <3>2. z.store.compositor # 0 /\ z.store.shell # 0
      BY <2>1, <2>8 DEF Rest
    <3> QED BY <2>8, <3>1, <3>2 DEF Taking, FilesOK, ParamsOK, Rest
  <2>10. Stage(z, q \o z.sent, Tail(E), n - 1)
    <3>1. z.sent \in Seq(Requests) /\ Extends(x.objects, z.objects)
      BY <2>3, <2>6 DEF Good
    <3>2. \A i \in 1..Len(z.sent) : z.sent[i].what \notin {"sync", "get_registry", "authenticate"}
      BY <2>6 DEF Calm
    <3>3. x.listener.fd = TRUE => z.listener.fd = TRUE
      BY <2>8 DEF Rest
    <3> QED BY <1>2, <2>9, <3>1, <3>2, <3>3, StageOfLast
  <2> QED BY <2>6, <2>7, <2>10 DEF After, Goes, Good
<1>4. CASE ~EnsureDmabuf(x)
  BY <1>4, StopHandled DEF CreateDmabufSurface
<1> QED BY <1>3, <1>4


(* The screenshot of the last output that is left.                         *)
LEMMA LastTaken ==
    ASSUME NEW x, NEW q, NEW E, NEW n, Before(x, q, E, n), ~Asked(q, Tail(E)),
           NEW y, Good(y, q, Tail(E)), Calm(y.sent), Extends(x.objects, y.objects),
           y.listener.outputs # <<>>, y.store.shm # 0, y.store.screenshooter # 0,
           y.listener.fd = x.listener.fd, ParamsOK(y), runs = 1 => y.disk = {}
    PROVE  After(TakeLast(y), q, E, n)
<1> DEFINE output == Last(y.listener.outputs)
           o == output.id
           z == TakeScreenshot(y, output)
<1>1. q \in Seq(Requests) /\ runs \in Nat \ {0} /\ Shape(y) /\ y.fault = Nothing
  BY Handles DEF Before, Good
<1>2. TakeLast(y) = z
  BY DEF TakeLast
<1>3. Is(y.objects, o, "output") /\ o # 0
  <2>1. OutputsOK(y) /\ ObjectsOK(y.objects)
    BY DEF Good, World, Core
  <2>2. y.listener.outputs \in Seq(Outputs)
    BY <2>1 DEF OutputsOK
  <2>3. Len(y.listener.outputs) \in 1..Len(y.listener.outputs)
    BY <2>2
  <2>4. output = y.listener.outputs[Len(y.listener.outputs)]
    BY DEF Last
  <2>5. Is(y.objects, o, "output")
    BY <2>1, <2>3, <2>4 DEF OutputsOK
  <2> QED BY <2>1, <2>5 DEF ObjectsOK, Is
<1> HIDE DEF output
<1>4. CASE o \in y.disk
  <2> DEFINE f == Fails(y, "file")
  <2>1. CreateAnonymousFile(y, o) = f
    BY <1>4 DEF CreateAnonymousFile
  <2>2. Shape(f) /\ f.fault = "file"
    BY <1>1, FailFields
  <2> HIDE DEF f
  <2>3. z = f
    BY <2>1, <2>2 DEF TakeScreenshot, Then, Nothing
  <2>4. runs > 1
    BY <1>1, <1>4
  <2> QED BY <1>2, <2>2, <2>3, <2>4 DEF After, Caused
<1>5. CASE o \notin y.disk
  <2>1. /\ Good(z, q, Tail(E)) /\ Calm(z.sent) /\ MakesOnly(y, z, {"pool", "shm_buffer"})
        /\ z.listener = y.listener /\ z.disk = y.disk \union {o} /\ z.store.screenshot = o
        /\ \A f \in Known : z.store[f] = y.store[f]
    BY <1>1, <1>3, <1>5, ScreenshotMade
  <2> HIDE DEF z
  <2>2. /\ z.store.shm = y.store.shm /\ z.store.screenshooter = y.store.screenshooter
        /\ z.store.compositor = y.store.compositor /\ z.store.shell = y.store.shell
    BY <2>1 DEF Known
  <2>3. Taking(z)
    BY <2>1, <2>2 DEF Taking
  <2>4. FilesOK(z)
    BY <1>3, <2>1 DEF FilesOK
  <2>5. ParamsOK(z)
    BY <2>1, <2>2 DEF ParamsOK, MakesOnly, Extends
  <2>6. Extends(x.objects, z.objects)
    BY <2>1, ExtendsOn DEF MakesOnly
  <2>7. z.sent \in Seq(Requests) /\ \A i \in 1..Len(z.sent) : z.sent[i].what \notin {"sync", "get_registry", "authenticate"}
    BY <2>1 DEF Good, Calm
  <2>8. Stage(z, q \o z.sent, Tail(E), n - 1)
    BY <2>1, <2>3, <2>4, <2>5, <2>6, <2>7, StageOfLast
  <2> QED BY <1>2, <2>1, <2>8 DEF After, Goes, Good
<1> QED BY <1>4, <1>5

LEMMA ImagePrepared ==
    ASSUME NEW x, Shape(x)
    PROVE  LET y == PrepareImage([x EXCEPT !.listener.outputs = x.outputs])
           IN  /\ Shape(y) /\ y.objects = x.objects /\ y.drafts = x.drafts /\ y.globals = x.globals
               /\ y.outputs = x.outputs /\ y.store = x.store /\ y.run = x.run /\ y.disk = x.disk
               /\ y.fault = x.fault /\ y.sent = x.sent /\ y.listener.fd = x.listener.fd
               /\ y.listener.outputs = x.outputs
<1> DEFINE a == [x EXCEPT !.listener.outputs = x.outputs]
           outputs == ToSet(a.listener.outputs)
           left == Lowest({0} \union {o.x : o \in outputs})
           right == Highest({0} \union {o.x + o.width : o \in outputs})
           image == [p \in 0..(right - left - 1) |-> 0]
           offset == -left
           y == [a EXCEPT !.listener.image = image, !.listener.offset = offset]
<1>1. PrepareImage(a) = y
  BY DEF PrepareImage
<1> HIDE DEF image, offset
<1>2. /\ Shape(a) /\ a.objects = x.objects /\ a.drafts = x.drafts /\ a.globals = x.globals
      /\ a.outputs = x.outputs /\ a.store = x.store /\ a.run = x.run /\ a.disk = x.disk
      /\ a.fault = x.fault /\ a.sent = x.sent /\ a.listener.fd = x.listener.fd
      /\ a.listener.outputs = x.outputs
  BY DEF Shape, Fields
<1> HIDE DEF a
<1>3. /\ Shape(y) /\ y.objects = a.objects /\ y.drafts = a.drafts /\ y.globals = a.globals
      /\ y.outputs = a.outputs /\ y.store = a.store /\ y.run = a.run /\ y.disk = a.disk
      /\ y.fault = a.fault /\ y.sent = a.sent /\ y.listener.fd = a.listener.fd
      /\ y.listener.outputs = a.listener.outputs
  BY <1>2 DEF Shape, Fields
<1> HIDE DEF y
<1> QED BY <1>1, <1>2, <1>3 DEF a

LEMMA OutputsDoneHandled ==
    ASSUME NEW x, NEW q, NEW E, NEW n, Before(x, q, E, n), Head(E).what = "done",
           x.objects[Head(E).to] = "init_done", app = "screenshot"
    PROVE  After(OutputsDone(x), q, E, n)
<1> DEFINE b == PrepareImage([x EXCEPT !.listener.outputs = x.outputs])
           new == Free(b)
           a == AddObject(b, new, "screenshooter")
           r == Request("bind", x.store.registry, new, x.store.name)
           c == Send(a, r)
           y == [c EXCEPT !.store.screenshooter = new]
<1>1. /\ Good(x, q, Tail(E)) /\ Calm(x.sent) /\ q \in Seq(Requests) /\ StoreOK(x) /\ OutputsOK(x)
      /\ Shape(x) /\ x.fault = Nothing /\ ObjectsOK(x.objects) /\ x.sent = <<>>
  BY Handles DEF Good, World, Before
<1>2. /\ Early(x) /\ ~Asked(q, Tail(E)) /\ x.outputs # <<>>
      /\ {"output", "shm", "screenshooter"} \subseteq x.globals
  <2>1. Required(app) = {"output", "shm", "screenshooter"}
    BY DEF Required
  <2> QED BY <2>1, InitFacts, OneDone
<1>3. /\ Shape(b) /\ b.objects = x.objects /\ b.drafts = x.drafts /\ b.globals = x.globals
      /\ b.outputs = x.outputs /\ b.store = x.store /\ b.run = x.run /\ b.disk = x.disk
      /\ b.fault = x.fault /\ b.sent = x.sent /\ b.listener.fd = x.listener.fd
      /\ b.listener.outputs = x.outputs
  BY <1>1, ImagePrepared
<1> HIDE DEF b
<1>4. /\ x.store.registry # 0 /\ Is(x.objects, x.store.registry, "registry") /\ x.store.registry \in Int
      /\ x.store.name # 0 /\ x.store.name \in DOMAIN Globals /\ Globals[x.store.name] = "screenshooter"
      /\ x.store.name \in Int /\ x.store.shm # 0
  <2>1. x.store.registry # 0 /\ Is(x.objects, x.store.registry, "registry")
    BY <1>1 DEF StoreOK, Known
  <2>2. x.store.registry \in Int
    BY <1>1, <2>1 DEF ObjectsOK, Is
  <2>3. x.store.shm # 0
    BY <1>1, <1>2 DEF StoreOK, Known
  <2> QED BY <1>1, <1>2, <2>1, <2>2, <2>3 DEF StoreOK
<1>5. new \in Nat \ {0} /\ new \in Int /\ new \notin DOMAIN x.objects
  BY <1>1, <1>3, FreeIsFree DEF ObjectsOK
<1> HIDE DEF new
<1>6. /\ Shape(a) /\ Rest(b, a) /\ a.objects = With(x.objects, new, "screenshooter") /\ a.sent = x.sent
  BY <1>3 DEF AddObject, Shape, Fields, Rest
<1> HIDE DEF a
<1>7. Shape(c) /\ Rest(a, c) /\ c.objects = a.objects /\ c.sent = Append(x.sent, r)
  BY <1>6, SendFields
<1>8. InitializeScreenshoter(b) = y
  <2>1. a.store = x.store /\ a.fault = Nothing
    BY <1>1, <1>3, <1>6 DEF Rest
  <2>2. Needs(a, {b.store.registry, b.store.name}) = a
    BY <1>3, <1>4 DEF Needs
  <2>3. InitializeScreenshoter(b) =
            LET w == Needs(a, {b.store.registry, b.store.name})
            IN  Then(w, [Send(w, Request("bind", w.store.registry, new, w.store.name))
                            EXCEPT !.store.screenshooter = new])
    BY DEF InitializeScreenshoter, a, new
  <2> QED BY <2>1, <2>2, <2>3 DEF Then
<1> HIDE DEF c
<1>9. /\ Shape(y) /\ y.objects = c.objects /\ y.drafts = c.drafts /\ y.globals = c.globals
      /\ y.outputs = c.outputs /\ y.listener = c.listener /\ y.run = c.run /\ y.disk = c.disk
      /\ y.fault = c.fault /\ y.sent = c.sent /\ y.store = [c.store EXCEPT !.screenshooter = new]
  BY <1>7 DEF Shape, Fields
<1> HIDE DEF y
<1>10. /\ y.drafts = x.drafts /\ y.globals = x.globals /\ y.outputs = x.outputs
       /\ y.listener.outputs = x.outputs /\ y.listener.fd = x.listener.fd /\ y.disk = x.disk
       /\ y.fault = Nothing /\ y.sent = Append(x.sent, r) /\ c.store = x.store
  BY <1>1, <1>3, <1>6, <1>7, <1>9 DEF Rest
<1>11. /\ y.store.screenshooter = new
       /\ \A f \in (Known \ {"screenshooter"}) \union {"name"} : y.store[f] = x.store[f]
  BY <1>1, <1>9, <1>10 DEF Shape, Known
<1>12. /\ DOMAIN y.objects = DOMAIN x.objects \union {new} /\ y.objects[new] = "screenshooter"
       /\ Extends(x.objects, y.objects)
  BY <1>5, <1>6, <1>7, <1>9 DEF With, Extends
<1>13. /\ r \in Requests /\ r.what = "bind" /\ r.id = new /\ r.to = x.store.registry /\ r.of = x.store.name
  <2>1. "bind" \in Makers
    BY DEF Makers
  <2> QED BY <1>4, <1>5, <2>1, IsRequest
<1> HIDE DEF r
<1>14. MaySend(x.objects, y.objects, r)
  <2>1. "bind" \notin Others /\ Target("bind") = "registry" /\ new # ServerId
    BY <1>5 DEF Others, Target, ServerId
  <2>2. Makes(r) = "screenshooter" /\ "screenshooter" \notin Callbacks
    BY <1>4, <1>13 DEF Makes, Callbacks
  <2> QED BY <1>4, <1>5, <1>12, <1>13, <2>1, <2>2 DEF MaySend
<1>15. StoreOK(y)
  <2>1. ASSUME NEW f \in Known, y.store[f] # 0 PROVE Is(y.objects, y.store[f], f)
    <3>1. CASE f = "screenshooter"
      BY <1>11, <1>12, <3>1 DEF Is
    <3>2. CASE f # "screenshooter"
      <4>1. Is(x.objects, y.store[f], f)
        BY <1>1, <1>11, <2>1, <3>2 DEF StoreOK
      <4> QED BY <1>12, <4>1 DEF Is, Extends
    <3> QED BY <3>1, <3>2
  <2>2. \A f \in Known \ {"registry", "screenshooter"} : f \in y.globals => y.store[f] # 0
    BY <1>1, <1>10, <1>11 DEF StoreOK
  <2>3. y.store.registry = x.store.registry /\ y.store.name = x.store.name
    BY <1>11 DEF Known
  <2> QED BY <1>4, <2>1, <2>2, <2>3 DEF StoreOK
<1>16. OutputsOK(y)
  <2>1. \A id \in DOMAIN y.objects : y.objects[id] = "output" =>
            id \in DOMAIN x.objects /\ x.objects[id] = "output"
    BY <1>12 DEF Extends
  <2>2. \A id : Is(x.objects, id, "output") => Is(y.objects, id, "output")
    BY <1>12 DEF Extends, Is
  <2> QED BY <1>1, <1>10, <2>1, <2>2 DEF OutputsOK
<1>17. Good(y, q, Tail(E))
  BY <1>1, <1>9, <1>10, <1>12, <1>14, <1>15, <1>16, GoodGrows
<1>18. Calm(y.sent)
  BY <1>1, <1>10, <1>13, CalmGrows DEF Good
<1>19. /\ y.listener.outputs # <<>> /\ y.store.shm # 0 /\ y.store.screenshooter # 0
  BY <1>2, <1>4, <1>5, <1>10, <1>11 DEF Known
<1>20. ParamsOK(y)
  BY <1>2, <1>12 DEF ParamsOK, Early, Extends
<1>21. runs = 1 => y.disk = {}
  <2>1. FilesOK(x)
    BY DEF Before, Stage
  <2> QED BY <1>2, <1>10, <2>1 DEF FilesOK, Early
<1>22. After(TakeLast(y), q, E, n)
  BY <1>2, <1>10, <1>12, <1>17, <1>18, <1>19, <1>20, <1>21, LastTaken
<1>23. OutputsDone(x) = TakeLast(y)
  BY <1>8, <1>10 DEF OutputsDone, Then, b
<1> QED BY <1>22, <1>23

LEMMA InitDoneHandled ==
    ASSUME NEW x, NEW q, NEW E, NEW n, Before(x, q, E, n), Head(E).what = "done",
           x.objects[Head(E).to] = "init_done", app \in {"screenshot", "egl", "dmabuf"}
    PROVE  After(InitDone(x), q, E, n)
<1>1. CASE app = "screenshot"
  BY <1>1, OutputsDoneHandled DEF InitDone
<1>2. CASE app = "egl"
  BY <1>2, DeviceOpened DEF InitDone
<1>3. CASE app = "dmabuf" /\ "window" \in works
  <2>1. CreateDmabufWindow(x) = x /\ x.fault = Nothing
    BY <1>3 DEF CreateDmabufWindow, Before
  <2> QED BY <1>3, <2>1, DmabufDrawn DEF InitDone, Then
<1>4. CASE app = "dmabuf" /\ "window" \notin works
  <2> DEFINE y == Fails(x, "window")
  <2>1. Shape(y) /\ y.fault = "window"
    BY FailFields DEF Before, World
  <2>2. CreateDmabufWindow(x) = y
    BY <1>4 DEF CreateDmabufWindow
  <2> HIDE DEF y
  <2>3. InitDone(x) = y
    BY <1>4, <2>1, <2>2 DEF InitDone, Then, Nothing
  <2> QED BY <1>4, <2>1, <2>3 DEF After, Caused
<1> QED BY <1>1, <1>2, <1>3, <1>4


(* A screenshot came: it is copied and the next one is asked for.          *)
LEMMA ScreenshotLeft ==
    ASSUME NEW x, Shape(x), NEW buffer
    PROVE  LET y == HandleScreenshot(ScreenshotDropped(x), buffer)
           IN  /\ Shape(y) /\ y.objects = x.objects /\ y.drafts = x.drafts /\ y.globals = x.globals
               /\ y.outputs = x.outputs /\ y.run = x.run /\ y.fault = x.fault /\ y.sent = x.sent
               /\ y.disk = x.disk \ {x.store.screenshot} /\ y.store.screenshot = 0
               /\ \A f \in Known \union {"name", "device"} : y.store[f] = x.store[f]
               /\ y.listener.outputs = Front(x.listener.outputs) /\ y.listener.fd = x.listener.fd
<1> DEFINE s == ScreenshotDropped(x)
           output == Last(s.listener.outputs)
           at == (output.x + s.listener.offset)..(output.x + s.listener.offset + output.width - 1)
           image == [p \in DOMAIN s.listener.image |-> IF p \in at THEN buffer ELSE s.listener.image[p]]
           y == [s EXCEPT !.listener.outputs = Front(@), !.listener.image = image]
<1>1. s = [x EXCEPT !.disk = @ \ {x.store.screenshot}, !.store.screenshot = 0]
  BY DEF ScreenshotDropped
<1>2. /\ Shape(s) /\ s.objects = x.objects /\ s.drafts = x.drafts /\ s.globals = x.globals
      /\ s.outputs = x.outputs /\ s.run = x.run /\ s.fault = x.fault /\ s.sent = x.sent
      /\ s.disk = x.disk \ {x.store.screenshot} /\ s.store = [x.store EXCEPT !.screenshot = 0]
      /\ s.listener = x.listener
  BY <1>1 DEF Shape, Fields
<1>3. /\ \A f \in Known \union {"name", "device"} : s.store[f] = x.store[f]
      /\ s.store.screenshot = 0
  BY <1>2 DEF Shape, Known
<1>4. DOMAIN s = Fields /\ DOMAIN s.listener = {"outputs", "image", "offset", "saved", "fd"}
  BY <1>2 DEF Shape
<1> HIDE DEF s
<1>5. HandleScreenshot(s, buffer) = y
  <2>1. [s.listener EXCEPT !.image = [p \in DOMAIN @ |-> IF p \in at THEN buffer ELSE @[p]]]
            = [s.listener EXCEPT !.image = image]
    BY <1>4
  <2> QED BY <1>4, <2>1 DEF HandleScreenshot, Fields
<1> HIDE DEF image
<1>6. /\ Shape(y) /\ y.objects = s.objects /\ y.drafts = s.drafts /\ y.globals = s.globals
      /\ y.outputs = s.outputs /\ y.run = s.run /\ y.fault = s.fault /\ y.sent = s.sent
      /\ y.disk = s.disk /\ y.store = s.store
      /\ y.listener.outputs = Front(s.listener.outputs) /\ y.listener.fd = s.listener.fd
  BY <1>2 DEF Shape, Fields
<1> HIDE DEF y
<1> QED BY <1>2, <1>3, <1>5, <1>6 DEF s

LEMMA Fronts ==
    ASSUME NEW S, NEW s \in Seq(S), s # <<>>
    PROVE  /\ Front(s) \in Seq(S)
           /\ \A i \in 1..Len(Front(s)) : i \in 1..Len(s) /\ Front(s)[i] = s[i]
<1>1. Len(s) \in Nat \ {0} /\ Front(s) = SubSeq(s, 1, Len(s) - 1)
  BY DEF Front
<1>2. \A i \in 1..(Len(s) - 1) : i \in 1..Len(s) /\ s[i] \in S
  BY <1>1
<1>3. SubSeq(s, 1, Len(s) - 1) = [i \in 1..(Len(s) - 1) |-> s[i]]
  BY <1>1
<1>4. [i \in 1..(Len(s) - 1) |-> s[i]] \in Seq(S)
  BY <1>1, <1>2
<1>5. Len([i \in 1..(Len(s) - 1) |-> s[i]]) = Len(s) - 1
  BY <1>1
<1> QED BY <1>1, <1>2, <1>3, <1>4, <1>5

LEMMA ShotHandled ==
    ASSUME NEW x, NEW q, NEW E, NEW n, Before(x, q, E, n), Head(E).what = "shot", ScreenshotDone(x)
    PROVE  After(OnScreenshotDone(ScreenshotDropped(x), Head(E).of), q, E, n)
<1> DEFINE y == HandleScreenshot(ScreenshotDropped(x), Head(E).of)
<1>1. /\ Good(x, q, Tail(E)) /\ Calm(x.sent) /\ StoreOK(x) /\ OutputsOK(x)
      /\ Shape(x) /\ EventOK(x.objects, Head(E))
  BY Handles DEF Good, World
<1>2. E \in Seq(Events) /\ E # <<>> /\ Stage(x, q, E, n) /\ runs \in Nat \ {0}
  BY DEF Before, World, Core
<1>3. x.store.screenshot # 0 /\ x.listener.outputs # <<>> /\ x.store.shm # 0 /\ x.store.screenshooter # 0
  BY <1>2 DEF ScreenshotDone, Stage, Taking
<1>4. ~Asked(q, Tail(E))
  <2>1. ~Early(x)
    BY <1>3 DEF Early
  <2>2. ~Asked(q, E)
    BY <1>2, <2>1 DEF Stage
  <2>3. \A k \in 1..Len(Tail(E)) : k + 1 \in 1..Len(E) /\ Tail(E)[k] = E[k + 1]
    BY <1>2, Tailing
  <2> QED BY <2>2, <2>3 DEF Asked
<1>5. /\ Shape(y) /\ y.objects = x.objects /\ y.drafts = x.drafts /\ y.globals = x.globals
      /\ y.outputs = x.outputs /\ y.run = x.run /\ y.fault = x.fault /\ y.sent = x.sent
      /\ y.disk = x.disk \ {x.store.screenshot} /\ y.store.screenshot = 0
      /\ \A f \in Known \union {"name", "device"} : y.store[f] = x.store[f]
      /\ y.listener.outputs = Front(x.listener.outputs) /\ y.listener.fd = x.listener.fd
  BY <1>1, ScreenshotLeft
<1> HIDE DEF y
<1>6. /\ y.store.shm = x.store.shm /\ y.store.screenshooter = x.store.screenshooter
      /\ y.store.registry = x.store.registry /\ y.store.name = x.store.name
      /\ y.store.compositor = x.store.compositor /\ y.store.shell = x.store.shell
  BY <1>5 DEF Known
<1>7. StoreOK(y)
  <2>1. \A f \in Known : y.store[f] = x.store[f]
    BY <1>5
  <2> QED BY <1>1, <1>5, <1>6, <2>1 DEF StoreOK
<1>8. OutputsOK(y)
  <2>1. x.listener.outputs \in Seq(Outputs)
    BY <1>1 DEF OutputsOK
  <2>2. /\ y.listener.outputs \in Seq(Outputs)
        /\ \A i \in 1..Len(y.listener.outputs) :
                i \in 1..Len(x.listener.outputs) /\ y.listener.outputs[i] = x.listener.outputs[i]
    BY <1>3, <1>5, <2>1, Fronts
  <2> QED BY <1>1, <1>5, <2>2 DEF OutputsOK
<1>9. Good(y, q, Tail(E)) /\ Calm(y.sent)
  BY <1>1, <1>5, <1>7, <1>8 DEF Good, World
<1>10. ParamsOK(y) /\ Extends(x.objects, y.objects) /\ (runs = 1 => y.disk = {})
  <2>1. ParamsOK(x) /\ FilesOK(x)
    BY <1>2 DEF Stage
  <2> QED BY <1>5, <1>6, <2>1 DEF ParamsOK, FilesOK, Extends
<1>11. OnScreenshotDone(ScreenshotDropped(x), Head(E).of) = ContinueScreenshot(y)
  BY DEF OnScreenshotDone, y
<1>12. CASE y.listener.outputs # <<>>
  <2>1. ContinueScreenshot(y) = TakeLast(y)
    BY <1>12 DEF ContinueScreenshot
  <2> QED BY <1>3, <1>4, <1>5, <1>6, <1>9, <1>10, <1>11, <1>12, <2>1, LastTaken
<1>13. CASE y.listener.outputs = <<>>
  <2> DEFINE a == [y EXCEPT !.listener.saved = y.listener.image]
             z == Stop(a)
  <2>1. ContinueScreenshot(y) = z
    BY <1>13 DEF ContinueScreenshot
  <2>2. /\ Shape(z) /\ z.objects = y.objects /\ z.drafts = y.drafts /\ z.globals = y.globals
        /\ z.outputs = y.outputs /\ z.store = y.store /\ z.disk = y.disk /\ z.fault = y.fault
        /\ z.sent = y.sent /\ z.listener.fd = y.listener.fd /\ z.listener.outputs = y.listener.outputs
    BY <1>5 DEF Shape, Fields, Stop
  <2> HIDE DEF z
  <2>3. StoreOK(z) /\ OutputsOK(z)
    BY <1>7, <1>8, <2>2 DEF StoreOK, OutputsOK
  <2>4. Good(z, q, Tail(E)) /\ Calm(z.sent)
    BY <1>9, <2>2, <2>3 DEF Good, World
  <2>5. Taking(z) /\ FilesOK(z) /\ ParamsOK(z)
    BY <1>5, <1>10, <2>2 DEF Taking, FilesOK, ParamsOK
  <2>6. Stage(z, q \o z.sent, Tail(E), n - 1)
    <3>1. z.sent \in Seq(Requests) /\ \A i \in 1..Len(z.sent) : z.sent[i].what \notin {"sync", "get_registry", "authenticate"}
      BY <2>4 DEF Good, Calm
    <3> QED BY <1>4, <1>5, <1>10, <2>2, <2>5, <3>1, StageOfLast
  <2> QED BY <1>11, <2>1, <2>2, <2>4, <2>6 DEF After, Goes
<1> QED BY <1>12, <1>13

-----------------------------------------------------------------------------
(* Every event that comes.                                                 *)
LEMMA EventHandled ==
    ASSUME NEW x, NEW q, NEW E, NEW n, Before(x, q, E, n), app \in {"screenshot", "egl", "dmabuf"}
    PROVE  /\ Finds(x, Head(E))
           /\ After(Handled(x, Head(E)), q, E, n)
<1> DEFINE e == Head(E)
<1>1. EventOK(x.objects, e) /\ e \in Events
  BY Handles
<1>2. Finds(x, e)
  BY <1>1 DEF EventOK, Finds
<1>3. e.what \in Whats
  BY <1>1 DEF Events
<1>4. CASE e.what = "delete_id"
  BY <1>2, <1>4, DeleteIdHandled DEF Handled
<1>5. CASE e.what = "global"
  BY <1>2, <1>5, GlobalHandled DEF Handled
<1>6. CASE e.what = "geometry"
  BY <1>2, <1>6, GeometryHandled DEF Handled
<1>7. CASE e.what = "mode"
  BY <1>2, <1>7, ModeHandled DEF Handled
<1>8. CASE e.what = "output_done"
  BY <1>2, <1>8, OutputDoneHandled DEF Handled
<1>9. CASE e.what = "done"
  <2>1. Handled(x, e) = CallbackDone(x, e)
    BY <1>2, <1>9 DEF Handled
  <2>2. CASE x.objects[e.to] = "init_done"
    BY <1>2, <1>9, <2>1, <2>2, InitDoneHandled DEF CallbackDone
  <2>3. CASE x.objects[e.to] # "init_done"
    BY <1>2, <1>9, <2>1, <2>3, GlobalsDoneHandled DEF CallbackDone
  <2> QED BY <2>2, <2>3
<1>10. CASE e.what = "device"
  BY <1>2, <1>10, DeviceHandled DEF Handled
<1>11. CASE e.what = "authenticated"
  BY <1>2, <1>11, AuthenticatedHandled DEF Handled
<1>12. CASE e.what = "created"
  BY <1>2, <1>12, CreatedHandled DEF Handled
<1>13. CASE e.what = "failed"
  BY <1>2, <1>13, StopHandled DEF Handled
<1>14. CASE e.what = "shot"
  <2>1. Handled(x, e) = IF ScreenshotDone(x) THEN OnScreenshotDone(ScreenshotDropped(x), e.of) ELSE Stop(x)
    BY <1>2, <1>14 DEF Handled
  <2> QED BY <1>2, <1>14, <2>1, ShotHandled, StopHandled
<1> QED BY <1>2, <1>3, <1>4, <1>5, <1>6, <1>7, <1>8, <1>9, <1>10, <1>11, <1>12, <1>13, <1>14 DEF Whats


-----------------------------------------------------------------------------
(* What holds of a client, a line and events holds of the next state, if   *)
(* these are what it has.                                                  *)
Kept(o) ==
    /\ server'.known = server.known /\ server'.shots \in Seq(Events)
    /\ \A k \in 1..Len(server'.shots) : EventOK(o, server'.shots[k]) /\ server'.shots[k].what = "shot"
    /\ \A i \in DOMAIN Globals : i \in DOMAIN Globals' /\ Globals'[i] = Globals[i]

LEMMA CoreMoves ==
    ASSUME NEW o, NEW q, NEW E, Core(o, q, E), Kept(o), client'.objects = o, requests' = q, pending' = E
    PROVE  Core(client.objects, requests, pending)'
<1>1. q \in Seq(Requests) /\ E \in Seq(Events) /\ server'.shots \in Seq(Events)
  BY DEF Core, Kept
<1>2. KnownOK(client.objects)'
  BY DEF Core, Kept, KnownOK, Is
<1>3. MakesOK(client.objects, requests)'
  <2>1. MakesOK(o, q)
    BY DEF Core
  <2>2. ASSUME NEW i \in 1..Len(q), q[i].what \in Makers
        PROVE  o[q[i].id] = Makes(q[i])' /\ Makes(q[i])' \notin Callbacks
    <3>1. o[q[i].id] = Makes(q[i]) /\ Makes(q[i]) \notin Callbacks
      BY <2>1, <2>2 DEF MakesOK
    <3>2. q[i].what = "bind" => Globals'[q[i].of] = Globals[q[i].of]
      BY <2>1 DEF MakesOK, Kept
    <3>3. Makes(q[i])' = Makes(q[i])
      BY <3>2 DEF Makes
    <3> QED BY <3>1, <3>3
  <2>3. ASSUME NEW i \in 1..Len(q)
        PROVE  /\ q[i].id # 0 <=> q[i].what \notin Others
               /\ q[i].id # 0 => /\ q[i].id \in DOMAIN o \ DOMAIN server'.known
                                 /\ q[i].id # ServerId
               /\ q[i].what = "sync" => o[q[i].id] \in Callbacks
               /\ q[i].what = "bind" => q[i].of \in DOMAIN Globals'
    BY <2>1 DEF MakesOK, Kept
  <2>4. \A i, j \in 1..Len(q) : q[i].id # 0 /\ q[i].id = q[j].id => i = j
    BY <2>1 DEF MakesOK
  <2> QED BY <2>2, <2>3, <2>4 DEF MakesOK
<1>4. ObjectsSure(client.objects, requests)'
  BY DEF Core, Kept, ObjectsSure, Sure
<1>5. TargetsOK(client.objects, requests)'
  BY DEF Core, Kept, TargetsOK, Sure, Is
<1>6. EventsOK(client.objects, pending)'
  <2>1. PICK shots : shots = server'.shots
    OBVIOUS
  <2>2. \A e : EventOK(o, e) => EventOK(client.objects, e)'
    BY DEF Kept, EventOK
  <2>3. \A k \in 1..Len(E) : EventOK(o, E[k])
    BY DEF Core, EventsOK
  <2>4. \A k \in 1..Len(shots) : EventOK(o, shots[k]) /\ shots[k].what = "shot"
    BY <2>1 DEF Kept
  <2>5. \A k \in 1..Len(E) : EventOK(client.objects, E[k])'
    BY <2>2, <2>3
  <2>6. \A k \in 1..Len(shots) : EventOK(client.objects, shots[k])' /\ shots[k].what = "shot"
    BY <2>2, <2>4
  <2> QED BY <2>1, <2>5, <2>6 DEF EventsOK
<1>7. DeletesOK(requests, pending)' /\ ObjectsOK(client.objects)'
  BY DEF Core, DeletesOK, ObjectsOK, Is, Deletes
<1> QED BY <1>1, <1>2, <1>3, <1>4, <1>5, <1>6, <1>7 DEF Core

LEMMA WorldMoves ==
    ASSUME NEW x, NEW q, NEW E, World(x, q, E), Kept(x.objects), client' = x, requests' = q, pending' = E
    PROVE  World(client, requests, pending)'
<1>1. Core(client.objects, requests, pending)'
  BY CoreMoves DEF World
<1>2. Shape(client)'
  BY DEF World, Shape
<1>3. StoreOK(client)'
  BY DEF World, StoreOK, Kept, Is
<1>4. OutputsOK(client)'
  BY DEF World, OutputsOK, Is
<1> QED BY <1>1, <1>2, <1>3, <1>4 DEF World

LEMMA StageMoves ==
    ASSUME NEW x, NEW q, NEW E, NEW n, Stage(x, q, E, n), client' = x, requests' = q, pending' = E,
           Len(batch)' = n, app' = app, runs' = runs
    PROVE  Stage(client, requests, pending, Len(batch))'
<1>1. AskedOnce(requests, pending)' /\ GlobalsInTime(client, requests, pending)'
  BY DEF Stage, AskedOnce, GlobalsInTime, Announces, AsksInit, AnswersInit
<1>2. Asked(requests, pending)' => Early(client)'
  BY DEF Stage, Asked, Early
<1>3. Asked(requests, pending)' => InitKnown(client, requests, pending, Len(batch))'
  BY DEF Stage, Asked, InitKnown, Required, AsksInit, AnswersInit
<1>4. Asked(requests, pending)' => OutputComes(client, requests, pending)'
  BY DEF Stage, Asked, OutputComes, BindsInTime, ToldInTime, AsksInit, AnswersInit
<1>5. Taking(client)' /\ FilesOK(client)' /\ ParamsOK(client)' /\ DeviceOK(client, requests, pending)'
  BY DEF Stage, Taking, FilesOK, ParamsOK, DeviceOK
<1> QED BY <1>1, <1>2, <1>3, <1>4, <1>5 DEF Stage


-----------------------------------------------------------------------------
(* The actions.                                                            *)
LEMMA GoesOn ==
    ASSUME NEW x, NEW q, NEW E, NEW n, IInv, World(x, q, E), Stage(x, q, E, n), Kept(x.objects),
           x.sent = <<>>, x.fault = Nothing, client' = x, requests' = q, pending' = E, Len(batch)' = n,
           phase = "running", phase' = "running", app' = app, works' = works, runs' = runs, screens' \in Nat,
           DOMAIN server' = {"known", "shots"}, batch' \in Seq(Events), events' \in Seq(Events)
    PROVE  IInv'
<1>1. World(client, requests, pending)' /\ Stage(client, requests, pending, Len(batch))'
  BY WorldMoves, StageMoves
<1>2. q \in Seq(Requests)
  BY DEF World, Core
<1>3. Typed'
  BY <1>2 DEF IInv, Typed, Kept
<1> QED BY <1>1, <1>3 DEF IInv, Typed

LEMMA StaysKept ==
    ASSUME IInv, phase = "running", server' = server, screens' = screens
    PROVE  Kept(client.objects)
<1>1. Globals' = Globals
  BY DEF Globals
<1> QED BY <1>1 DEF IInv, World, Core, EventsOK, Kept

LEMMA Holding ==
    ASSUME IInv, phase = "running"
    PROVE  /\ Typed /\ client.sent = <<>> /\ client.fault = Nothing
           /\ World(client, requests, pending) /\ Core(client.objects, requests, pending)
           /\ Stage(client, requests, pending, Len(batch))
           /\ pending = batch \o events /\ pending \in Seq(Events)
           /\ batch \in Seq(Events) /\ events \in Seq(Events) /\ requests \in Seq(Requests)
           /\ runs \in Nat \ {0} /\ screens \in Nat /\ DOMAIN server = {"known", "shots"}
BY DEF IInv, Typed, World, Core, pending

LEMMA Splitting ==
    ASSUME NEW S, NEW s \in Seq(S), NEW n \in 1..Len(s)
    PROVE  /\ SubSeq(s, 1, n) \in Seq(S) /\ SubSeq(s, n + 1, Len(s)) \in Seq(S) /\ Len(SubSeq(s, 1, n)) = n
           /\ SubSeq(s, 1, n) \o SubSeq(s, n + 1, Len(s)) = s
OBVIOUS

LEMMA ReadEventsOK ==
    ASSUME IInv, ReadEvents PROVE IInv'
<1>1. phase = "running"
  BY DEF ReadEvents
<1>2. PICK n \in DOMAIN events :
        /\ batch' = SubSeq(events, 1, n)
        /\ events' = SubSeq(events, n + 1, Len(events))
  BY DEF ReadEvents
<1>3. /\ World(client, requests, pending) /\ Stage(client, requests, pending, Len(batch))
      /\ client.sent = <<>> /\ client.fault = Nothing
      /\ pending = batch \o events /\ pending \in Seq(Events) /\ events \in Seq(Events)
      /\ screens \in Nat /\ DOMAIN server = {"known", "shots"}
  BY <1>1, Holding
<1>4. client.run /\ batch = <<>>
  BY DEF ReadEvents
<1>5. /\ batch' \in Seq(Events) /\ events' \in Seq(Events) /\ Len(batch') = n
      /\ batch' \o events' = events /\ n \in 1..Len(events)
  <2>1. n \in 1..Len(events)
    BY <1>3
  <2> QED BY <1>2, <1>3, <2>1, Splitting
<1>6. pending' = pending
  BY <1>3, <1>4, <1>5 DEF pending
<1>7. Stage(client, requests, pending, n)
  <2>1. InitKnown(client, requests, pending, Len(batch)) => InitKnown(client, requests, pending, n)
    BY <1>4 DEF InitKnown
  <2> QED BY <1>3, <2>1 DEF Stage
<1>8. /\ client' = client /\ requests' = requests /\ phase' = phase /\ app' = app /\ works' = works
      /\ runs' = runs /\ screens' = screens /\ server' = server
  BY DEF ReadEvents
<1>9. Kept(client.objects)
  BY <1>1, <1>8, StaysKept
<1> QED BY <1>1, <1>3, <1>5, <1>6, <1>7, <1>8, <1>9, GoesOn

LEMMA HungUpOK ==
    ASSUME IInv, HungUp PROVE IInv'
<1> DEFINE x == Stop(client)
<1>1. phase = "running" /\ batch = <<>>
  BY DEF HungUp
<1>2. /\ World(client, requests, pending) /\ Stage(client, requests, pending, Len(batch))
      /\ client.sent = <<>> /\ client.fault = Nothing /\ Shape(client) /\ StoreOK(client) /\ OutputsOK(client)
      /\ batch \in Seq(Events) /\ events \in Seq(Events)
      /\ screens \in Nat /\ DOMAIN server = {"known", "shots"}
  BY <1>1, Holding DEF World
<1>3. /\ client' = x /\ requests' = requests /\ phase' = phase /\ app' = app /\ works' = works
      /\ runs' = runs /\ screens' = screens /\ server' = server /\ batch' = batch /\ events' = events
  BY DEF HungUp, OnlyClient
<1>4. /\ Shape(x) /\ x.outputs = client.outputs /\ x.drafts = client.drafts
      /\ x.objects = client.objects /\ x.sent = client.sent /\ x.fault = client.fault /\ x.globals = client.globals
      /\ x.listener = client.listener /\ x.disk = client.disk /\ x.store = client.store /\ ~x.run
  BY <1>2 DEF Shape, Fields, Stop
<1> HIDE DEF x
<1>5. World(x, requests, pending)
  <2>1. StoreOK(x) /\ OutputsOK(x)
    BY <1>2, <1>4 DEF StoreOK, OutputsOK
  <2> QED BY <1>2, <1>4, <2>1 DEF World
<1>6. Stage(x, requests, pending, Len(batch))
  <2>1. Len(batch) = 0
    BY <1>1
  <2>2. GlobalsInTime(x, requests, pending)
    BY <1>2, <1>4 DEF Stage, GlobalsInTime, AsksInit, AnswersInit
  <2>3. Asked(requests, pending) => Early(x)
    BY <1>2, <1>4 DEF Stage, Early
  <2>4. InitKnown(x, requests, pending, Len(batch))
    BY <1>4, <2>1 DEF InitKnown
  <2>5. Asked(requests, pending) => OutputComes(x, requests, pending)
    BY <1>2, <1>4 DEF Stage, OutputComes, BindsInTime, ToldInTime, AsksInit, AnswersInit
  <2>6. Taking(x) /\ FilesOK(x) /\ ParamsOK(x) /\ DeviceOK(x, requests, pending)
    BY <1>2, <1>4 DEF Stage, Taking, FilesOK, ParamsOK, DeviceOK
  <2> QED BY <1>2, <2>2, <2>3, <2>4, <2>5, <2>6 DEF Stage
<1>7. Kept(x.objects)
  BY <1>1, <1>3, <1>4, StaysKept
<1>8. pending' = pending
  BY <1>3 DEF pending
<1> QED BY <1>1, <1>2, <1>3, <1>4, <1>5, <1>6, <1>7, <1>8, GoesOn

LEMMA EndsOK ==
    ASSUME IInv, EndRun \/ Kill PROVE IInv'
<1>1. runs' = runs /\ screens' = screens /\ phase' \in {"ended", "killed"}
  BY DEF EndRun, Kill, Leaves, OnlyClient
<1> QED BY <1>1 DEF IInv

LEMMA ServerEndsOK ==
    ASSUME IInv, ServerEnds PROVE IInv'
<1>1. /\ client' = client /\ requests' = requests /\ phase' = phase /\ app' = app /\ works' = works
      /\ runs' = runs /\ screens' = screens /\ server' = server /\ batch' = batch /\ events' = events
      /\ phase = "running"
  BY DEF ServerEnds
<1>2. pending' = pending
  BY <1>1 DEF pending
<1>3. Kept(client.objects)
  BY <1>1, StaysKept
<1> QED BY <1>1, <1>2, <1>3, Holding, GoesOn


(* What was sent is on its way; the records are the same.                  *)
LEMMA SentCleared ==
    ASSUME NEW x, NEW q, NEW E, NEW n, World(x, q, E), Stage(x, q, E, n)
    PROVE  LET y == [x EXCEPT !.sent = <<>>]
           IN  /\ World(y, q, E) /\ Stage(y, q, E, n) /\ y.sent = <<>> /\ y.fault = x.fault
               /\ y.objects = x.objects
<1> DEFINE y == [x EXCEPT !.sent = <<>>]
<1>1. /\ Shape(y) /\ y.outputs = x.outputs /\ y.drafts = x.drafts
      /\ y.objects = x.objects /\ y.sent = <<>> /\ y.fault = x.fault /\ y.globals = x.globals
      /\ y.listener = x.listener /\ y.disk = x.disk /\ y.store = x.store /\ y.run = x.run
  BY DEF World, Shape, Fields
<1> HIDE DEF y
<1>2. World(y, q, E)
  <2>1. StoreOK(y) /\ OutputsOK(y)
    BY <1>1 DEF World, StoreOK, OutputsOK
  <2> QED BY <1>1, <2>1 DEF World
<1>3. Stage(y, q, E, n)
  <2>1. GlobalsInTime(y, q, E)
    BY <1>1 DEF Stage, GlobalsInTime, AsksInit, AnswersInit
  <2>2. Asked(q, E) => Early(y)
    BY <1>1 DEF Stage, Early
  <2>3. Asked(q, E) => InitKnown(y, q, E, n)
    BY <1>1 DEF Stage, InitKnown, AsksInit, AnswersInit
  <2>4. Asked(q, E) => OutputComes(y, q, E)
    BY <1>1 DEF Stage, OutputComes, BindsInTime, ToldInTime, AsksInit, AnswersInit
  <2>5. Taking(y) /\ FilesOK(y) /\ ParamsOK(y) /\ DeviceOK(y, q, E)
    BY <1>1 DEF Stage, Taking, FilesOK, ParamsOK, DeviceOK
  <2> QED BY <2>1, <2>2, <2>3, <2>4, <2>5 DEF Stage
<1> QED BY <1>1, <1>2, <1>3 DEF y

(* A client that leaves keeps its fault.                                   *)
LEMMA FaultLeft ==
    ASSUME NEW x, Shape(x), NEW how, Leaves(x, how)
    PROVE  client'.fault = x.fault /\ phase' = how
<1>1. PICK y \in {x, ScreenshotDropped(x)} : client' = [y EXCEPT !.sent = <<>>]
  BY DEF Leaves
<1>2. DOMAIN y = Fields /\ y.fault = x.fault
  BY <1>1 DEF Shape, Fields, ScreenshotDropped
<1>3. phase' = how
  BY DEF Leaves
<1> QED BY <1>1, <1>2, <1>3 DEF Fields

LEMMA Fails2 ==
    ASSUME NEW x, Shape(x), NEW why
    PROVE  /\ Shape(Fails(x, why))
           /\ Fails(x, why).fault = IF x.fault = Nothing THEN why ELSE x.fault
BY DEF Shape, Fields, Fails

LEMMA HeadPending ==
    ASSUME IInv, phase = "running", batch # <<>>
    PROVE  /\ pending # <<>> /\ Head(pending) = Head(batch) /\ Tail(pending) = Tail(batch) \o events
           /\ Len(batch) \in 1..Len(pending) /\ Len(Tail(batch)) = Len(batch) - 1
           /\ Tail(batch) \in Seq(Events)
           /\ Before(client, requests, pending, Len(batch))
<1>1. batch \in Seq(Events) /\ events \in Seq(Events) /\ pending = batch \o events
  BY Holding
<1>2. /\ pending # <<>> /\ Head(pending) = Head(batch) /\ Tail(pending) = Tail(batch) \o events
      /\ Len(batch) \in 1..Len(pending) /\ Len(Tail(batch)) = Len(batch) - 1
      /\ Tail(batch) \in Seq(Events)
  <2>1. /\ Len(pending) = Len(batch) + Len(events) /\ Len(batch) \in Nat \ {0} /\ Len(events) \in Nat
        /\ Tail(batch) \in Seq(Events) /\ Len(Tail(batch)) = Len(batch) - 1 /\ Head(batch) = batch[1]
        /\ pending \in Seq(Events) /\ pending[1] = batch[1]
    BY <1>1
  <2>2. Head(pending) = pending[1] /\ pending # <<>>
    BY <2>1
  <2>3. Tail(batch \o events) = Tail(batch) \o events
    BY <1>1
  <2> QED BY <1>1, <2>1, <2>2, <2>3
<1>3. Before(client, requests, pending, Len(batch))
  BY <1>2, Holding DEF Before
<1> QED BY <1>2, <1>3

LEMMA ProcessEventOK ==
    ASSUME IInv, ProcessEvent PROVE IInv'
<1> DEFINE x == Handled(client, Head(batch))
           y == IF gone /\ x.sent # <<>> THEN Fails(x, "server") ELSE x
<1>1. /\ phase = "running" /\ batch # <<>>
      /\ batch' = Tail(batch)
      /\ requests' = IF gone THEN requests ELSE requests \o x.sent
      /\ IF y.fault = Nothing
         THEN client' = [y EXCEPT !.sent = <<>>] /\ UNCHANGED phase
         ELSE Leaves(y, "failed")
      /\ app' = app /\ works' = works /\ runs' = runs /\ screens' = screens /\ server' = server
      /\ events' = events /\ gone' = gone
  BY DEF ProcessEvent, OnlyClient
<1>2. /\ Head(pending) = Head(batch) /\ Tail(pending) = Tail(batch) \o events
      /\ Len(Tail(batch)) = Len(batch) - 1
      /\ Tail(batch) \in Seq(Events)
      /\ Before(client, requests, pending, Len(batch))
  BY <1>1, HeadPending
<1>3. /\ requests \in Seq(Requests) /\ screens \in Nat /\ runs \in Nat \ {0} /\ events \in Seq(Events)
      /\ app \in {"screenshot", "egl", "dmabuf"} /\ DOMAIN server = {"known", "shots"}
  BY <1>1, Holding DEF Typed
<1>4. After(x, requests, pending, Len(batch))
  BY <1>2, <1>3, EventHandled
<1> HIDE DEF x
<1>5. Shape(x) /\ (Goes(x, requests, Tail(pending), Len(batch) - 1) \/ Caused(x))
  BY <1>4 DEF After
<1>6. pending' = Tail(pending)
  BY <1>1, <1>2 DEF pending
<1>7. ASSUME y.fault # Nothing, Shape(y),
             \/ Caused(y)
             \/ y.fault = "server" /\ gone
      PROVE  IInv'
  <2>1. client'.fault = y.fault /\ phase' = "failed"
    BY <1>1, <1>7, FaultLeft
  <2>2. FailsForCause'
    BY <1>1, <1>7, <2>1 DEF FailsForCause, Caused
  <2> QED BY <1>1, <1>3, <2>1, <2>2 DEF IInv
<1>8. CASE Caused(x)
  <2>1. x.fault # Nothing
    BY <1>8 DEF Caused, Nothing
  <2>2. Shape(y) /\ y.fault = x.fault
    BY <1>5, <2>1, Fails2
  <2>3. Caused(y)
    BY <1>8, <2>2 DEF Caused
  <2> QED BY <1>7, <2>1, <2>2, <2>3
<1>9. CASE Goes(x, requests, Tail(pending), Len(batch) - 1)
  <2>1. Good(x, requests, Tail(pending)) /\ Stage(x, requests \o x.sent, Tail(pending), Len(batch) - 1)
    BY <1>9 DEF Goes
  <2>2. x.fault = Nothing /\ x.sent \in Seq(Requests) /\ World(x, requests \o x.sent, Tail(pending))
    BY <2>1 DEF Good
  <2>3. CASE gone /\ x.sent # <<>>
    <3>1. Shape(y) /\ y.fault = "server"
      BY <1>5, <2>2, <2>3, Fails2
    <3> QED BY <1>7, <2>3, <3>1 DEF Nothing
  <2>4. CASE ~(gone /\ x.sent # <<>>)
    <3> DEFINE z == [x EXCEPT !.sent = <<>>]
               q == requests \o x.sent
    <3>1. y = x
      BY <2>4
    <3>2. client' = z /\ phase' = "running"
      BY <1>1, <2>2, <3>1
    <3>3. requests' = q
      BY <1>1, <1>3, <2>4
    <3>4. /\ World(z, q, Tail(pending)) /\ Stage(z, q, Tail(pending), Len(batch) - 1)
          /\ z.sent = <<>> /\ z.fault = Nothing
      BY <2>1, <2>2, SentCleared
    <3> HIDE DEF z, q
    <3>5. Kept(z.objects)
      <4>1. Globals' = Globals
        BY <1>1 DEF Globals
      <4> QED BY <1>1, <3>4, <4>1 DEF World, Core, EventsOK, Kept
    <3> QED BY <1>1, <1>2, <1>3, <1>6, <3>2, <3>3, <3>4, <3>5, GoesOn
  <2> QED BY <2>3, <2>4
<1> QED BY <1>5, <1>8, <1>9

-----------------------------------------------------------------------------
(* The server.                                                             *)
LEMMA ServedShape ==
    ASSUME NEW r, DOMAIN server = {"known", "shots"}
    PROVE  DOMAIN Served(server, r).server = {"known", "shots"}
<1>1. \A id, kind : DOMAIN Knows(server, id, kind) = {"known", "shots"}
  BY DEF Knows
<1>2. DOMAIN GetRegistry(server, r).server = {"known", "shots"}
  BY <1>1 DEF GetRegistry
<1>3. DOMAIN Sync(server, r).server = {"known", "shots"}
  BY DEF Sync
<1>4. DOMAIN RegistryBind(server, r).server = {"known", "shots"}
  BY <1>1 DEF RegistryBind
<1>5. DOMAIN DrmAuthenticate(server, r).server = {"known", "shots"}
  BY DEF DrmAuthenticate
<1>6. DOMAIN DrmCreateBuffer(server, r).server = {"known", "shots"}
  BY <1>1 DEF DrmCreateBuffer
<1>7. DOMAIN ParamsCreate(server, r).server = {"known", "shots"}
  BY <1>1 DEF ParamsCreate
<1>8. DOMAIN ScreenshooterShoot(server, r).server = {"known", "shots"}
  BY DEF ScreenshooterShoot
<1> QED BY <1>1, <1>2, <1>3, <1>4, <1>5, <1>6, <1>7, <1>8 DEF Served

LEMMA ServeOK ==
    ASSUME IInv, Serve PROVE IInv'
<1> DEFINE r == Head(requests)
           told == Served(server, r).told
<1>1. /\ phase = "running" /\ requests # <<>> /\ server' = Served(server, r).server /\ events' = events \o told
      /\ requests' = Tail(requests) /\ client' = client /\ phase' = phase /\ app' = app /\ works' = works
      /\ runs' = runs /\ screens' = screens /\ batch' = batch /\ gone' = gone
  BY DEF Serve
<1>2. /\ Typed /\ World(client, requests, pending) /\ Core(client.objects, requests, pending)
      /\ Stage(client, requests, pending, Len(batch)) /\ client.sent = <<>> /\ client.fault = Nothing
      /\ pending = batch \o events /\ pending \in Seq(Events) /\ batch \in Seq(Events) /\ events \in Seq(Events)
      /\ screens \in Nat /\ DOMAIN server = {"known", "shots"} /\ runs \in Nat \ {0}
  BY <1>1, Holding
<1>3. Core(objects, requests, pending)
  BY <1>2 DEF objects
<1>4. Core(objects, requests, pending)'
  BY <1>2, <1>3, ServeKeepsCore
<1>5. Handleable(r) /\ ShotsOK /\ KnownOK(objects)
  BY <1>1, <1>3, HeadHandleable DEF Core, EventsOK, ShotsOK
<1>6. MayTell(r, told) /\ MayKnow(r)
  BY <1>1, <1>2, <1>5, ServedMay
<1>7. told \in Seq(Events) /\ Answers(client.objects, r, told)
  <2>1. Answers(objects, r, told)
    BY <1>2, <1>5, ServedAnswers
  <2> QED BY <1>6, <2>1 DEF MayTell, objects
<1> HIDE DEF told
<1>8. pending' = pending \o told
  BY <1>1, <1>2, <1>7 DEF pending
<1>9. Stage(client, Tail(requests), pending \o told, Len(batch))
  <2>1. Len(batch) \in 0..Len(pending)
    BY <1>2
  <2> QED BY <1>1, <1>2, <1>7, <2>1, ServeKeepsStage
<1>10. Stage(client, requests, pending, Len(batch))'
  BY <1>1, <1>8, <1>9, StageMoves
<1>11. Globals' = Globals
  BY <1>1 DEF Globals
<1>12. World(client, requests, pending)'
  <2>1. Shape(client) /\ StoreOK(client) /\ OutputsOK(client)
    BY <1>2 DEF World
  <2>2. Shape(client)' /\ OutputsOK(client)'
    BY <1>1, <2>1 DEF Shape, OutputsOK, Is
  <2>3. StoreOK(client)'
    BY <1>1, <1>11, <2>1 DEF StoreOK, Is
  <2> QED BY <1>4, <2>2, <2>3 DEF World, objects
<1>13. DOMAIN server' = {"known", "shots"}
  BY <1>1, <1>2, ServedShape
<1>14. Typed'
  <2>1. requests' \in Seq(Requests) /\ server'.shots \in Seq(Events)
    BY <1>4 DEF Core
  <2>2. batch' \in Seq(Events) /\ events' \in Seq(Events)
    BY <1>1, <1>2, <1>7
  <2> QED BY <1>1, <1>2, <1>13, <2>1, <2>2 DEF Typed
<1> QED BY <1>1, <1>2, <1>10, <1>12, <1>14 DEF IInv


(* The client is told that a screenshot was taken.                         *)
LEMMA CoreTold ==
    ASSUME NEW o, NEW q, NEW E, Core(o, q, E), NEW e \in Events, EventOK(o, e), e.what = "shot"
    PROVE  Core(o, q, Append(E, e))
<1> DEFINE F == Append(E, e)
<1>1. E \in Seq(Events) /\ o[e.to] = "screenshooter"
  BY DEF Core, EventOK, Recipient
<1>2. /\ F \in Seq(Events) /\ Len(F) = Len(E) + 1 /\ Len(E) \in Nat /\ F[Len(E) + 1] = e
      /\ \A k \in 1..Len(E) : F[k] = E[k]
      /\ \A k \in 1..Len(F) : k \in 1..Len(E) \/ k = Len(E) + 1
  BY <1>1, Appending
<1> HIDE DEF F
<1>3. EventsOK(o, E) /\ DeletesOK(q, E) /\ MakesOK(o, q)
  BY DEF Core
<1>4. EventsOK(o, F)
  BY <1>2, <1>3 DEF EventsOK
<1>5. \A k \in 1..Len(F) : F[k].what = "delete_id" => k \in 1..Len(E) /\ F[k] = E[k] /\ o[F[k].of] \in Callbacks
  BY <1>2, <1>3 DEF EventsOK, EventOK
<1>6. o[e.to] \notin Callbacks
  BY <1>1 DEF Callbacks
<1>7. DeletesOK(q, F)
  <2>1. ASSUME NEW k \in 1..Len(F), NEW m \in 1..Len(F), F[k].what = "delete_id"
        PROVE  /\ Deletes(F[m], F[k].of) => k = m
               /\ k < m => F[m].to # F[k].of
    <3>1. k \in 1..Len(E) /\ F[k] = E[k] /\ o[F[k].of] \in Callbacks
      BY <1>5, <2>1
    <3>2. CASE m \in 1..Len(E)
      BY <1>2, <1>3, <2>1, <3>1, <3>2 DEF DeletesOK
    <3>3. CASE m = Len(E) + 1
      BY <1>2, <1>6, <3>1, <3>3 DEF Deletes
    <3> QED BY <1>2, <3>2, <3>3
  <2>2. ASSUME NEW k \in 1..Len(F), NEW i \in 1..Len(q)
        PROVE  /\ F[k].what = "delete_id" => q[i].id # F[k].of
               /\ q[i].what = "sync" => F[k].to # q[i].id
    <3>1. CASE k \in 1..Len(E)
      BY <1>2, <1>3, <3>1 DEF DeletesOK
    <3>2. CASE k = Len(E) + 1
      <4>1. F[k] = e
        BY <1>2, <3>2
      <4>2. q[i].what = "sync" => o[q[i].id] \in Callbacks
        BY <1>3 DEF MakesOK
      <4> QED BY <1>6, <4>1, <4>2
    <3> QED BY <1>2, <3>1, <3>2
  <2> QED BY <2>1, <2>2 DEF DeletesOK
<1> QED BY <1>2, <1>4, <1>7 DEF Core, F

LEMMA StageTold ==
    ASSUME NEW x, NEW q, NEW E, NEW n \in 0..Len(E), E \in Seq(Events), Stage(x, q, E, n),
           NEW e \in Events, e.what = "shot"
    PROVE  Stage(x, q, Append(E, e), n)
<1> DEFINE F == Append(E, e)
<1>1. /\ F \in Seq(Events) /\ Len(F) = Len(E) + 1 /\ Len(E) \in Nat /\ F[Len(E) + 1] = e
      /\ \A k \in 1..Len(E) : F[k] = E[k]
      /\ \A k \in 1..Len(F) : k \in 1..Len(E) \/ k = Len(E) + 1
  BY Appending
<1> HIDE DEF F
<1>2. \A k \in 1..Len(F) : F[k].what \in {"done", "global", "authenticated"} => k \in 1..Len(E) /\ F[k] = E[k]
  BY <1>1
<1>3. \A k \in 1..Len(F) : AnswersInit(x, F[k]) => k \in 1..Len(E) /\ AnswersInit(x, E[k])
  BY <1>2 DEF AnswersInit
<1>4. AskedOnce(q, F)
  BY <1>2 DEF Stage, AskedOnce
<1>5. GlobalsInTime(x, q, F)
  <2>1. GlobalsInTime(x, q, E)
    BY DEF Stage
  <2>2. Announces(q, F) => Announces(q, E)
    BY <1>2 DEF Announces
  <2> QED BY <1>2, <1>3, <2>1, <2>2 DEF GlobalsInTime
<1>6. Asked(q, F) => Asked(q, E)
  BY <1>2 DEF Asked
<1>7. InitKnown(x, q, E, n) => InitKnown(x, q, F, n)
  BY <1>1, <1>3 DEF InitKnown
<1>8. OutputComes(x, q, E) => OutputComes(x, q, F)
  <2>1. \A o : BindsInTime(x, q, E, o) => BindsInTime(x, q, F, o)
    BY <1>3 DEF BindsInTime
  <2>2. ASSUME NEW o, ToldInTime(x, E, o) PROVE ToldInTime(x, F, o)
    <3>1. PICK k \in 1..Len(E) :
            /\ E[k].what = "output_done" /\ E[k].to = o
            /\ \A m \in 1..(k - 1) : ~AnswersInit(x, E[m])
            /\ x.drafts[o].width # 0 \/ \E m \in 1..(k - 1) : E[m].what = "mode" /\ E[m].to = o
      BY <2>2 DEF ToldInTime
    <3>2. k \in 1..Len(F) /\ F[k] = E[k] /\ \A m \in 1..(k - 1) : m \in 1..Len(E) /\ F[m] = E[m]
      BY <1>1
    <3> QED BY <3>1, <3>2 DEF ToldInTime
  <2> QED BY <2>1, <2>2 DEF OutputComes
<1>9. DeviceOK(x, q, F)
  BY <1>2 DEF Stage, DeviceOK
<1> QED BY <1>4, <1>5, <1>6, <1>7, <1>8, <1>9 DEF Stage, F

LEMMA ScreenshotTakenOK ==
    ASSUME IInv, ScreenshotTaken PROVE IInv'
<1> DEFINE shots == server.shots
           e == Head(shots)
           E == Append(pending, e)
<1>1. /\ phase = "running" /\ shots # <<>> /\ events' = Append(events, e)
      /\ server' = [server EXCEPT !.shots = Tail(@)]
      /\ requests' = requests /\ client' = client /\ phase' = phase /\ app' = app /\ works' = works
      /\ runs' = runs /\ screens' = screens /\ batch' = batch
  BY DEF ScreenshotTaken
<1>2. /\ World(client, requests, pending) /\ Core(client.objects, requests, pending)
      /\ Stage(client, requests, pending, Len(batch)) /\ client.sent = <<>> /\ client.fault = Nothing
      /\ pending = batch \o events /\ pending \in Seq(Events) /\ batch \in Seq(Events) /\ events \in Seq(Events)
      /\ screens \in Nat /\ DOMAIN server = {"known", "shots"}
  BY <1>1, Holding
<1>3. /\ server'.known = server.known /\ server'.shots = Tail(shots) /\ DOMAIN server' = {"known", "shots"}
  BY <1>1, <1>2
<1>4. /\ shots \in Seq(Events)
      /\ \A k \in 1..Len(shots) : EventOK(client.objects, shots[k]) /\ shots[k].what = "shot"
  BY <1>2 DEF Core, EventsOK
<1> HIDE DEF shots
<1>5. /\ Tail(shots) \in Seq(Events) /\ e = shots[1] /\ 1 \in 1..Len(shots) /\ e \in Events
      /\ \A k \in 1..Len(Tail(shots)) : k + 1 \in 1..Len(shots) /\ Tail(shots)[k] = shots[k + 1]
  BY <1>1, <1>4, Tailing
<1> HIDE DEF e
<1>6. EventOK(client.objects, e) /\ e.what = "shot"
  BY <1>4, <1>5
<1>7. Kept(client.objects)
  <2>1. Globals' = Globals
    BY <1>1 DEF Globals
  <2>2. \A k \in 1..Len(Tail(shots)) : EventOK(client.objects, Tail(shots)[k]) /\ Tail(shots)[k].what = "shot"
    BY <1>4, <1>5
  <2> QED BY <1>3, <1>5, <2>1, <2>2 DEF Kept
<1>8. pending' = E /\ events' \in Seq(Events)
  <2>1. batch \o Append(events, e) = Append(batch \o events, e)
    BY <1>2, <1>5
  <2> QED BY <1>1, <1>2, <1>5, <2>1 DEF pending
<1>9. World(client, requests, E)
  <2>1. Core(client.objects, requests, E)
    BY <1>2, <1>5, <1>6, CoreTold
  <2> QED BY <1>2, <2>1 DEF World
<1>10. Stage(client, requests, E, Len(batch))
  <2>1. Len(batch) \in 0..Len(pending)
    BY <1>2
  <2> QED BY <1>2, <1>5, <1>6, <2>1, StageTold
<1> HIDE DEF E
<1> QED BY <1>1, <1>2, <1>3, <1>7, <1>8, <1>9, <1>10, GoesOn

LEMMA GlobalsGrow ==
    ASSUME screens \in Nat, screens' = screens + 1
    PROVE  \A i \in DOMAIN Globals : i \in DOMAIN Globals' /\ Globals'[i] = Globals[i]
<1> DEFINE a == [i \in 1..screens |-> "output"]
           b == [i \in 1..(screens + 1) |-> "output"]
<1>1. Globals = Announced \o a /\ Globals' = Announced \o b
  BY DEF Globals
<1>2. Announced \in Seq(Interfaces) /\ a \in Seq(Interfaces) /\ b \in Seq(Interfaces)
  <2>1. Announced \in Seq(Interfaces)
    BY DEF Announced, Interfaces
  <2>2. "output" \in Interfaces
    BY DEF Interfaces
  <2>3. a \in Seq(Interfaces)
    BY <2>2
  <2>4. b \in Seq(Interfaces)
    <3>1. screens + 1 \in Nat
      OBVIOUS
    <3> QED BY <2>2, <3>1
  <2> QED BY <2>1, <2>3, <2>4
<1>3. Len(a) = screens /\ Len(b) = screens + 1 /\ \A i \in 1..screens : a[i] = b[i]
  OBVIOUS
<1> HIDE DEF a, b
<1>4. /\ DOMAIN (Announced \o a) = 1..(Len(Announced) + screens)
      /\ DOMAIN (Announced \o b) = 1..(Len(Announced) + screens + 1) /\ Len(Announced) \in Nat
  BY <1>2, <1>3
<1>5. ASSUME NEW i \in 1..(Len(Announced) + screens)
      PROVE  (Announced \o a)[i] = (Announced \o b)[i]
  <2>1. CASE i \in 1..Len(Announced)
    BY <1>2, <2>1
  <2>2. CASE i \notin 1..Len(Announced)
    <3>1. i - Len(Announced) \in 1..screens
      BY <1>4, <2>2
    <3>2. /\ (Announced \o a)[i] = a[i - Len(Announced)]
          /\ (Announced \o b)[i] = b[i - Len(Announced)]
      BY <1>2, <1>3, <1>4, <2>2, <3>1
    <3> QED BY <1>3, <3>1, <3>2
  <2> QED BY <2>1, <2>2
<1> QED BY <1>1, <1>4, <1>5

LEMMA CreateDisplayOK ==
    ASSUME IInv, CreateDisplay PROVE IInv'
<1>1. /\ client' = client /\ requests' = requests /\ phase' = phase /\ app' = app /\ works' = works
      /\ runs' = runs /\ screens' = screens + 1 /\ server' = server /\ batch' = batch /\ events' = events
      /\ gone' = gone
  BY DEF CreateDisplay
<1>2. runs \in Nat \ {0} /\ screens \in Nat
  BY DEF IInv
<1>3. CASE phase = "running"
  <2>1. /\ World(client, requests, pending) /\ Stage(client, requests, pending, Len(batch))
        /\ client.sent = <<>> /\ client.fault = Nothing
        /\ batch \in Seq(Events) /\ events \in Seq(Events) /\ DOMAIN server = {"known", "shots"}
    BY <1>3, Holding
  <2>2. Kept(client.objects)
    BY <1>1, <1>2, <2>1, GlobalsGrow DEF World, Core, EventsOK, Kept
  <2>3. pending' = pending
    BY <1>1 DEF pending
  <2> QED BY <1>1, <1>2, <1>3, <2>1, <2>2, <2>3, GoesOn
<1>4. CASE phase # "running"
  <2>1. phase = "failed" => FailsForCause'
    BY <1>1 DEF IInv, FailsForCause
  <2> QED BY <1>1, <1>2, <1>4, <2>1 DEF IInv
<1> QED BY <1>3, <1>4


-----------------------------------------------------------------------------
(* An application that starts.                                             *)
Beginning == With(Empty, DisplayId, "display")

LEMMA AppendsTwo ==
    ASSUME NEW S, NEW q \in Seq(S), NEW r \in S, NEW s \in S
    PROVE  q \o <<r, s>> = Append(Append(q, r), s)
OBVIOUS

LEMMA Two ==
    ASSUME NEW S, NEW r \in S, NEW s \in S
    PROVE  Append(Append(<<>>, r), s) = <<r, s>> /\ Append(<<r>>, s) = <<r, s>>
<1>1. <<>> \in Seq(S) /\ <<r, s>> \in Seq(S) /\ Append(<<>>, r) = <<r>>
  OBVIOUS
<1>2. <<>> \o <<r, s>> = Append(Append(<<>>, r), s)
  BY <1>1, AppendsTwo
<1>3. <<>> \o <<r, s>> = <<r, s>>
  BY <1>1
<1> QED BY <1>1, <1>2, <1>3

LEMMA StartedFields ==
    ASSUME NEW files
    PROVE  \E a, b \in Nat \ {0} :
            LET x == Started(files)
                o == With(Beginning, a, "registry")
            IN  /\ a \notin DOMAIN Beginning /\ b \notin DOMAIN o
                /\ x.objects = With(o, b, "globals_done")
                /\ x.sent = <<Request("get_registry", DisplayId, a, 0), Request("sync", DisplayId, b, 0)>>
                /\ Shape(x) /\ x.drafts = Empty /\ x.store = [Store EXCEPT !.registry = a] /\ x.globals = {}
                /\ x.outputs = <<>> /\ x.listener = Listener /\ x.run = TRUE /\ x.disk = files
                /\ x.fault = Nothing
<1> DEFINE c == Client(files)
           d == AddObject(c, DisplayId, "display")
           a == Free(d)
           y == Create(d, "registry", "get_registry", DisplayId)
           b == Free(y)
           z == Create(y, "globals_done", "sync", DisplayId)
           x == [z EXCEPT !.store.registry = a]
           r == Request("get_registry", DisplayId, a, 0)
           s == Request("sync", DisplayId, b, 0)
<1>1. /\ Shape(c) /\ c.objects = Empty /\ c.drafts = Empty /\ c.store = Store /\ c.globals = {}
      /\ c.outputs = <<>> /\ c.listener = Listener /\ c.run = TRUE /\ c.disk = files
      /\ c.sent = <<>> /\ c.fault = Nothing
  <2>1. DOMAIN Store = Known \union {"name", "device", "screenshot"}
    BY DEF Store, Known
  <2>2. DOMAIN Listener = {"outputs", "image", "offset", "saved", "fd"}
    BY DEF Listener
  <2> HIDE DEF Store, Listener
  <2>3. c = [objects |-> Empty, drafts |-> Empty, store |-> Store, globals |-> {}, outputs |-> <<>>,
             listener |-> Listener, run |-> TRUE, disk |-> files, sent |-> <<>>, fault |-> Nothing]
    BY DEF Client
  <2> HIDE DEF c
  <2> QED BY <2>1, <2>2, <2>3 DEF Shape, Fields
<1> HIDE DEF c
<1>2. /\ Shape(d) /\ Rest(c, d) /\ d.objects = Beginning /\ d.sent = <<>>
  BY <1>1 DEF AddObject, Beginning, Shape, Fields, Rest
<1> HIDE DEF d
<1>3. DOMAIN Beginning = {DisplayId}
  BY DEF Beginning, With, Empty
<1>4. IsFiniteSet({DisplayId}) /\ IsFiniteSet({DisplayId} \union {a})
  BY FS_Singleton, FS_AddElement
<1>5. a \in Nat \ {0} /\ a \notin DOMAIN Beginning
  BY <1>2, <1>3, <1>4, FreeIsFree
<1> HIDE DEF a
<1>6. /\ Shape(y) /\ Rest(d, y) /\ y.objects = With(Beginning, a, "registry")
      /\ y.sent = Append(d.sent, r)
  BY <1>2, CreateFields DEF a
<1> HIDE DEF y
<1>7. DOMAIN y.objects = {DisplayId} \union {a}
  BY <1>3, <1>6 DEF With
<1>8. b \in Nat \ {0} /\ b \notin DOMAIN y.objects
  BY <1>4, <1>7, FreeIsFree
<1> HIDE DEF b
<1>9. /\ Shape(z) /\ Rest(y, z) /\ z.objects = With(y.objects, b, "globals_done")
      /\ z.sent = Append(y.sent, s)
  BY <1>6, CreateFields DEF b
<1> HIDE DEF z
<1>10. Started(files) = x
  BY DEF Started, c, d, a, y, z
<1>11. /\ Shape(x) /\ x.objects = z.objects /\ x.drafts = z.drafts /\ x.globals = z.globals
       /\ x.outputs = z.outputs /\ x.listener = z.listener /\ x.run = z.run /\ x.disk = z.disk
       /\ x.fault = z.fault /\ x.sent = z.sent /\ x.store = [z.store EXCEPT !.registry = a]
  BY <1>9 DEF Shape, Fields
<1> HIDE DEF x
<1>12. /\ x.drafts = Empty /\ x.globals = {} /\ x.outputs = <<>> /\ x.listener = Listener /\ x.run = TRUE
       /\ x.disk = files /\ x.fault = Nothing /\ x.store = [Store EXCEPT !.registry = a]
  <2>1. Rest(c, z)
    BY <1>2, <1>6, <1>9, RestOn
  <2> QED BY <1>1, <1>11, <2>1 DEF Rest
<1>13. x.sent = <<r, s>>
  <2>1. r \in Requests /\ s \in Requests
    <3>1. "get_registry" \in Makers /\ DisplayId \in Int
      BY DEF Makers, DisplayId
    <3> QED BY <1>5, <1>8, <3>1, IsRequest
  <2> HIDE DEF r, s
  <2>2. x.sent = Append(Append(<<>>, r), s)
    BY <1>2, <1>6, <1>9, <1>11
  <2> QED BY <2>1, <2>2, Two
<1>14. x.objects = With(With(Beginning, a, "registry"), b, "globals_done")
  BY <1>6, <1>9, <1>11
<1> QED BY <1>5, <1>6, <1>8, <1>10, <1>11, <1>12, <1>13, <1>14 DEF r, s

Starting ==
    /\ runs \in Nat \ {0} /\ screens \in Nat /\ app \in {"screenshot", "egl", "dmabuf"}
    /\ works \subseteq {"path", "device", "magic", "window", "import", "capture"}
    /\ phase = "running" /\ batch = <<>> /\ events = <<>> /\ server = NoObjects
    /\ \E files :
        /\ client = [Started(files) EXCEPT !.sent = <<>>] /\ requests = Started(files).sent
        /\ runs = 1 => files = {}

LEMMA StartingOK == Starting => IInv
<1> SUFFICES ASSUME Starting PROVE IInv
  OBVIOUS
<1>1. PICK files :
        /\ client = [Started(files) EXCEPT !.sent = <<>>] /\ requests = Started(files).sent
        /\ runs = 1 => files = {}
  BY DEF Starting
<1> DEFINE x == Started(files)
<1>2. PICK a \in Nat \ {0}, b \in Nat \ {0} :
        /\ a \notin DOMAIN Beginning /\ b \notin DOMAIN With(Beginning, a, "registry")
        /\ x.objects = With(With(Beginning, a, "registry"), b, "globals_done")
        /\ x.sent = <<Request("get_registry", DisplayId, a, 0), Request("sync", DisplayId, b, 0)>>
        /\ Shape(x) /\ x.drafts = Empty /\ x.store = [Store EXCEPT !.registry = a] /\ x.globals = {}
        /\ x.outputs = <<>> /\ x.listener = Listener /\ x.run = TRUE /\ x.disk = files
        /\ x.fault = Nothing
  BY StartedFields
<1> DEFINE o == With(Beginning, a, "registry")
           u == With(o, b, "globals_done")
           r == Request("get_registry", DisplayId, a, 0)
           s == Request("sync", DisplayId, b, 0)
<1> HIDE DEF x
<1>3. DOMAIN Beginning = {DisplayId} /\ Beginning[DisplayId] = "display"
  BY DEF Beginning, With, Empty
<1>4. /\ DOMAIN o = {DisplayId, a} /\ o[DisplayId] = "display" /\ o[a] = "registry" /\ Extends(Beginning, o)
      /\ a # DisplayId
  BY <1>2, <1>3 DEF With, Extends
<1>5. /\ DOMAIN u = {DisplayId, a, b} /\ u[DisplayId] = "display" /\ u[a] = "registry" /\ u[b] = "globals_done"
      /\ Extends(o, u) /\ b # DisplayId /\ b # a
  BY <1>2, <1>4 DEF With, Extends
<1> HIDE DEF o, u
<1>6. /\ r \in Requests /\ r.what = "get_registry" /\ r.to = DisplayId /\ r.id = a
      /\ s \in Requests /\ s.what = "sync" /\ s.to = DisplayId /\ s.id = b
  <2>1. "get_registry" \in Makers /\ DisplayId \in Int /\ a \in Int /\ b \in Int
    BY DEF Makers, DisplayId
  <2> QED BY <2>1, IsRequest
<1> HIDE DEF r, s
<1>7. /\ DOMAIN server.known = {DisplayId} /\ server.known[DisplayId][1] = "display" /\ server.shots = <<>>
      /\ DOMAIN server = {"known", "shots"}
  BY DEF Starting, NoObjects, With, Empty
<1>8. Core(Beginning, <<>>, <<>>)
  <2>1. KnownOK(Beginning)
    BY <1>3, <1>7 DEF KnownOK, Is, DisplayId, Callbacks
  <2>2. MakesOK(Beginning, <<>>)
    BY DEF MakesOK
  <2>3. ObjectsSure(Beginning, <<>>)
    BY <1>3, <1>7 DEF ObjectsSure, Sure
  <2>4. TargetsOK(Beginning, <<>>)
    BY DEF TargetsOK
  <2>5. EventsOK(Beginning, <<>>)
    BY <1>7 DEF EventsOK
  <2>6. DeletesOK(<<>>, <<>>)
    BY DEF DeletesOK
  <2>7. ObjectsOK(Beginning)
    BY <1>3, FS_Singleton DEF ObjectsOK, Is, DisplayId, ServerId
  <2>8. <<>> \in Seq(Requests) /\ <<>> \in Seq(Events) /\ server.shots \in Seq(Events)
    BY <1>7
  <2> QED BY <2>1, <2>2, <2>3, <2>4, <2>5, <2>6, <2>7, <2>8 DEF Core
<1>9. Core(o, <<r>>, <<>>)
  <2>1. MaySend(Beginning, o, r)
    <3>1. "get_registry" \in Makers /\ "get_registry" \notin Others /\ Target("get_registry") = "display"
          /\ a # ServerId /\ "registry" \notin Callbacks
      BY DEF Makers, Others, Target, ServerId, Callbacks
    <3>2. Makes(r) = "registry"
      BY <1>6 DEF Makes
    <3> QED BY <1>2, <1>3, <1>4, <1>6, <3>1, <3>2 DEF MaySend, Is
  <2>2. Core(o, Append(<<>>, r), <<>>)
    BY <1>4, <1>8, <2>1, CoreSends
  <2> QED BY <2>2
<1>10. Core(u, <<r, s>>, <<>>)
  <2>1. MaySend(o, u, s)
    <3>1. "sync" \notin Makers /\ "sync" \notin Others /\ Target("sync") = "display"
          /\ b # ServerId /\ "globals_done" \in Callbacks
      BY DEF Makers, Others, Target, ServerId, Callbacks
    <3> QED BY <1>4, <1>5, <1>6, <3>1 DEF MaySend, Is
  <2>2. Core(u, Append(<<r>>, s), <<>>)
    BY <1>5, <1>9, <2>1, CoreSends
  <2>3. Append(<<r>>, s) = <<r, s>>
    BY <1>6, Two
  <2> QED BY <2>2, <2>3
<1>11. /\ Shape(client) /\ client.objects = u /\ client.drafts = Empty /\ client.store = [Store EXCEPT !.registry = a]
       /\ client.globals = {} /\ client.outputs = <<>> /\ client.listener = Listener /\ client.run = TRUE
       /\ client.disk = files /\ client.fault = Nothing /\ client.sent = <<>>
  BY <1>1, <1>2 DEF Shape, Fields, u, o, x
<1>12. requests = <<r, s>>
  BY <1>1, <1>2 DEF r, s, x
<1>13. /\ client.store.registry = a /\ client.store.name = 0 /\ client.store.screenshot = 0
       /\ client.store.screenshooter = 0
       /\ \A f \in Known \ {"registry"} : client.store[f] = 0
  BY <1>11 DEF Store, Known
<1>14. client.listener.outputs = <<>>
  BY <1>11 DEF Listener
<1>15. pending = <<>>
  BY DEF pending, Starting
<1>16. World(client, requests, pending)
  <2>1. StoreOK(client)
    <3>1. ASSUME NEW f \in Known, client.store[f] # 0 PROVE Is(client.objects, client.store[f], f)
      BY <1>5, <1>11, <1>13, <3>1 DEF Is
    <3> QED BY <1>11, <1>13, <3>1 DEF StoreOK
  <2>2. OutputsOK(client)
    BY <1>5, <1>11, <1>14 DEF OutputsOK
  <2> QED BY <1>10, <1>11, <1>12, <1>15, <2>1, <2>2 DEF World
<1>17. /\ Len(requests) = 2 /\ requests[1] = r /\ requests[2] = s
       /\ \A i \in 1..Len(requests) : i = 1 \/ i = 2
  BY <1>12
<1>18. Stage(client, requests, pending, Len(batch))
  <2>1. AskedOnce(requests, pending)
    BY <1>6, <1>15, <1>17 DEF AskedOnce
  <2>2. \A i \in 1..Len(requests) : ~AsksInit(client, requests[i])
    BY <1>5, <1>6, <1>11, <1>17 DEF AsksInit
  <2>3. GlobalsInTime(client, requests, pending)
    BY <1>6, <1>15, <1>17, <2>2 DEF GlobalsInTime
  <2>4. Early(client)
    BY <1>5, <1>11, <1>13, <1>14 DEF Early
  <2>5. InitKnown(client, requests, pending, Len(batch))
    BY <1>15, <2>2 DEF InitKnown
  <2>6. OutputComes(client, requests, pending)
    BY <1>11 DEF OutputComes
  <2>7. Taking(client) /\ FilesOK(client) /\ ParamsOK(client)
    BY <1>1, <1>5, <1>11, <1>13 DEF Taking, FilesOK, ParamsOK
  <2>8. DeviceOK(client, requests, pending)
    BY <1>6, <1>15, <1>17 DEF DeviceOK
  <2> QED BY <2>1, <2>3, <2>4, <2>5, <2>6, <2>7, <2>8 DEF Stage
<1>19. Typed
  BY <1>7, <1>10, <1>12 DEF Typed, Starting, Core
<1> QED BY <1>11, <1>16, <1>18, <1>19 DEF IInv, Starting

LEMMA DependsOn ==
    ASSUME NEW a \in {"screenshot", "egl", "dmabuf"}
    PROVE  \A w \in SUBSET Depends(a) : w \subseteq {"path", "device", "magic", "window", "import", "capture"}
BY DEF Depends

LEMMA InitOK == Init => IInv
<1> SUFFICES ASSUME Init PROVE IInv
  OBVIOUS
<1>1. app \in {"screenshot", "egl", "dmabuf"}
  BY AppsAssumption DEF Init
<1>2. works \subseteq {"path", "device", "magic", "window", "import", "capture"}
  BY <1>1, DependsOn DEF Init
<1>3. Starting
  <2>1. \E files :
        /\ client = [Started(files) EXCEPT !.sent = <<>>] /\ requests = Started(files).sent
        /\ runs = 1 => files = {}
    BY DEF Init
  <2> QED BY <1>1, <1>2, <2>1 DEF Init, Starting
<1> QED BY <1>3, StartingOK

LEMMA RerunStarts ==
    ASSUME IInv, NEW a \in Apps, Rerun(a) PROVE Starting'
<1>1. /\ runs' = runs + 1 /\ screens' = screens /\ app' = a /\ works' \in SUBSET Depends(a)
      /\ requests' = Started(client.disk).sent /\ client' = [Started(client.disk) EXCEPT !.sent = <<>>]
      /\ phase' = "running" /\ batch' = <<>> /\ events' = <<>> /\ server' = NoObjects
  BY DEF Rerun, Starts
<1>2. a \in {"screenshot", "egl", "dmabuf"}
  BY AppsAssumption
<1>3. works' \subseteq {"path", "device", "magic", "window", "import", "capture"}
  BY <1>1, <1>2, DependsOn
<1>4. runs' \in Nat \ {0} /\ runs' # 1 /\ screens' \in Nat
  BY <1>1 DEF IInv
<1>5. server' = NoObjects'
  BY <1>1 DEF NoObjects
<1>6. \E files :
        /\ client' = [Started(files) EXCEPT !.sent = <<>>]' /\ requests' = Started(files)'.sent
        /\ runs' = 1 => files = {}
  <2>1. PICK files : files = client.disk
    OBVIOUS
  <2> QED BY <1>1, <1>4, <2>1
<1> QED BY <1>1, <1>2, <1>3, <1>4, <1>5, <1>6 DEF Starting

-----------------------------------------------------------------------------
LEMMA StepOK == IInv /\ [Next]_vars => IInv'
<1> SUFFICES ASSUME IInv, [Next]_vars PROVE IInv'
  OBVIOUS
<1>1. CASE UNCHANGED vars
  <2>1. /\ client' = client /\ requests' = requests /\ phase' = phase /\ app' = app /\ works' = works
        /\ runs' = runs /\ screens' = screens /\ server' = server /\ batch' = batch /\ events' = events
        /\ gone' = gone
    BY <1>1 DEF vars
  <2>2. runs' \in Nat \ {0} /\ screens' \in Nat
    BY <2>1 DEF IInv
  <2>3. CASE phase = "running"
    <3>1. pending' = pending
      BY <2>1 DEF pending
    <3>2. Kept(client.objects)
      BY <2>1, <2>3, StaysKept
    <3> QED BY <2>1, <2>2, <2>3, <3>1, <3>2, Holding, GoesOn
  <2>4. CASE phase # "running"
    <3>1. phase = "failed" => FailsForCause'
      BY <2>1 DEF IInv, FailsForCause
    <3> QED BY <2>1, <2>2, <2>4, <3>1 DEF IInv
  <2> QED BY <2>3, <2>4
<1>2. CASE ReadEvents
  BY <1>2, ReadEventsOK
<1>3. CASE ProcessEvent
  BY <1>3, ProcessEventOK
<1>4. CASE EndRun \/ Kill
  BY <1>4, EndsOK
<1>5. CASE HungUp
  BY <1>5, HungUpOK
<1>6. CASE Serve
  BY <1>6, ServeOK
<1>7. CASE ScreenshotTaken
  BY <1>7, ScreenshotTakenOK
<1>8. CASE CreateDisplay
  BY <1>8, CreateDisplayOK
<1>9. CASE ServerEnds
  BY <1>9, ServerEndsOK
<1>10. ASSUME NEW a \in Apps, Rerun(a) PROVE IInv'
  <2>1. Starting'
    BY <1>10, RerunStarts
  <2>2. Starting' => IInv'
    BY StartingOK, PTL
  <2> QED BY <2>1, <2>2
<1> QED BY <1>1, <1>2, <1>3, <1>4, <1>5, <1>6, <1>7, <1>8, <1>9, <1>10 DEF Next

(* What the client and the server agree on: the objects the client has     *)
(* made are those the server knows or will know when it has handled the    *)
(* requests on their way, every event on its way finds its object, and the *)
(* application is at the stage its listeners of callback.rs expect.        *)
THEOREM Invariant == Spec => []IInv
<1>1. Init => IInv
  BY InitOK
<1>2. IInv /\ [Next]_vars => IInv'
  BY StepOK
<1> QED BY <1>1, <1>2, PTL DEF Spec

LEMMA Agreement == IInv => Understood
<1> SUFFICES ASSUME IInv PROVE Understood
  OBVIOUS
<1>1. EventsFind
  <2> SUFFICES ASSUME batch # <<>>, phase = "running" PROVE Finds(client, Head(batch))
    BY DEF EventsFind
  <2>1. Head(pending) = Head(batch) /\ Before(client, requests, pending, Len(batch))
    BY HeadPending
  <2>2. EventOK(client.objects, Head(batch))
    BY <2>1, Handles
  <2> QED BY <2>2 DEF EventOK, Finds
<1>2. RequestsFind
  <2> SUFFICES ASSUME requests # <<>>, phase = "running"
               PROVE  LET r == Head(requests)
                      IN  /\ IsKnown(r.to, Target(r.what))
                          /\ r.id \notin DOMAIN server.known
                          /\ r.what = "shoot" =>
                                IsKnown(r.of.output, "output") /\ IsKnown(r.of.buffer, "shm_buffer")
    BY DEF RequestsFind
  <2> DEFINE r == Head(requests)
  <2>1. Core(objects, requests, pending)
    BY Holding DEF objects
  <2>2. Handleable(r)
    BY <2>1, HeadHandleable
  <2>3. KnownOK(objects) /\ ObjectsOK(objects) /\ MakesOK(objects, requests) /\ requests \in Seq(Requests)
    BY <2>1 DEF Core
  <2>4. ASSUME NEW id \in DOMAIN server.known, NEW kind, Is(objects, id, kind), kind \notin Loose
        PROVE  IsKnown(id, kind)
    <3>1. id # ServerId
      BY <2>3, <2>4 DEF ObjectsOK, Is, Loose
    <3> QED BY <2>3, <2>4, <3>1 DEF KnownOK, Is, IsKnown
  <2>5. IsKnown(r.to, Target(r.what))
    BY <2>2, <2>4, TargetNotLoose DEF Handleable
  <2>6. r.id \notin DOMAIN server.known
    <3>1. r = requests[1] /\ 1 \in 1..Len(requests)
      BY <2>3, Tailing
    <3>2. r.id # 0 => r.id \notin DOMAIN server.known
      BY <2>3, <3>1 DEF MakesOK
    <3>3. 0 \notin DOMAIN server.known
      BY <2>3 DEF KnownOK
    <3> QED BY <3>2, <3>3
  <2>7. "output" \notin Loose /\ "shm_buffer" \notin Loose
    BY DEF Loose, Callbacks
  <2>8. r.what = "shoot" => IsKnown(r.of.output, "output") /\ IsKnown(r.of.buffer, "shm_buffer")
    BY <2>2, <2>4, <2>7 DEF Handleable
  <2> QED BY <2>5, <2>6, <2>8
<1>3. FailsForCause
  BY DEF IInv, FailsForCause
<1> QED BY <1>1, <1>2, <1>3 DEF Understood

(* Applications of the simple framework and the server always understand   *)
(* each other: whatever the two have sent and not handled, an event finds  *)
(* an object of the kind it is for, a request finds the objects it names   *)
(* and brings an ID the server does not use, and no handler fails for want *)
(* of an object in its store.                                              *)
THEOREM AlwaysUnderstood == Spec => []Understood
BY Invariant, Agreement, PTL
=============================================================================
