-------------------------------- MODULE Program --------------------------------
(***************************************************************************)
(* The threads of perceptia: "utils" (device manager and aesthetics),      *)
(* "exhibitor", "wayland", and "main", which runs the dispatcher.  What a  *)
(* module does about a signal is reduced to the locks it takes and the     *)
(* signals it emits meanwhile: calls of the coordinator, which keeps its   *)
(* lock while it calls the signaler or the dispatcher.                     *)
(***************************************************************************)
EXTENDS Dharma

CONSTANTS
    MaxEvents       \* bound on what happens outside of the program

(* What the constants of Dharma stand for in perceptia.                    *)
ASSUME ProgramAssumption ==
    /\ EventLoops = {"utils", "exhibitor"} /\ Services = {"wayland"} /\ Main = "main"
    /\ {"OUTPUT_FOUND", "DISPLAY_CREATED", "PAGE_FLIP", "SURFACE_FRAME", "NOTIFY",
        "INPUTS_CHANGED"} \subseteq Signals
    /\ "HANDLE_NEW_CLIENT" \in Customs
    /\ {"signals", "pageflip", "monitor", "device", "display", "client"} \subseteq Handlers
    /\ {"display", "client"} \subseteq LocalHandlers
    /\ LocalHandlers \intersect {"signals", "pageflip", "monitor", "device"} = {}
    /\ Locks = {"inner", "dispatcher", "local"}
    /\ MaxEvents \in Nat

VARIABLE events     \* what happened outside so far, SIGTERM left out

program == <<queue, mode, todo, subscribers, registry, holder, handlers, ready, hungup,
             run, events>>

(* Calls of the coordinator, which keeps its lock meanwhile.               *)
Notified(signal) == <<OpUnder("inner", "emit", signal)>>

WithCoordinator(ops) == <<OpUnder("inner", "lock", "inner")>> \o ops \o <<Op("unlock", "inner")>>

AddEventHandler(h) == WithCoordinator(<<OpUnder("dispatcher", "add", h)>>)

RemoveEventHandler(h) == WithCoordinator(<<OpUnder("dispatcher", "delete", h)>>)

SubscribeOps(l, signals) == <<Op("register", l)>> \o [i \in DOMAIN signals |-> Op("subscribe", signals[i])]

(* The modules of utils are constructed before their signals are           *)
(* subscribed, and the device manager looks for devices when constructed.  *)
(* The input device that is there has been found already.                  *)
UtilsStart ==
    Notified("OUTPUT_FOUND") \o AddEventHandler("pageflip") \o AddEventHandler("monitor")
    \o SubscribeOps("utils", <<"DISPLAY_CREATED", "INPUTS_CHANGED">>)

ExhibitorStart ==
    SubscribeOps("exhibitor", <<"NOTIFY", "PAGE_FLIP", "OUTPUT_FOUND">>)

(* Of the signals the service only stores what they say of, one stands for *)
(* all.                                                                    *)
WaylandStart ==
    SubscribeOps("wayland", <<"SURFACE_FRAME">>)
    \o <<OpUnder("local", "add", "display")>>

(* The handler of SIGTERM is added before threads start.                   *)
Init ==
    /\ queue = [l \in Loops |-> <<>>]
    /\ mode = [l \in Loops |-> "busy"]
    /\ todo = [t \in Threads |->
                CASE t = "utils"     -> UtilsStart
                  [] t = "exhibitor" -> ExhibitorStart
                  [] t = "wayland"   -> WaylandStart
                  [] OTHER           -> <<Op("run", t)>>]
    /\ subscribers = [s \in Signals |-> {}]
    /\ registry = {}
    /\ holder = [k \in Locks |-> Free]
    /\ handlers = {"signals", "device"}
    /\ ready = {} /\ hungup = {}
    /\ run = FALSE
    /\ events = 0

-----------------------------------------------------------------------------
(* What the modules of a thread do about a message.  Drawing tells clients *)
(* of the surfaces drawn, if there are any and the display is not waiting  *)
(* for a page flip.                                                        *)
Drawn == {<<>>, Notified("SURFACE_FRAME")}

UtilsReaction(m) ==
    CASE m = "DISPLAY_CREATED" -> {Notified("NOTIFY")}
      [] m = "INPUTS_CHANGED"  -> {RemoveEventHandler("device")}
      [] OTHER -> {<<>>}

ExhibitorReaction(m) ==
    CASE m = "OUTPUT_FOUND" -> {Notified("DISPLAY_CREATED")}
      [] m \in {"NOTIFY", "PAGE_FLIP"} -> Drawn
      [] OTHER -> {<<>>}

(* A new client is accepted out of the handler of its event, which is      *)
(* executed with the dispatcher locked.                                    *)
WaylandReaction(m) ==
    IF m = "HANDLE_NEW_CLIENT"
    THEN {<<Op("accept", "display"), OpUnder("local", "add", "client")>>}
    ELSE {<<>>}

Reaction(l, m) ==
    CASE l = "utils"     -> UtilsReaction(m)
      [] l = "exhibitor" -> ExhibitorReaction(m)
      [] OTHER           -> WaylandReaction(m)

(* Mutant: the handler accepts the client itself.                          *)
HandlerOpsAccepting(h) ==
    CASE h = "signals"  -> <<Op("terminate", Main)>>
      [] h = "device"   -> <<Op("emit", "NOTIFY")>>
      [] h = "pageflip" -> Notified("PAGE_FLIP")
      [] h = "monitor"  -> Notified("INPUTS_CHANGED")
      [] h = "display"  -> <<Op("accept", "display"), OpUnder("local", "add", "client")>>
      [] OTHER          -> <<>>

(* What event handlers do, executed by the thread of their dispatcher.     *)
HandlerOps(h) ==
    CASE h = "signals"  -> <<Op("terminate", Main)>>
      [] h = "device"   -> <<Op("emit", "NOTIFY")>>
      [] h = "pageflip" -> Notified("PAGE_FLIP")
      [] h = "monitor"  -> Notified("INPUTS_CHANGED")
      [] h = "display"  -> <<Op("send", "HANDLE_NEW_CLIENT")>>
      [] OTHER          -> <<>>

ThreadStep(t) ==
    /\ \/ Step(t)
       \/ Doing(t, "process") /\ Process(t, Arg(t), HandlerOps(Arg(t)), {"display"})
    /\ UNCHANGED events

MainStep == (Run \/ \E h \in Handlers : WaitAndProcess(h)) /\ UNCHANGED events

Receive(l) ==
    /\ \/ queue[l] # <<>> /\ \E r \in Reaction(l, Head(queue[l])) : Take(l, r)
       \/ Sleep(l) \/ Fail(l) \/ TimeOut(l)
    /\ UNCHANGED events

Spurious(l) ==
    /\ events < MaxEvents
    /\ WakeSpuriously(l)
    /\ events' = events + 1

(* Something happens that a file descriptor tells of; SIGTERM comes once   *)
(* and only to a program that waits for it.                                *)
Outside(h) ==
    /\ h \notin ready \union hungup /\ h \notin {"monitor", "device", "client"}
    /\ IF h = "signals" THEN run /\ UNCHANGED events
       ELSE events < MaxEvents /\ events' = events + 1
    /\ ready' = ready \union {h}
    /\ UNCHANGED <<queue, mode, todo, subscribers, registry, holder, handlers, hungup, run>>

(* The input device is unplugged, and the monitor tells of it.             *)
Unplug ==
    /\ events < MaxEvents /\ hungup = {}
    /\ hungup' = {"device"}
    /\ ready' = ready \union {"monitor"}
    /\ events' = events + 1
    /\ UNCHANGED <<queue, mode, todo, subscribers, registry, holder, handlers, run>>

Next ==
    \/ \E t \in Threads : ThreadStep(t)
    \/ MainStep
    \/ \E l \in Loops : Receive(l) \/ Spurious(l)
    \/ \E h \in Handlers : Outside(h)
    \/ Unplug

(* The scheduler lets every thread go on; locks are given to those who     *)
(* wait for them, and a wait with a timeout ends.  Every step of a thread  *)
(* changes what its subscript names.                                       *)
Fairness ==
    /\ \A l \in Loops : WF_<<queue[l], mode[l], todo[l]>>(ThreadStep(l) \/ Receive(l))
    /\ WF_<<todo[Main]>>(ThreadStep(Main) \/ MainStep)

Spec == Init /\ [][Next]_program /\ Fairness

-----------------------------------------------------------------------------
TypeOK ==
    /\ queue \in [Loops -> Seq(Messages)]
    /\ mode \in [Loops -> {"busy", "asleep", "woken", "ended"}]
    /\ todo \in [Threads -> Seq(Ops)]
    /\ subscribers \in [Signals -> SUBSET Loops]
    /\ registry \subseteq Loops
    /\ holder \in [Locks -> Threads \union {Free}]
    /\ handlers \subseteq Handlers
    /\ ready \subseteq Handlers /\ hungup \subseteq Handlers
    /\ run \in BOOLEAN
    /\ events \in 0..MaxEvents

(* No wakeup is lost: a loop that waits on its condition variable has an   *)
(* empty queue, however emitting threads and the loop interleave.          *)
NobodySleepsOnWork ==
    \A l \in Loops : mode[l] = "asleep" => queue[l] = <<>> /\ todo[l] = <<>>

(* The coordinator locks the dispatcher under its own lock, and handlers   *)
(* lock the coordinator under the dispatcher's: main, in a handler that    *)
(* calls the coordinator, and a thread that adds or removes a handler can  *)
(* wait for each other.  No other threads can, and no thread waits for a   *)
(* lock it holds itself.                                                   *)
OnlyHandlersDeadlock ==
    /\ \A t \in Threads : ~WaitsFor(t, t)
    /\ \A t, u \in Threads :
        WaitsFor(t, u) /\ WaitsFor(u, t) =>
            \E a, b \in {t, u} :
                a = Main /\ Head(todo[a]).under = "inner" /\ Head(todo[b]).do \in {"add", "delete"}

Deadlocked == \E t \in Loops : WaitsFor(t, Main) /\ WaitsFor(Main, t)

(* A service was told twice of one connection and waits for another.       *)
AcceptsAgain(t) == Doing(t, "accept") /\ Arg(t) \notin ready

Ended(l) == mode[l] = "ended"

Listens(l) == ~(Ended(l) \/ Deadlocked \/ AcceptsAgain(l))

(* What was pushed onto the queues of loops is taken in the end, unless    *)
(* the loop ended before or can not go on for one of the two reasons above.*)
EmittedIsTaken == <>[](\A l \in Loops : queue[l] = <<>> \/ ~Listens(l))

(* After SIGTERM all loops, once registered, end, and main can join their  *)
(* threads, unless threads wait for each other.                            *)
StopsCleanly ==
    (Doing(Main, "terminate") /\ registry = Loops) ~> (~run /\ \A l \in Loops : ~Listens(l))
================================================================================
