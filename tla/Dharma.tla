-------------------------------- MODULE Dharma --------------------------------
(***************************************************************************)
(* Threads of the program and what they communicate with: queues with a    *)
(* condition variable, the signaler that pushes signals onto the queues of *)
(* subscribers, and dispatchers that wait for file descriptors.            *)
(*                                                                         *)
(* A thread executes the operations it has to do one by one.  A mutex that *)
(* is held over other operations is taken and released in steps of its     *)
(* own.  One that is held for a single operation, under which nothing else *)
(* is locked, need only be free when the operation is executed; those of   *)
(* the signaler and of the queues, never held otherwise, are always free.  *)
(***************************************************************************)
EXTENDS Naturals, Sequences, FiniteSets

CONSTANTS
    EventLoops,     \* threads that wait for messages as long as it takes
    Services,       \* threads that wait with a timeout and poll a dispatcher
    Main,           \* the thread that runs the main dispatcher
    Signals,        \* defined messages
    Customs,        \* messages a service sends to itself
    Handlers,       \* event handlers, by name
    LocalHandlers,  \* those a service adds to a dispatcher of its own
    Locks           \* mutexes held over several operations

Loops == EventLoops \union Services

Threads == Loops \union {Main}

Free == "free"

DispatcherOf(h) == IF h \in LocalHandlers THEN "local" ELSE "dispatcher"

ASSUME ThreadsAssumption ==
    /\ EventLoops \intersect Services = {}
    /\ Main \notin Loops
    /\ Free \notin Threads
    /\ Signals \intersect Customs = {} /\ "Terminate" \notin Signals \union Customs
    /\ {"dispatcher", "local"} \subseteq Locks

Messages == Signals \union Customs \union {"Terminate"}

Deeds == {"lock", "unlock", "emit", "send", "subscribe", "register", "add",
          "delete", "process", "poll", "accept", "run", "terminate"}

Args == Locks \union Signals \union Customs \union Handlers \union Threads

Ops == [do : Deeds, arg : Args, under : Locks \union {Free}]

OpUnder(lock, do, arg) == [do |-> do, arg |-> arg, under |-> lock]

Op(do, arg) == OpUnder(Free, do, arg)

VARIABLES
    queue,        \* messages pushed and not taken, per loop
    mode,         \* what a loop does: "busy", "asleep", "woken" or "ended"
    todo,         \* operations a thread has still to do
    subscribers,  \* loops that subscribed a signal
    registry,     \* loops to be told to terminate
    holder,       \* the thread that holds a lock
    handlers,     \* event handlers known to their dispatchers
    ready,        \* handlers whose file descriptor has something to be read
    hungup,       \* handlers whose file descriptor is hung up
    run           \* the main dispatcher is to go on

vars == <<queue, mode, todo, subscribers, registry, holder, handlers, ready, hungup, run>>

-----------------------------------------------------------------------------
(* Mutant: the receiver is not notified.                                   *)
WokenUnnotified(ls) == mode

(* push notifies a receiver that waits.                                    *)
Woken(ls) == [l \in Loops |-> IF l \in ls /\ mode[l] = "asleep" THEN "woken" ELSE mode[l]]

Push(ls, m) ==
    /\ queue' = [l \in Loops |-> IF l \in ls THEN Append(queue[l], m) ELSE queue[l]]
    /\ mode' = Woken(ls)

UnchangedQueues == UNCHANGED <<queue, mode>>

Arg(t) == Head(todo[t]).arg

(* t waits for a lock that u holds.                                        *)
WaitsFor(t, u) ==
    /\ todo[t] # <<>> /\ Head(todo[t]).under # Free
    /\ holder[Head(todo[t]).under] = u

Doing(t, do) ==
    /\ todo[t] # <<>> /\ Head(todo[t]).do = do
    /\ \A k \in Locks : Head(todo[t]).under = k => holder[k] = Free

Done(t) == todo' = [todo EXCEPT ![t] = Tail(@)]

DoneThen(t, ops) == todo' = [todo EXCEPT ![t] = ops \o Tail(@)]

Lock(t) ==
    /\ Doing(t, "lock")
    /\ holder' = [holder EXCEPT ![Arg(t)] = t]
    /\ Done(t)
    /\ UnchangedQueues /\ UNCHANGED <<subscribers, registry, handlers, ready, hungup, run>>

Unlock(t) ==
    /\ Doing(t, "unlock")
    /\ holder' = [holder EXCEPT ![Arg(t)] = Free]
    /\ Done(t)
    /\ UnchangedQueues /\ UNCHANGED <<subscribers, registry, handlers, ready, hungup, run>>

Emit(t) ==
    /\ Doing(t, "emit")
    /\ Push(subscribers[Arg(t)], Arg(t))
    /\ Done(t)
    /\ UNCHANGED <<subscribers, registry, holder, handlers, ready, hungup, run>>

(* A direct sender, used by a service to send messages to itself.          *)
Send(t) ==
    /\ Doing(t, "send")
    /\ Push({t}, Arg(t))
    /\ Done(t)
    /\ UNCHANGED <<subscribers, registry, holder, handlers, ready, hungup, run>>

Subscribe(t) ==
    /\ Doing(t, "subscribe")
    /\ subscribers' = [subscribers EXCEPT ![Arg(t)] = @ \union {t}]
    /\ Done(t)
    /\ UnchangedQueues /\ UNCHANGED <<registry, holder, handlers, ready, hungup, run>>

Register(t) ==
    /\ Doing(t, "register")
    /\ registry' = registry \union {t}
    /\ Done(t)
    /\ UnchangedQueues /\ UNCHANGED <<subscribers, holder, handlers, ready, hungup, run>>

(* The signal handler stops its dispatcher, which nobody reads but main    *)
(* itself, and tells all registered loops to terminate.                    *)
Terminate(t) ==
    /\ Doing(t, "terminate")
    /\ run' = FALSE
    /\ Push(registry, "Terminate")
    /\ Done(t)
    /\ UNCHANGED <<subscribers, registry, holder, handlers, ready, hungup>>

-----------------------------------------------------------------------------
AddSource(t) ==
    /\ Doing(t, "add")
    /\ handlers' = handlers \union {Arg(t)}
    /\ Done(t)
    /\ UnchangedQueues /\ UNCHANGED <<subscribers, registry, holder, ready, hungup, run>>

DeleteSource(t) ==
    /\ Doing(t, "delete")
    /\ handlers' = handlers \ {Arg(t)}
    /\ Done(t)
    /\ UnchangedQueues /\ UNCHANGED <<subscribers, registry, holder, ready, hungup, run>>

(* An event a dispatcher waits for.                                        *)
Happens(h) == h \in handlers /\ h \in ready \union hungup

EventOps(h) == <<OpUnder(DispatcherOf(h), "process", h)>>

(* What is done with an event once epoll_wait has returned it and the      *)
(* dispatcher is locked: the handler, which may have been deleted in the   *)
(* meantime, executes "ops", and is deleted if its descriptor is hung up   *)
(* and has nothing to be read.  Handlers in "keeps" do not read.           *)
Process(t, h, ops, keeps) ==
    /\ holder' = [holder EXCEPT ![DispatcherOf(h)] = t]
    /\ DoneThen(t, (IF h \in handlers THEN ops ELSE <<>>)
                   \o (IF h \in ready THEN <<>> ELSE <<Op("delete", h)>>)
                   \o <<Op("unlock", DispatcherOf(h))>>)
    /\ ready' = IF h \in handlers /\ h \notin keeps THEN ready \ {h} ELSE ready
    /\ UnchangedQueues /\ UNCHANGED <<subscribers, registry, handlers, hungup, run>>

(* do_run of the dispatcher.                                               *)
Run ==
    /\ Doing(Main, "run")
    /\ run' = TRUE
    /\ Done(Main)
    /\ UnchangedQueues /\ UNCHANGED <<subscribers, registry, holder, handlers, ready, hungup>>

WaitAndProcess(h) ==
    /\ todo[Main] = <<>> /\ run
    /\ DispatcherOf(h) = "dispatcher" /\ Happens(h)
    /\ todo' = [todo EXCEPT ![Main] = EventOps(h)]
    /\ UnchangedQueues
    /\ UNCHANGED <<subscribers, registry, holder, handlers, ready, hungup, run>>

(* A service processes one event of its dispatcher, if there is any.       *)
Poll(t) ==
    /\ Doing(t, "poll")
    /\ \/ \E h \in Handlers :
           DispatcherOf(h) = "local" /\ Happens(h) /\ DoneThen(t, EventOps(h))
       \/ ~(\E h \in Handlers : DispatcherOf(h) = "local" /\ Happens(h)) /\ Done(t)
    /\ UnchangedQueues
    /\ UNCHANGED <<subscribers, registry, holder, handlers, ready, hungup, run>>

(* Accepting waits for a connection if there is none.                      *)
Accept(t) ==
    /\ Doing(t, "accept") /\ Arg(t) \in ready
    /\ ready' = ready \ {Arg(t)}
    /\ Done(t)
    /\ UnchangedQueues /\ UNCHANGED <<subscribers, registry, holder, handlers, hungup, run>>

-----------------------------------------------------------------------------
Next_(l) == IF l \in Services THEN <<Op("poll", l)>> ELSE <<>>

(* take: the message at the head is taken, and "reaction" is what the loop *)
(* does about it.                                                          *)
Take(l, reaction) ==
    /\ todo[l] = <<>> /\ mode[l] \in {"busy", "woken"} /\ queue[l] # <<>>
    /\ queue' = [queue EXCEPT ![l] = Tail(@)]
    /\ mode' = [mode EXCEPT ![l] = IF Head(queue[l]) = "Terminate" THEN "ended" ELSE "busy"]
    /\ todo' = [todo EXCEPT ![l] = IF Head(queue[l]) = "Terminate" THEN <<>>
                                   ELSE reaction \o Next_(l)]
    /\ UNCHANGED <<subscribers, registry, holder, handlers, ready, hungup, run>>

(* Mutant: the queue is not looked at before the wait.                     *)
SleepAnyway(l) ==
    /\ todo[l] = <<>> /\ mode[l] = "busy"
    /\ mode' = [mode EXCEPT ![l] = "asleep"]
    /\ UNCHANGED <<queue, todo, subscribers, registry, holder, handlers, ready, hungup, run>>

Sleep(l) ==
    /\ todo[l] = <<>> /\ mode[l] = "busy" /\ queue[l] = <<>>
    /\ mode' = [mode EXCEPT ![l] = "asleep"]
    /\ UNCHANGED <<queue, todo, subscribers, registry, holder, handlers, ready, hungup, run>>

(* The condition variable may wake a receiver that nobody notified.        *)
WakeSpuriously(l) ==
    /\ mode[l] = "asleep"
    /\ mode' = [mode EXCEPT ![l] = "woken"]
    /\ UNCHANGED <<queue, todo, subscribers, registry, holder, handlers, ready, hungup, run>>

(* A receiver that wakes up and finds nothing returns an error, and the    *)
(* loop ends.                                                              *)
Fail(l) ==
    /\ mode[l] = "woken" /\ queue[l] = <<>>
    /\ mode' = [mode EXCEPT ![l] = "ended"]
    /\ UNCHANGED <<queue, todo, subscribers, registry, holder, handlers, ready, hungup, run>>

(* A wait that timed out returns without looking at the queue.             *)
TimeOut(l) ==
    /\ l \in Services /\ mode[l] \in {"asleep", "woken"}
    /\ mode' = [mode EXCEPT ![l] = "busy"]
    /\ todo' = [todo EXCEPT ![l] = Next_(l)]
    /\ UNCHANGED <<queue, subscribers, registry, holder, handlers, ready, hungup, run>>

(* What a thread does next by itself, processing events left out.          *)
Step(t) ==
    \/ Lock(t) \/ Unlock(t) \/ Emit(t) \/ Send(t) \/ Subscribe(t) \/ Register(t)
    \/ Terminate(t) \/ AddSource(t) \/ DeleteSource(t) \/ Poll(t) \/ Accept(t)
================================================================================
