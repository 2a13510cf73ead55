# Perceptia in TLA+

Specifications, model-checked properties and machine-checked proofs for
perceptia, a dynamic tiling window manager and Wayland compositor in Rust.

## 1. The system

Perceptia runs four threads, three loops that take messages from a queue of their
own, and one that waits for file descriptors:

| thread | what runs on it | reacts to |
|---|---|---|
| main | the `Dispatcher` (epoll): signal handler, input devices, udev monitor, virtual terminal, page flips, a timer | file descriptors |
| `p:utils` | `EventLoop` with `AestheticsModule` and `DeviceManagerModule` | displays, surfaces of the cursor and background, suspend, wakeup, device changes |
| `p:exhibitor` | `EventLoop` with `ExhibitorModule` | commands, surfaces, outputs, page flips, pointer input, focus |
| `p:wayland` | `WaylandService`: waits for a message at most 10 ms, then polls its `LocalDispatcher` of client sockets | focus, frames, selection, screenshots, and messages it sends to itself |

They push signals onto each other's queues through a shared `Signaler`. Handlers
of devices run in main, although the device manager that adds them runs in
utils; the modules of utils are constructed, outputs looked for and handlers
added before utils subscribes its signals. Shared state is the `Coordinator`:
a mutex around focus, transfer and workspace state (`InnerCoordinator`), one
around surfaces, memory pools and images (`ResourceStorage`). `InnerCoordinator`
keeps its mutex while it calls the signaler or the dispatcher. On SIGTERM the
handler stops the dispatcher, which tells all registered loops to terminate;
main joins the three threads.

### Components, their state and what makes them correct

**Frame nodes** (`cognitive/frames/src/frame.rs`). Heap nodes with raw pointers to
the parent and, in each of two orders ("space" on the screen and "time" of use),
to previous and next sibling, first and last child. Operations: new, destroy,
prepend, append, prejoin, adjoin, pop, remove. Hard: two interleaved doubly linked
lists updated in `unsafe` blocks. Correct if both lists always hold exactly the
children, the parents form a forest, and no pointer names a freed node.

**Frame algorithms** (`settling.rs`, `searching.rs`, `packing.rs`, `converting.rs`).
Settle, resettle, ramify, deramify, jump, dock, anchorize, remove_self with its
cascade through only children, and the searches. Correct if windows are never
lost and layers (root, displays, workspaces, containers and leaves) never mix.

**Compositor** (`cognitive/exhibitor/src/compositor.rs`, `surface_history.rs`).
Tree, selection, history of surfaces; tells the coordinator keyboard focus and
workspace state. Runs in one thread, but commands of the user and the life of
surfaces come in any order. Correct if the selection stays in the tree, the
history names exactly the managed windows, no `expect` fails, and what was
published or is drawn matches the tree.

**Displays and pointer** (`display.rs`, `pointer.rs`, `exhibitor.rs`). One page
flip machine per display (`page_flip_scheduled`, `redraw_needed`), hover focus,
dragging. Hard: notifications between a draw and its page flip, terminals left
and entered in between, outputs made anew. Correct if what displays were
notified of is shown in the end, the pointer is on a display, and the surface
told of the pointer is the one under it once the display has drawn.

**Coordination** (`perceptia/coordination`). Surfaces with show reasons
(IN_SHELL, DRAWABLE), parents, satellites, pending and current buffers; memory
pools with views; focus. Emits SURFACE_READY and SURFACE_DESTROYED when the
reasons become complete or incomplete. Correct if the windows of the compositor
follow these signals, relations are symmetric and acyclic, and views die with
their pool. Hard: the storage moves on while signals wait for the exhibitor.

**Dharma** (`cognitive/dharma/src`). Bridge (queue, mutex, condition variable),
Signaler (signal to senders, registry for termination), EventLoop, Dispatcher
(epoll, handlers under one mutex), signal handler, timer. Hard: lost wakeups,
registration racing termination, lock order with the coordinator. Correct if no
loop sleeps while it has a message, what is pushed is taken, no threads wait
for each other's locks in a circle, and every loop ends after terminate.

**Wayland frontend** (`cognitive/wayland_frontend/src`). Engine, one Proxy per
client with dictionaries from object to surface, buffer and frame callback;
Gateway passes signals to the proxies; Mediator maps surface to client. Hard:
surfaces and clients go away while what the exhibitor says about them is
queued; displays are created while clients connect. Correct if a client's end
frees all it had, exactly the client that has the focus was told so and knows the
selection, the names a registry told keep their meaning whatever displays come later,
clients know the last size of their windows, and callbacks are answered.

**Device manager** (`cognitive/device_manager/src`): virtual terminal, collectors of
outputs and inputs, page flip events, and the gateway that all input devices
share, with its modifiers. **Gears** (`perceptia/gears`): key modes, bindings,
construction of commands from keys, one or several for a command. Correct if
only whole commands are executed and the exhibitor's idea of the mode follows
the manager's. **Qualia**: shared types, memory pools. **Aesthetics**: cursor,
background, panel. **Program** (`perceptia/perceptia`): start and stop. Graphics,
renderer, inputs, outputs and timber call external libraries.

**Client framework** (`perceptia/skylane_simple_framework`, its examples, and the
screenshot command of `perceptiactl`). Objects with handlers of events, a Proxy
that tells the listener (the application), a Store of object IDs, and the
Controller the application makes requests with; one thread, until the application
stops it or the server hangs up. Hard: IDs are used again while events are
on their way, outputs answer one after the other, a file stays when a run is
killed. Correct if both sides always mean the same object, nothing is taken from
the store that is not there, and a screenshot is saved whole.

`PROJECT.json` lists every component with its status and every hazard with the
line where it bites and the properties that cover it.

## 2. Modules

| module | what it is |
|---|---|
| `FrameOrder` | abstract specification: a frame has its children in two sequences |
| `FrameNode` | the pointers of `frame.rs` and every manipulator as an action |
| `FrameLists` | the sequences read off the pointers of FrameNode, and that they implement FrameOrder |
| `FrameNodeProofs` | the inductive invariant of FrameNode, the walks along its pointers, the refinement of FrameOrder |
| `FrameTree` | the frame algorithms as operators on a tree with FrameOrder's two sequences |
| `Compositor` | the compositor: one action per command and notification |
| `MCCompositor` | the compositor under careful use, view and symmetry |
| `SurfaceStorage` | surfaces of `resource_storage.rs`, one operator per request, and the signals they emit |
| `SurfaceLife` | composes the storage with the exhibitor receiving its signals; its properties |
| `SurfaceLifeProofs` | the inductive invariants of SurfaceLife and the proofs |
| `Dharma` | threads with their operations, queues with condition variable, locks, subscriptions, dispatchers |
| `Program` | composes Dharma into perceptia's four threads: start, reactions, event handlers, SIGTERM |
| `ProgramProofs` | the inductive invariant of Program and the proofs |
| `Proxies` | state of the Wayland thread: connections with their objects, one proxy per client, mediator, pools, views, images, forms (sizes) of surfaces; extends SurfaceStorage |
| `Requests` | requests about surfaces, memory, images, outputs, devices, selections and screenshots, one action each |
| `Roles` | requests that give surfaces their place: wl_shell, xdg shell, positioners, popups, subsurfaces, regions, cursors |
| `Frontend` | composes the requests with the messages of the Wayland thread, the exhibitor and hang ups; its properties |
| `FrontendProofs` | what each request and message changes, the inductive invariant of Frontend and the proofs |
| `MCFrontend` | the groups of interfaces with their bounds |
| `Framework` | the client framework: handlers of events and operations of the controller as functions from client to client |
| `ClientApps` | three applications of the framework, the wire, and the server's side of the same interfaces |
| `ClientAppsProofs` | the inductive invariant of ClientApps, and what a request sent or served does to it |
| `ClientStepProofs` | what each handler and listener does to it, each action, and the theorems |
| `Gears` | keys and buttons: gateway, modes, default bindings, executors |
| `Displays` | displays with page flips, pointer, dragging: one action per handler of the exhibitor |
| `Session` | composes Gears and Displays with the queue between them, the terminal, the kernel and outputs |
| `SessionProofs` | what keys come to, what redrawing does, the inductive invariant of Session and the proofs |
| `NumberFacts` | least and greatest elements of sets of numbers, and induction stated by a set, for the proofs |

Correspondence. `FrameNode.matter`, `space`, `time` are the fields of `Node`; an
action is one public manipulator with all the private ones it calls. Its guard
`Joinable` is not in the manipulators: it is what they ask of their callers, that a frame
is fresh or was removed before it is inserted, and is not above its target
(`NotBelow`). `Forest` is about callers that observe it. Neither `settling.rs` nor the
manipulators check the second part, so it is up to whoever chooses a target: for targets
found by a direction or by exalt that is the part `TargetsOutside` of `HandlersGoOn`; a
workspace as target can be below the frame, and then the handlers of `Compositor` fail as the
code does (`Circular`, finding 4). In `FrameTree` a frame is an
index into `tree`; operators carry the names of the Rust functions. In
`Compositor` the variables are the fields of the compositor (`tree`, `selection`,
`history`), what it told the coordinator (`focus`, `published`), the frame each
`Display` draws (`displays`) and the `expect` that failed (`panic`). Each action is
the whole handler, including the final pops, selection and publication.

In `SurfaceStorage` the variables are the fields `surfaces` and `last_surface_id`
of `ResourceStorage`, and the queue `signals` between its signaler and the
exhibitor. Every request is atomic, because it holds the storage's mutex until
its signal is emitted; the exhibitor's `Deliver` is a step of its own, since
another thread receives it. `managed` is the set of surfaces that have a frame,
all that this composition needs of `Compositor`.

Abstractions. Of a surface's buffers the model keeps whether there is one, of
its satellites the set and not the order; docks and NOTIFY are left out, and what
`reconfigure` and commits do to sizes is added in `Proxies` and `Frontend`. `show` and `hide` take IN_SHELL only, the one reason
their callers pass. In the compositor, sizes and positions are left out. `find_pointed`, which depends on
them, may return any frame it can reach; the drag action may drop a window in
any workspace that is in front. Signal NOTIFY and logging are left out. Only
distance 1 of focus, jump and dive is modelled. Placement strategies are the
constant `Floats`. Frames that nothing refers to are collected so that the
bound on frames is not used up by the containers that `remove_self` leaves
behind; the code leaks them.

`Dharma` gives each thread a list `todo` of operations and executes them one by
one; `mode` is what a loop does with its condition variable. A mutex held over
other operations (the coordinator's, "inner", and those of the dispatchers) is
taken and released in steps of its own; one held for a single operation under
which nothing else is locked need only be free in the operation's step. The
mutexes of the signaler and of the queues are of the second kind and never
held otherwise, so they do not appear. `Take`, `Sleep`, `WakeSpuriously`, `Fail`
and `TimeOut` are the ways through `take` and `take_timeout`: the mutex makes the
look at the queue and the wait one step. `Program` says what the four threads
start with and reduces what modules do about a signal to the locks they take
and the signals they emit under them. Signals and handlers that take the same
locks as modelled ones (the timer's, the terminal's, most INPUT signals) are
left out.

In `Requests` and `Roles` each request of a client is an action, the whole chain
from the protocol object through the proxy to the coordinator, storage and
mediator; the message PROCESS_EVENTS, which only says that requests are there to
be read, is left out. `objects` are the protocol objects a client has, with what
their Rust structures keep (surface, pool, positioner); `proxy[c]` holds the
dictionaries of a proxy. `Receive` of `Frontend` is what the thread does about a
message. A client has at most one keyboard, pointer and data device; pools,
views and images share one counter of IDs, and the objects of a client are numbered in the
order of creation: a client that keeps to the protocol uses a number again only after the
server deleted it, which it does for callbacks and pools alone, so the
dictionaries of a proxy never lose an entry to a second object. (`Framework`, about
callbacks, models numbers that are used again.) Sizes are numbers without
arithmetic, `OfImage` and `OfRegion` say where an unrequested one comes from.
`makers`, `replaced`, `entered`, `offered` and `due` are history: whose memory it is
and what clients were told.

In `Framework` a client is a record: its objects by ID, the Store, what the
listener keeps, the files it left. Handlers and controller operations carry the
names of the Rust functions and return the client that follows; "fault" is the
panic that ended it. `ClientApps` has the listeners of the three applications, the
events read but not handled (`batch`), both directions of the socket, and the
objects the server knows. What an application depends on outside (opening its
device, drawing, importing its image, capturing an output) works or not,
chosen when it starts. The server's handlers there are the same Rust code as in
`Requests`, by what they answer instead of what they store.

`Gears` is a function from the state of the manager to the next and the signals
emitted: `Catch` finds the executor as `find_executor` does and `Activate` is what it
executes. `Displays` reduces what a display shows to the set `behind` of those
that do not show what they were notified of; a display leaves it when it
schedules a flip to the present scene or its output is made anew. `Session` puts a
queue between: main, utils and the frontend push, the exhibitor takes. Kernel and terminal are
external: page flips are refused, and outputs can not be made, while another
terminal is active, and the kernel finishes what it accepted.

What `Session` leaves out: positions have one dimension, a window covers one
position, outputs have one width; cursor and background are one signal LOOK;
timestamps, axis events and the KEY signals of the frontend; what the
compositor does about a command, which is any move or raise of a window.

Mutants of the definitions (marked as such in the modules) are plausible bugs;
each checked property is violated when one of them replaces the original.

## 3. Runs

| run | instance | shows |
|---|---|---|
| `frame_node` | 5 nodes, 12792 states | TypeOK, LinksOK, Forest, NoDanglingPointer and the refinement of FrameOrder |
| `layout` | 3 anchored windows, 7 frames, one workspace, 35162 states | layout commands with opening and closing never lose a window or the selection, never fail an `expect`, never mix layers, never put a frame inside itself |
| `workspaces` | 3 floating windows, 9 frames, 2 workspaces, 2 displays, docks, 15452 states | history, published state, drawn frames and unique names follow the tree |
| `surfaces` | 3 surfaces, 2 signals waiting, 386751 states | satellites and parents agree, drawing ends, the compositor's windows are ready and those of destroyed surfaces leave |
| `program` | 4 threads, 6 handlers, one outside event and SIGTERM at any time, 314094 states | no wakeup is lost; only main's handlers and adding or removing a handler lock in a circle; what is pushed is taken; SIGTERM ends all loops |
| `frontend` | 2 clients, 16 groups of interfaces, up to 7 requests (10 for two screenshots), 3 changes by the exhibitor and 1 display, 534218 states | nothing of a removed client stays; focus, selection and sizes are told right; the names registries told keep their meaning; frame callbacks are answered, and the last request for a screenshot is, through requests of two clients that override each other |
| `clients` | 3 applications, 2 runs, 2 displays, 672370 states | IDs used again confuse neither side, the store has what handlers take from it, and a screenshot is saved whole |
| `session` | 2 outputs, 2 windows, 6 occasions of keys and events, 2 signals waiting, 2703579 states | no notification is lost; the pointer's focus is under it; dragging ends with its mode; commands are whole |
| `closed_last_window` | 2 windows | violation of SelectionAttached |
| `exalted_window` | 2 windows | violation of ExaltStaysInTree |
| `clicked_satellite` | 2 windows, 1 satellite | violation of NoPanic |
| `workspace_in_itself` | 2 workspaces | violation of NoPanic |

Bounds. Five nodes are a parent with two levels below and every position of a
list element (only, first, middle, last). In `layout`, root, display, workspace and
three windows leave one container at a time above every combination of windows;
with two windows and two containers the same properties were checked once
more (8 frames, 127974 states). `Runs` keeps a handler from starting without
the frames it may allocate, so the bound never changes what a handler does.
In `workspaces` all windows float: docking, dragging and moving between
workspaces do not depend on the layout inside them. Deadlock is not checked in
the compositor runs, because a run exercises a part of the commands only and
its states may have none that applies.

In `surfaces`, three surfaces are the fewest with a chain of satellites two deep
and with a surface that changes parents; two waiting signals are the fewest in
which a later signal corrects an earlier one that is still to be received. A
request that would emit into a full queue waits, which the code's unbounded
queue never does: this only leaves out longer queues. Deadlock is checked.

In `program` one outside event (a connection, a page flip, a device that goes, a
spurious wakeup) can fall at any point of the start, of another reaction or of
the termination, and SIGTERM, which is not counted, adds a second one. With
two events the states are too many for TLC; what two events could add is a
second message of the same kind, and reactions leave nothing behind but
subscriptions and handlers.

In `frontend`, a behaviour uses the interfaces of one of the `Groups`, chosen at the
start: requests that act on the same state, each with its own bounds on clients,
requests and what the exhibitor does; `MaxImages` counts per client. Two clients and two surfaces are the fewest
in which a focus goes from one client to another; six requests make a pool and a
view, and destroy, resize and use them again; seven take a surface through a role of
xdg shell and back. In `TwoScreenshots` ten requests are two clients that each make a pool and a
buffer, list the registry, bind an output and ask, so that one overrides the other. Clients have different states, so there is no symmetry. In
`clients`, two displays make a picture of two parts, created before or after the
application asked for the globals; two runs show what the first leaves to
the second. IDs are not bounded: the least that no object has is taken.
In `session`, a
behaviour is about one of the `Occasions`, sets of keys and events that act on
the same state; `MaxEvents` is six because a command typed from insert mode
takes Meta, Esc, the release of Meta, an action, a direction and a digit; `MaxFew` is smaller where two outputs make
every step branch. In these four runs deadlock is not checked, as the
bounds stop them; for `program` that no thread waits in vain is the subject of its
properties.

View and symmetry. `View` prints the tree without the identity of its frames:
which index a frame has decides nothing but which free index is taken next, so
states with the same view have the same futures up to renaming. `Symmetry`
permutes the surfaces, which no definition tells apart (`Floats` is all of
them or none). Neither is used with liveness.

Careful use. The two passing compositor runs use `CarefulSpec`, which excludes
the situations in which the code goes wrong, so that the rest of the behaviour
can be checked beyond them: closing a window whose container is selected next
and removed with it; exalting into a container that is removed with the frame;
clicking a surface without a frame in a workspace; jumping or diving with an
empty workspace selected; diving into a workspace that is alone beside a dock. Neither uses
a build with overflow checks, as `OverflowChecks` only adds a failure of focusing forward with an empty history.
The violation runs use the full specification.

`SurfaceLife` has a `CarefulSpec` of its own. The relations of surfaces are
requested through roles (subsurface, popup, transient), and the frontend does
not check that a surface has one role at a time. `CarefulRelate` asks what the
protocol asks of clients: the surface has no stored parent, is not in the
shell, and is not above its new parent. Without it, a second `relate` leaves
the surface among the satellites of its first parent, surfaces related in a
circle make `get_renderer_context` recurse without end, and a surface that is
related while in the shell (`wl_shell` hides it before, xdg popups and
subsurfaces do not) stops being ready without a signal. `ParentsDrawSatellites`,
`NoSatelliteInShell` and `NoGhost` are proved for the unrestricted `Spec`.

Fairness. `GhostsLeave` assumes weak fairness of `Deliver` and of nothing else:
the exhibitor's event loop takes the next signal whenever its queue has one,
while clients need not do anything. `Frontend` assumes the same of its thread's
`Receive`, of the exhibitor's `TakeScreenshot` and of the poll of each
connection; never of clients. `ClientApps` assumes that the client reads and
handles events (`Consumes`: only the client's own step takes an event out of
what it read), that the server serves requests, and that the exhibitor
draws displays it can capture; never that displays are created or runs started. `Program` assumes that the scheduler runs each
thread that can go on; a timeout of the Wayland thread's wait is such a step,
spurious wakeups and outside events are not. The compositor and `session` runs have
no liveness property: a display's redraw waits for the user to come back to
its terminal, so `NotifiedIsShown` states instead who is going to do it.
Behaviours of `Frontend` and `Program` come to rest because requests and events
are bounded, so "in the end" is stated as `<>[]`; each is violated by its mutant.

Exceptions stated in properties. `OnlyHandlersDeadlock` and `EmittedIsTaken` name
what really can go wrong: main, in a handler that calls the coordinator, holds
the dispatcher and waits for the coordinator, while a thread that adds or removes
a handler holds the coordinator and waits for the dispatcher; and a connection
that is told of again before it is accepted makes the Wayland thread wait in
`accept`. `NotifiedIsShown` excepts displays that share an output (`Alone`): a
rescan publishes outputs that are known already. `HoverCurrent` is about displays that do
not overlap (`Placed`): an output made anew by a wakeup loses its position.
`DeadLeaveNothing` excepts views of replaced memory and leaves out hardware images.

## 4. Findings

1. `compositor.rs:228` — the selection after closing the last window of a
   container is that container, which the same call removes from the tree.
   Windows opened next settle there and are invisible.
2. `compositor.rs:541` — exalting the only window of a container, with the
   parent returned as ramified target, removes window and container.
3. `compositor.rs:226, 252` — a surface without a frame enters the history by a
   click and ends the compositor thread when the selected window is closed.
4. `compositor.rs:416` — an empty workspace jumps into another one as a whole; with
   that one selected next, it can jump into the first. Each is then the other's
   parent, and relaxing recurses without end.

Observations that are not findings, as nothing in the repository states the
contrary, or no run states it.

In the compositor: dive to a hidden workspace leaves it hidden though its window
has the keyboard (`compositor.rs:453`, whose comment says it becomes focused). Jumping to a
workspace that has to be created leaves two active on one display (`compositor.rs:598`).
Focusing forward with an empty history subtracts below zero (`surface_history.rs:47`): a
panic where overflow is checked (`OverflowChecks`), nothing where it is not.

In the threads: the two stalls above, in `coordinator.rs:182` with `dispatcher.rs:167` and
in `engine.rs:101`. A signal emitted before a loop has subscribed is lost, which
can hit the outputs found by the constructor of the device manager. Outputs
are made anew at position 0 by a wakeup (`display.rs:110`). A click raises a
window without NOTIFY (`compositor.rs:241`), so it is seen with the next one. `detach_surface`, called for a null buffer, removes the window but
leaves the show reasons complete, so later commits or shows emit no ready
signal (hence `ManagedIsReady` has no converse). `replace_memory_pool` forgets
which views belong to the pool.

In the frontend: a toplevel that is destroyed and made again is still known by
the old object (`proxy.rs:40`); a window that is hidden and shown again with the
same size is not configured (`resource_storage.rs:343`); a client without a keyboard
object is not told of activation; a commit without a buffer makes a surface
drawable, and the first commit of a satellite changes its desired size without a
signal; a dmabuf that misses planes is answered with neither `created` nor
`failed`; a registry a client asked for before is not told of a display created later
(`proxy.rs:635`), only registries asked for afterwards list it.

In the client framework: a file of a screenshot is made without permissions, so
one left by a killed run makes the next one panic; dharma's dispatcher blocks
SIGINT and SIGTERM, so a screenshot of an output that is never captured waits
until it is killed otherwise; the EGL example idles when its device does not open
or has no magic, and the dmabuf example when the import fails (`failed` does nothing).

## 5. Proofs

`FrameNodeProofs` proves for any set of nodes, from the assumption that null is
not a node:

- `TypeCorrect`, `ListsSound`, `FramesFormForest`, `PointersSafe`: the four
  invariants that `frame_node` checks on five nodes;
- `ListsImplemented`: FrameNode implements FrameOrder (`ImplementsOrder`). Read as
  sequences, every manipulator does to the pointers what it promises, to the list it
  is about and to no other.

The inductive invariant is `IInv == TypeOK /\ LinksOK /\ Forest /\ ParentsLive`.
`NoDanglingPointer` is not inductive as it stands: that a freed node is nobody's
sibling follows from the lists being exact (`LinksOK`) and from every node with a
parent, and every parent, being allocated (`ParentsLive`). The lists are kept by lemmas
about each manipulator on one order's edges (`PrependEdgeOK`, `AppendEdgeOK`,
`JoinedOK`, `UnjoinEdgeOK`, `ErasedOK`), stated without variables and used for both
orders. Acyclicity is stated by sets (every nonempty set of nodes has one whose
link leaves it), which needs no induction: `InsertedOK` and `JoinedForest` show that
linking a fresh element keeps it, `RemovedOK` and `CutOff` that bypassing one does.

The refinement reads the sequences by recursion along `next` (`Walk`), so what the
recursion yields has to be known first. A frame's *chain* is a sequence that starts
with it and follows `next` to the end. Frames without a chain, and frames where
the recursive function is not the chain, would each be a circle, so `LinksOK` leaves none
(`ChainExists`, `WalkChain`); chains agree index by index (`SameChain`). A walk then is
the one sequence that fits the edges (`WalkLists`, `ListsWalk`), holds each child once,
and agrees with `prev` and `last` (`WalkKnown`). Every insertion puts a frame between two
neighbours and every removal bypasses one: `Insertion` and `Removal` say what that does to
all the walks, `WalksAppend`, `WalksPrepend`, `WalksJoin`, `WalksUnjoin` and `WalksErased`
say it of the manipulators in the terms of FrameOrder, and `NextOrder` maps each action
to the action of the same name. The invariant `IInv` is what makes the mapping work: on
edges that are not sound a walk need not be a sequence at all.

`SurfaceLifeProofs` proves for any number of surfaces and any length of the queue:

- `RelationsSound` (with its parts `TypesKept` and `SatellitesNoWindows`) and
  `NoGhosts` for `Spec`: types, `ParentsDrawSatellites`,
  `NoSatelliteInShell` and `NoGhost`, whatever clients request;
- `DrawnOnce`, `RecursionEnds`, `WindowsReady` for `CarefulSpec`:
  `DrawnWithParentOnly`, `ContextEnds` and `ManagedIsReady`.

The strengthening they share is `RelationsKnown`: relations only name IDs that
were given out, so a new surface is in no relation yet. `ContextEnds` (every
set of surfaces has one that draws no other of the set) is preserved together
with `DrawnWithParentOnly`: when s becomes a satellite of p, the surfaces of a
set that are not above p draw only each other, and `NotAbove` puts s among
them. `ManagedIsReady` is stated about the last signal of each surface in the
queue, which makes it inductive: a surface that stops being ready always has a
destroyed signal appended, and receiving a signal only moves what it announced
into `managed`.

`ProgramProofs` proves for any number of outside events, from
`ProgramAssumption` (which threads, handlers, signals and locks there are):

- `NoLostWakeup`: no loop sleeps on its condition variable while its queue
  holds a message or it has something to do (`NobodySleepsOnWork`);
- `LockOrder`: threads wait for each other's locks in a circle only where a
  handler of main meets a thread that adds or removes a handler
  (`OnlyHandlersDeadlock`); no thread waits for a lock it holds.

The runs have one outside event, the theorems any number. The invariant
`IInv == TypeOK /\ Duties /\ Held /\ Rested /\ NobodySleepsOnWork` says what the
lists `todo` can look like. `Duties` is the shape of the operations of a thread: a
lock is followed by a use of the dispatcher and the unlock, waiting operations come
last, only main and the service process handlers. `Held` derives from the holder
of a lock what it still has to do: who holds the coordinator's has at most one
use of the dispatcher left before the unlock; a dispatcher's lock is held by main, a
local dispatcher's by the Wayland thread, until the unlock at the end of the
handler. `Rested`: who waits for a message has nothing to do. `LockOrder` follows:
who waits for the coordinator's lock waits for a thread that wants the
dispatcher's next or nothing, and that one waits for main only. Locks and queues
are changed by one lemma per operation (`Dharma`), and the lists a thread is given
at the start, by a signal or by a handler are shown to be duties once each.

`FrontendProofs` proves for any number of clients, surfaces, images, objects, sizes and
messages, and for any groups of interfaces, from `BoundsAssumption` and
`ProxiesAssumption` (bounds are natural numbers, a group names no more clients than
there are):

- `OutputsAlwaysListed`, `SizesAlwaysCurrent`, `FocusAlwaysTold`,
  `SelectionAlwaysCurrent`, `DeadAlwaysLeaveNothing`: the five invariants that
  `frontend` checks on two clients, two surfaces and a queue of two messages.

In the model the bounds limit how much a run does, never what a handler does, so the
theorems say that nothing in the properties depends on them. The invariant has one
part per property, and two parts the others rest on:

- `TypeOK` and `SurfacesOwned`: a surface is in the proxy of the client the mediator
  names, which is connected; windows and objects name surfaces of their own client.
  Without it a message about a surface could tell a client that the surface is not
  of, and `terminate` could leave some behind.
- `MemoryOwned`: a stored pool is one of its maker's proxy, and so is the pool of a view
  that was not replaced. It gives `DeadLeaveNothing`.
- `FocusChain(d)` for each device: a message about the focus starts where the one before it
  in the queue ended, the last one ends at the focus there is, and a client that believes to
  have the device was entered with the surface the first one starts from. Handling a
  message moves that client along; destroying a surface or removing a client
  (`ClientAfter`) takes it from both sides of the chain. `FocusTold` follows
  with the least position of a message (`LeastNat`).
- `SelectionComes`: unless an offer is queued, the client with the keyboard has
  the selection there is or a message in the queue brings it the keyboard to stay,
  with the selection (`Comes`). `SelectionCurrent` is the case of an empty queue.
- `OutputsListed` and `SizeCurrent` are inductive together with the types. The first has two
  parts: the list of every proxy is the engine's, in the order of creation and with the rest on
  its way (`OutputsAgree`), and what a registry told is a beginning of it (`RegistriesListed`).
  It is about what clients were told when they asked; that they learn of later displays
  does not hold (section 4).

The proof has three layers. Each request is shown to create a surface or to have one of
three effects (`SurfaceEffect`, `MemoryEffect`, `DeviceEffect`), each effect is shown to
keep the invariant, and each message, each change by the exhibitor and each client
that comes or goes is shown to keep it by itself. What happens to the queue is said by `Keeps(K, n)`: the messages
of kinds K are the same after n were taken. `Preserved` puts the steps together.

`SessionProofs` proves for any number of surfaces, outputs, displays and keys, any width of
outputs and any length of the queue, from `SessionAssumption` (outputs have a width,
the invalid surface is none of the surfaces, distances are integers, bounds are
natural numbers):

- `CommandsAlwaysWhole`, `DragAlwaysFollowsMode`, `NotifiedAlwaysShown`,
  `HoverAlwaysCurrent`: the four invariants that `session` checks on two surfaces,
  two outputs and a queue of two signals.

`CommandsWhole` and `HoverCurrent` are parts of the inductive invariant, the other two follow
from it. It adds to the types:

- `WorkspaceNamed`: the command being built, which keeps what was executed before, has the
  workspace its direction needs. `Emission` goes through every binding of every mode and
  shows that a key or button comes to nothing, one whole command, one switch of visual mode,
  or one signal that is forwarded (`Allowed`). This is all that `CommandsWhole` needs.
- `ModeComes`: the last MODE in the queue says whether visual mode is on, and if there is
  none, a surface is dragged only while it is. `DragFollowsMode` follows by the greatest
  position of such a signal (`GreatestNat`).
- `FlipsOnce`: a display has its page flip scheduled exactly if it is in the kernel or on its
  way back, never both or twice, and needs to be redrawn only while it is.
- `NotifyFollows`: a LOOK, and a WAKEUP whose handler has finished, have a NOTIFY behind
  them in the queue. `BehindNotified`: while the terminal is active, a display that is
  behind needs to be redrawn, shares its output or has a NOTIFY in the queue. With `FlipsOnce`
  it gives `NotifiedIsShown`.
- `FirstStays`: the first display is at 0, where a wakeup puts every display. So a wakeup of
  any other one ends `Placed`, and `HoverCurrent` is kept with the first.

Redrawing is proved on records of the exhibitor's state (`Sound`): what `RedrawAll` does to a
display serves it and takes nothing from others (`RedrawSound`, `NotifySound`,
`WakeupSound`, `PageflipSound`). A signal to all displays is a recursion over them in
some order: `Going` shows that the function it is defined by exists, `GoneSound` that all the
states it goes through are sound and that each display is served from when it is
visited. That there is a right most end of displays (`NewPosition`) and a
nearest point of an area (`ClampedIn`) is proved as well, as the code's folds take them for
granted.

`ClientAppsProofs` and `ClientStepProofs` prove for any number of displays and runs, any
number of objects and messages on their way and any subset of the three applications,
from `WidthAssumption` (a display has a width) and `AppsAssumption` (there are three
applications):

- `AlwaysUnderstood`: the invariant `Understood` that `clients` checks on two displays
  and two runs; it follows from `Invariant`.

`Understood` is about the first message on each side only, and says nothing of those
behind it, so it is far from inductive. `IInv` is about all messages, those read and those
still in the socket, in one line of events (`pending`). Its part `World` says what the two
sides agree on:

- `KnownOK`: what the server knows the client has made, with the same kind; a callback is
  known to no one but the client. `ObjectsSure`: what the client has made the
  server knows or will know from a request on its way (`Sure`), images it may reject aside.
- `MakesOK`: a request brings an ID no other one brings and the server does not know.
  `TargetsOK`: the objects it names are known once the requests before it are handled.
- `EventsOK`: an event finds an object of the kind it is for. `DeletesOK`: an ID is
  deleted once, only if a callback has it, and no event behind it and no request on its
  way is about it. This makes it safe to use an ID again.
- `StoreOK`, `OutputsOK`: what the store and the drafts of outputs name are objects of that kind.

`Stage` says how far the application is, as handlers take things from the store that
listeners put there: globals are announced before the first callback is done, and until the
second one is on its way nothing is made of them (`GlobalsInTime`, `Early`); when it
arrives, what the application requires is there or the run ends first (`InitKnown`); an output is
complete by then (`OutputComes`: the request that binds it stands before the
synchronization, or the events about it before its answer); a screenshot has outputs and
buffers left (`Taking`).

The proof has lemmas about lines of messages first: what a request that is sent (`MaySend`)
or served (`MayTell`) does to `Core`. Then one lemma per handler of the client
(`...Handled`) says that it takes the event off the line and leaves everything else, with
what was sent behind (`After`), and one per listener that it sends only what the stage
allows. One lemma per action puts them together (`...OK`), and `StepOK` the actions.

Induction over natural numbers is used in the form of `NumberFacts`: a nonempty set of
them has a least one (`LeastNat`, from the library's well-foundedness of < and `WFMin`), a
bounded one a greatest, and a set that has 0 and successors has all (`SetInduction`).
Each use names the set, which avoids theorems with an operator as a parameter.

Model-checked only: the liveness properties `GhostsLeave`, `EmittedIsTaken`,
`StopsCleanly`, `FrameAnswered`, `ScreenshotAnswered` and `SavesWhole` (temporal
reasoning under fairness); everything about the compositor (its algorithms recur over
the tree); and what section 5 does not name of the program.

## 6. Not modelled

- Sizes and positions of frames (`homogenize`, `resize`, `move_with_contents`) and
  what follows from them: which frame is under a position, how space is shared.
  They are arithmetic on a tree without interleaving.
- Arithmetic of sizes and offsets of surfaces, the order of satellites, key and
  motion events to clients, and transfers of data between clients after the
  selection is known.
- Timers, signal masks, the parsing of arguments and configuration files,
  spawning of programs, logging.
- DRM, GBM, EGL, OpenGL, evdev, udev and xkbcommon beyond the answers that matter
  to the models; the drawing of cursor, background and panel and of the example
  clients; the commands of `perceptiactl` that print. They have no protocol of their own beyond calls of
  libraries.

What could come next: the lock of the storage in `Program`, more events there by
a coarser model of the loops; the abstract specification of what the storage
promises the exhibitor; positions in `FrameTree`.
