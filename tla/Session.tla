-------------------------------- MODULE Session --------------------------------
(***************************************************************************)
(* A session at the screen: keys and buttons in the main thread, displays  *)
(* and the pointer in the exhibitor's, the terminal and the kernel.  The   *)
(* main thread and others push signals onto the queue of the exhibitor,    *)
(* which takes them one by one.                                            *)
(***************************************************************************)
EXTENDS Gears, Displays

CONSTANTS
    Occasions,      \* sets of keys and of other things that happen in a behaviour
    Steps,          \* distances the mouse moves, forth and back
    MaxOutputs,     \* bound on outputs found
    MaxEvents,      \* bound on what else happens with one output,
    MaxFew,         \* and with several ones
    MaxInbox        \* bound on signals not taken by the exhibitor

ASSUME SessionAssumption ==
    /\ Width \in Nat \ {0}
    /\ Invalid \notin Sids /\ Steps \subseteq Int
    /\ \A n \in {MaxOutputs, MaxEvents, MaxFew, MaxInbox} : n \in Nat

VARIABLES
    occasion,   \* keys used and things that happen in this behaviour
    held,       \* keys and buttons that are pressed
    inbox,      \* signals pushed and not taken by the exhibitor
    terminal,   \* "active", "leaving", "away", "returning" or "waking"
    found,      \* outputs found so far
    events      \* what else happened so far

session == <<gears, exhibitor, occasion, held, inbox, terminal, found, events>>

Signal(kind) == [kind |-> kind]

Notify == Signal("NOTIFY")

Init ==
    /\ GearsInit /\ DisplaysInit
    /\ occasion \in Occasions /\ held = {}
    /\ inbox = <<>>
    /\ terminal = "active"
    /\ found = 0 /\ events = 0

(* The kernel lets the program use its outputs.                            *)
MayDraw == terminal \in {"active", "leaving", "returning", "waking"}

Push(signals) ==
    /\ Len(inbox) < MaxInbox
    /\ inbox' = inbox \o signals

Happens(thing) ==
    /\ thing \in occasion
    /\ events < IF "outputs" \in occasion THEN MaxFew ELSE MaxEvents
    /\ events' = events + 1

(* The main thread is in no handler, and the exhibitor has an output.      *)
Handles == terminal # "waking" /\ displays # Empty

-----------------------------------------------------------------------------
(* The main thread: what the handlers of devices do.                       *)
(* The exhibitor does not listen to keys.                                  *)
Forwarded(out) == IF \E i \in DOMAIN out : out[i].kind = "KEY" THEN <<>> ELSE out

Things == Sids \union {"mouse", "touchpad", "look", "terminal", "outputs"}

Keys == UNION Occasions \ Things

Buttons == {"BtnLeft"}

Emitted(k, pressed) == IF k \in Buttons THEN EmitButton(k, pressed) ELSE EmitKey(k, pressed)

KeyEvent(k, pressed) ==
    /\ Handles /\ Happens(k)
    /\ pressed = (k \notin held)
    /\ held' = IF pressed THEN held \union {k} ELSE held \ {k}
    /\ modifiers' = UpdatedModifiers(k, pressed)
    /\ Manage(Emitted(k, pressed))
    /\ Push(Forwarded(Emitted(k, pressed).out))
    /\ terminal' = IF pressed /\ SwitchesTerminal(k) /\ terminal = "active" THEN "leaving" ELSE terminal
    /\ UNCHANGED <<exhibitor, occasion, found>>

PointerEvent ==
    /\ Handles
    /\ \/ Happens("mouse") /\ \E v \in Steps \union {-s : s \in Steps} : Push(<<[kind |-> "MOTION", vector |-> v]>>)
       \/ Happens("touchpad") /\ \E x \in Area(0) : Push(<<[kind |-> "POSITION", position |-> x]>>)
       \/ Happens("touchpad") /\ pointer.last # {} /\ Push(<<Signal("RESET")>>)
    /\ UNCHANGED <<gears, exhibitor, occasion, held, terminal, found>>

(* The kernel has done a page flip, and its handler tells of it.           *)
PageFlip(d) ==
    /\ terminal # "waking" /\ d \in flips
    /\ flips' = flips \ {d}
    /\ inbox' = Append(inbox, [kind |-> "PAGE_FLIP", id |-> d])
    /\ UNCHANGED <<gears, displays, behind, pointer, dragger, windows, stack, kfsid,
                   occasion, held, terminal, found, events>>

(* Somebody else switches to another terminal.                             *)
SwitchAway ==
    /\ Happens("terminal")
    /\ terminal = "active" /\ terminal' = "leaving"
    /\ UNCHANGED <<gears, exhibitor, occasion, held, inbox, found>>

(* The handler of SIGUSR1; the screen shows something else from now on.    *)
HandleDeactivation ==
    /\ terminal = "leaving" /\ terminal' = "away"
    /\ behind' = DOMAIN displays
    /\ inbox' = Append(inbox, Signal("SUSPEND"))
    /\ UNCHANGED <<gears, displays, flips, pointer, dragger, windows, stack, kfsid,
                   occasion, held, found, events>>

SwitchBack ==
    /\ terminal = "away" /\ terminal' = "returning"
    /\ UNCHANGED <<gears, exhibitor, occasion, held, inbox, found, events>>

(* The handler of SIGUSR2, which pushes two signals one after the other.   *)
HandleActivation ==
    /\ \/ terminal = "returning" /\ terminal' = "waking" /\ inbox' = Append(inbox, Signal("WAKEUP"))
       \/ terminal = "waking" /\ terminal' = "active" /\ inbox' = Append(inbox, Notify)
    /\ UNCHANGED <<gears, exhibitor, occasion, held, found, events>>

-----------------------------------------------------------------------------
(* Other threads: outputs found by the device manager, once and again when *)
(* they are looked for again, and what becomes of surfaces.                *)
PublishOutput(c) ==
    /\ found < IF "outputs" \in occasion THEN MaxOutputs ELSE 1
    /\ Push(<<[kind |-> "OUTPUT_FOUND", connector |-> c]>>)
    /\ found' = found + 1
    /\ UNCHANGED <<gears, exhibitor, occasion, held, terminal, events>>

SurfaceSignal ==
    /\ displays # Empty
    /\ \/ \E s \in Sids :
            /\ Happens(s)
            /\ Push(<<[kind |-> IF s \in DOMAIN windows THEN "SURFACE_DESTROYED" ELSE "SURFACE_READY",
                       sid |-> s]>>)
       \/ Happens("look") /\ Push(<<Signal("LOOK"), Notify>>)
    /\ UNCHANGED <<gears, exhibitor, occasion, held, terminal, found>>

-----------------------------------------------------------------------------
(* The exhibitor takes a signal; "signals" are those it pushes meanwhile.  *)
Takes(kind) == inbox # <<>> /\ Head(inbox).kind = kind

Pushes(signals) ==
    /\ inbox' = Tail(inbox)
                \o (IF kfsid' = kfsid THEN <<>> ELSE <<[kind |-> "FOCUS", sid |-> kfsid']>>)
                \o signals
    /\ UNCHANGED <<gears, occasion, held, terminal, found, events>>

Take ==
    LET m == Head(inbox)
    IN  \/ Takes("NOTIFY") /\ OnNotify(MayDraw) /\ Pushes(<<>>)
        \/ Takes("WAKEUP") /\ OnWakeup(MayDraw) /\ Pushes(<<>>)
        \/ Takes("SUSPEND") /\ UNCHANGED exhibitor /\ Pushes(<<>>)
        \/ Takes("PAGE_FLIP") /\ OnPageflip(m.id, MayDraw) /\ Pushes(<<>>)
        \/ Takes("OUTPUT_FOUND") /\ OnOutputFound(m.connector, MayDraw) /\ Pushes(<<>>)
        \/ Takes("MOTION") /\ OnMotion(m.vector) /\ Pushes(<<Notify>>)
        \/ Takes("POSITION") /\ OnPosition(m.position) /\ Pushes(<<Notify>>)
        \/ Takes("RESET") /\ OnPositionReset /\ Pushes(<<>>)
        \/ Takes("BUTTON") /\ OnButton(m.pressed) /\ Pushes(<<>>)
        \/ Takes("MODE") /\ OnModeSwitched(m.active) /\ Pushes(<<>>)
        \/ Takes("FOCUS") /\ OnKeyboardFocusChanged(m.sid) /\ Pushes(<<>>)
        \/ Takes("LOOK") /\ OnLookChanged /\ Pushes(<<>>)

TakeSurface ==
    LET s == Head(inbox).sid
    IN  \/ Takes("SURFACE_READY") /\ OnSurfaceReady(s) /\ Pushes(<<Notify>>)
        \/ Takes("SURFACE_READY") /\ s \in DOMAIN windows /\ UNCHANGED exhibitor /\ Pushes(<<>>)
        \/ Takes("SURFACE_DESTROYED") /\ OnSurfaceDestroyed(s) /\ Pushes(<<Notify>>)
        \/ Takes("SURFACE_DESTROYED") /\ s \notin DOMAIN windows /\ UNCHANGED exhibitor /\ Pushes(<<>>)

(* A command that fails changes nothing.                                   *)
TakeCommand ==
    /\ Takes("COMMAND")
    /\ \/ OnCommand /\ Pushes(<<Notify>>)
       \/ UNCHANGED exhibitor /\ Pushes(<<>>)

Next ==
    \/ \E k \in Keys, pressed \in BOOLEAN : KeyEvent(k, pressed)
    \/ PointerEvent
    \/ \E d \in DOMAIN displays : PageFlip(d)
    \/ SwitchAway \/ HandleDeactivation \/ SwitchBack \/ HandleActivation
    \/ \E c \in Connectors : PublishOutput(c)
    \/ SurfaceSignal
    \/ Take \/ TakeSurface \/ TakeCommand

Spec == Init /\ [][Next]_session

-----------------------------------------------------------------------------
Queued(m) == \E i \in DOMAIN inbox : inbox[i] = m

(* Nobody else draws on the output of the display.                         *)
Alone(d) == \A e \in DOMAIN displays \ {d} : displays[e].connector # displays[d].connector

(* No notification is lost: a display that does not show what it was       *)
(* notified of is going to draw it, with the next notification or with the *)
(* page flip it waits for, however notifications, page flips and switches  *)
(* of the terminal interleave.  Displays on one output, which are created  *)
(* when outputs are looked for again, refuse each other's page flips.      *)
NotifiedIsShown ==
    terminal = "active" =>
        \A d \in behind :
            \/ ~Alone(d) \/ Queued(Notify)
            \/ displays[d].needed /\ (d \in flips \/ Queued([kind |-> "PAGE_FLIP", id |-> d]))

(* Displays where they were placed, not made anew by a wakeup.             *)
Placed == \A d, e \in DOMAIN displays : d # e => AreaOf(displays, d) \intersect AreaOf(displays, e) = {}

(* The pointer is on a display, and the surface that is told of it is the  *)
(* one under it as soon as that display shows the scene, wherever windows  *)
(* and the pointer were moved.                                             *)
HoverCurrent ==
    Placed /\ displays # Empty =>
        \E d \in DOMAIN displays :
            /\ pointer.area = AreaOf(displays, d) /\ pointer.position \in pointer.area
            /\ d \notin behind => pointer.pfsid = Under(d, pointer.position - displays[d].position)

(* A surface is dragged only while visual mode is on, or until the         *)
(* exhibitor takes the signal that it was left.                            *)
DragFollowsMode ==
    dragger # {} => "visual" \in active \/ Queued([kind |-> "MODE", active |-> FALSE])

(* Commands are sent to the compositor whole, whatever was typed in which  *)
(* mode before, and what was left from commands before.                    *)
CommandsWhole ==
    \A i \in DOMAIN inbox :
        inbox[i].kind = "COMMAND" =>
            LET c == inbox[i].command
            IN  /\ c.action # None
                /\ c.direction # None \/ c.action = "Anchor"
                /\ c.magnitude # 0 \/ c.action \in {"Configure", "Anchor"}
                                   \/ c.direction \in {"Begin", "End"}
                /\ c.direction = "Workspace" => c.string # ""
================================================================================
