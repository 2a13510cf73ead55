------------------------------- MODULE Displays --------------------------------
(***************************************************************************)
(* Displays of the exhibitor, with the page flips of their outputs, and    *)
(* the pointer.  Positions have one dimension.  The compositor is reduced  *)
(* to the places of windows: a window takes one position of one display.   *)
(*                                                                         *)
(* What is drawn is reduced to whether it is up to date: a display is      *)
(* behind when the scene has changed, in a way displays are notified of,   *)
(* and neither is the new one shown nor is a page flip to it on its way.   *)
(***************************************************************************)
EXTENDS Integers, Sequences, FiniteSets

CONSTANTS
    Connectors,     \* connected outputs
    Width,          \* of an output
    Sids            \* surfaces

VARIABLES
    displays,   \* by ID: connector, position, frame, and the two flags of redrawing
    flips,      \* displays whose page flip the kernel has not done
    behind,     \* displays that do not show the scene
    pointer,    \* position, area of its display, last position of the device, focuses
    dragger,    \* surface being dragged and the position of the pointer, if any
    windows,    \* display and position on it of managed surfaces
    stack,      \* managed surfaces, the last one drawn on top
    kfsid       \* keyboard focus according to the coordinator

exhibitor == <<displays, flips, behind, pointer, dragger, windows, stack, kfsid>>

Invalid == "invalid"

Area(start) == start..(start + Width - 1)

AreaOf(ds, d) == Area(ds[d].position)

Empty == [x \in {} |-> x]

DisplaysInit ==
    /\ displays = Empty
    /\ flips = {} /\ behind = {}
    /\ pointer = [position |-> 0, area |-> {}, last |-> {}, pfsid |-> Invalid, kfsid |-> Invalid]
    /\ dragger = {}
    /\ windows = Empty /\ stack = <<>>
    /\ kfsid = Invalid

(* The state redrawing works on.                                           *)
Now == [displays |-> displays, flips |-> flips, behind |-> behind, pointer |-> pointer]

Becomes(x) ==
    /\ displays' = x.displays
    /\ flips' = x.flips
    /\ behind' = x.behind
    /\ pointer' = x.pointer

Changed(x) == [x EXCEPT !.behind = DOMAIN x.displays]

-----------------------------------------------------------------------------
(* The surface on top at a position of a display.                          *)
Under(d, position) ==
    LET there == {i \in DOMAIN stack : windows[stack[i]] = <<d, position>>}
    IN  IF there = {} THEN Invalid ELSE stack[CHOOSE i \in there : \A j \in there : j <= i]

(* The stack without a surface that is in it.                              *)
Without(s) ==
    LET at == CHOOSE i \in DOMAIN stack : stack[i] = s
    IN  [i \in 1..(Len(stack) - 1) |-> stack[IF i < at THEN i ELSE i + 1]]

(* Mutant: the hovered surface is looked for in global coordinates.        *)
UpdateHoverStateGlobally(x, d) ==
    IF x.pointer.area # AreaOf(x.displays, d) THEN x
    ELSE [x EXCEPT !.pointer.pfsid = Under(d, x.pointer.position)]

UpdateHoverState(x, d) ==
    IF x.pointer.area # AreaOf(x.displays, d) THEN x
    ELSE [x EXCEPT !.pointer.pfsid = Under(d, x.pointer.position - x.displays[d].position)]

(* The kernel refuses a page flip on a busy output, and to a program whose *)
(* terminal is not active.                                                 *)
SchedulePageflip(x, d, active) ==
    IF x.displays[d].scheduled
       \/ ~active
       \/ \E e \in x.flips : x.displays[e].connector = x.displays[d].connector
    THEN x
    ELSE [x EXCEPT !.displays[d].scheduled = TRUE, !.flips = @ \union {d}, !.behind = @ \ {d}]

(* The scene is drawn whether it can be shown or not.                      *)
RedrawAll(x, d, active) ==
    SchedulePageflip([UpdateHoverState(x, d) EXCEPT !.displays[d].needed = FALSE], d, active)

(* Mutant: a notification is ignored when a page flip is scheduled.        *)
DisplayOnNotifyUnscheduled(x, d, active) ==
    IF x.displays[d].needed \/ x.displays[d].scheduled THEN x ELSE RedrawAll(x, d, active)

DisplayOnNotify(x, d, active) ==
    IF x.displays[d].needed THEN x
    ELSE IF x.displays[d].scheduled THEN [x EXCEPT !.displays[d].needed = TRUE]
    ELSE RedrawAll(x, d, active)

(* The output is made anew, at the default position, and sets its mode,    *)
(* which shows what is drawn first.  Whether a page flip was scheduled is  *)
(* not forgotten.  A terminal lost again meanwhile lets it fail.           *)
DisplayOnWakeup(x, d, active) ==
    IF ~active THEN x
    ELSE LET new == [x EXCEPT !.displays[d].position = 0, !.behind = @ \ {d}]
         IN  RedrawAll(new, d, active)

DisplayOnPageflip(x, d, active) ==
    LET done == [x EXCEPT !.displays[d].scheduled = FALSE]
    IN  IF done.displays[d].needed THEN RedrawAll(done, d, active) ELSE done

(* Displays are gone through in any order.                                 *)
Orders == {order \in [1..Cardinality(DOMAIN displays) -> DOMAIN displays] :
            \A d \in DOMAIN displays : \E i \in DOMAIN order : order[i] = d}

DisplayOn(signal, x, d, active) ==
    IF signal = "WAKEUP" THEN DisplayOnWakeup(x, d, active) ELSE DisplayOnNotify(x, d, active)

GoneThrough(signal, order, active) ==
    LET after[i \in 0..Len(order)] ==
            IF i = 0 THEN Now ELSE DisplayOn(signal, after[i - 1], order[i], active)
    IN  after[Len(order)]

OnAll(signal, active) ==
    /\ \E order \in Orders : Becomes(GoneThrough(signal, order, active))
    /\ UNCHANGED <<dragger, windows, stack, kfsid>>

OnNotify(active) == OnAll("NOTIFY", active)

OnWakeup(active) == OnAll("WAKEUP", active)

OnPageflip(d, active) ==
    /\ Becomes(DisplayOnPageflip(Now, d, active))
    /\ UNCHANGED <<dragger, windows, stack, kfsid>>

(* The right most end of displays.                                         *)
ChooseNewDisplayPosition ==
    CHOOSE p \in {0} \union {displays[d].position + Width : d \in DOMAIN displays} :
        \A d \in DOMAIN displays : p >= displays[d].position + Width

ChangeDisplay(p, area, center) == [p EXCEPT !.position = center, !.area = area]

(* Each output found gets a new ID; the frame of a display stays where it  *)
(* is created.  The output sets its mode when created, and fails if the    *)
(* program may not.                                                        *)
OnOutputFound(c, active) ==
    LET d     == Cardinality(DOMAIN displays) + 1
        start == ChooseNewDisplayPosition
        new   == [connector |-> c, position |-> start, frame |-> start,
                  needed |-> TRUE, scheduled |-> FALSE]
        all   == [e \in DOMAIN displays \union {d} |-> IF e = d THEN new ELSE displays[e]]
        moved == IF displays = Empty THEN ChangeDisplay(pointer, Area(start), (start + Width) \div 2)
                 ELSE pointer
    IN  /\ Becomes(IF active THEN RedrawAll([Now EXCEPT !.displays = all, !.pointer = moved], d, active)
                   ELSE Now)
        /\ UNCHANGED <<dragger, windows, stack, kfsid>>

-----------------------------------------------------------------------------
Distance(x, y) == IF x < y THEN y - x ELSE x - y

Clamped(x, area) ==
    IF area = {} THEN 0
    ELSE CHOOSE p \in area : \A q \in area : Distance(p, x) <= Distance(q, x)

(* The pointer at x, on a display there is: the one it was on, or else any *)
(* that contains x, or else pushed back to the one it was on.              *)
Cast(p, x) ==
    LET found == {d \in DOMAIN displays : x \in AreaOf(displays, d)}
    IN  IF x \in p.area THEN {[p EXCEPT !.position = x]}
        ELSE IF found # {} THEN {[p EXCEPT !.position = x, !.area = AreaOf(displays, d)] : d \in found}
        ELSE {[p EXCEPT !.position = Clamped(x, p.area)]}

(* The position of a touchpad moves the pointer by the distance to the one *)
(* before.                                                                 *)
UpdatePosition(x) ==
    LET vector == IF pointer.last = {} THEN 0 ELSE x - CHOOSE l \in pointer.last : TRUE
    IN  Cast([pointer EXCEPT !.last = {x}], pointer.position + vector)

MoveAndCast(vector) == Cast(pointer, pointer.position + vector)

(* A window goes with the pointer, to the display the pointer is on if     *)
(* that is another one, and then on top there.                             *)
DragSurfaceIfNeeded(p) ==
    /\ dragger' = {[g EXCEPT !.position = p.position] : g \in dragger}
    /\ \/ UNCHANGED <<windows, stack>> /\ \A g \in dragger : g.sid \notin DOMAIN windows
       \/ \E g \in {h \in dragger : h.sid \in DOMAIN windows}, to \in DOMAIN displays :
            LET from   == windows[g.sid][1]
                global == displays[from].frame + windows[g.sid][2] + p.position - g.position
            IN  /\ p.position \in Area(displays[to].frame)
                /\ windows' = [windows EXCEPT ![g.sid] = <<to, global - displays[to].frame>>]
                /\ stack' = IF to = from THEN stack ELSE Append(Without(g.sid), g.sid)

(* Motions notify displays.                                                *)
OnMoved(moves) ==
    \E p \in moves :
        /\ DragSurfaceIfNeeded(p)
        /\ Becomes(Changed([Now EXCEPT !.pointer = p]))
        /\ UNCHANGED kfsid

OnMotion(vector) == OnMoved(MoveAndCast(vector))

OnPosition(x) == OnMoved(UpdatePosition(x))

OnPositionReset ==
    /\ pointer' = [pointer EXCEPT !.last = {}]
    /\ UNCHANGED <<displays, flips, behind, dragger, windows, stack, kfsid>>

(* Raising the window under the pointer, and selecting it, which changes   *)
(* what is drawn without notifying displays.                               *)
OnButton(pressed) ==
    LET s == pointer.pfsid
    IN  /\ IF pressed /\ pointer.kfsid # s /\ s \in DOMAIN windows
           THEN stack' = Append(Without(s), s) /\ kfsid' = s
           ELSE UNCHANGED <<stack, kfsid>>
        /\ UNCHANGED <<displays, flips, behind, pointer, dragger, windows>>

OnKeyboardFocusChanged(s) ==
    /\ pointer' = [pointer EXCEPT !.kfsid = s]
    /\ UNCHANGED <<displays, flips, behind, dragger, windows, stack, kfsid>>

OnModeSwitched(active) ==
    /\ dragger' = IF ~active THEN {}
                  ELSE IF pointer.pfsid = Invalid THEN dragger
                  ELSE {[sid |-> pointer.pfsid, position |-> pointer.position]}
    /\ UNCHANGED <<displays, flips, behind, pointer, windows, stack, kfsid>>

-----------------------------------------------------------------------------
(* The cursor or the background changes; who changes it notifies.          *)
OnLookChanged ==
    /\ Becomes(Changed(Now))
    /\ UNCHANGED <<dragger, windows, stack, kfsid>>

(* A window appears somewhere, on top and selected or not.                 *)
OnSurfaceReady(s) ==
    /\ s \notin DOMAIN windows
    /\ \E d \in DOMAIN displays, x \in Area(0) :
        windows' = [t \in DOMAIN windows \union {s} |-> IF t = s THEN <<d, x>> ELSE windows[t]]
    /\ stack' = Append(stack, s)
    /\ kfsid' \in {kfsid, s}
    /\ Becomes(Changed(Now))
    /\ UNCHANGED dragger

OnSurfaceDestroyed(s) ==
    /\ s \in DOMAIN windows
    /\ windows' = [t \in DOMAIN windows \ {s} |-> windows[t]]
    /\ stack' = Without(s)
    /\ kfsid' \in {kfsid} \union IF kfsid = s THEN DOMAIN windows \ {s} ELSE {}
    /\ Becomes(Changed(Now))
    /\ UNCHANGED dragger

(* A command moves or raises a window.                                     *)
OnCommand ==
    /\ \E s \in DOMAIN windows, d \in DOMAIN displays, x \in Area(0) :
        /\ windows' = [windows EXCEPT ![s] = <<d, x>>]
        /\ stack' = Append(Without(s), s)
        /\ kfsid' \in {kfsid, s}
    /\ Becomes(Changed(Now))
    /\ UNCHANGED dragger
================================================================================
