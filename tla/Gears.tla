-------------------------------- MODULE Gears ---------------------------------
(***************************************************************************)
(* Keys and buttons: the gateway all input devices share, which follows    *)
(* modifiers and catches the switching of terminals, and the input manager *)
(* with its modes, whose bindings build and execute commands.              *)
(*                                                                         *)
(* A binding is identified by a code and the set of modifiers held.  Keys  *)
(* that are bound alike are represented by one of them.                    *)
(***************************************************************************)
EXTENDS Integers, Sequences

VARIABLES
    modifiers,  \* modifiers the gateway believes to be held
    active,     \* modes that are on
    command,    \* the command being built
    previous    \* what of the command was modified last

gears == <<modifiers, active, command, previous>>

None == "None"

ModifierKeys == {"Ctrl", "RightCtrl", "Shift", "RightShift", "Alt", "RightAlt", "Meta", "RightMeta"}

Modes == <<"common", "insert", "normal", "visual">>

NoCommand == [action |-> None, direction |-> None, magnitude |-> 0, string |-> ""]

GearsInit ==
    /\ modifiers = {}
    /\ active = {"common", "insert"}
    /\ command = NoCommand
    /\ previous = None

-----------------------------------------------------------------------------
(* The context executors work on: the input manager, and what it emits.    *)
Context == [active |-> active, command |-> command, previous |-> previous, out |-> <<>>]

SetAction(c, action) == [c EXCEPT !.command.action = action, !.previous = "Action"]

SetDirection(c, direction) == [c EXCEPT !.command.direction = direction, !.previous = "Direction"]

SetMagnitude(c, n) == [c EXCEPT !.command.magnitude = n, !.previous = "Magnitude"]

SetString(c, string) == [c EXCEPT !.command.string = string, !.previous = "String"]

(* What was executed stays, and is the start of the next command.          *)
ExecuteCommand(c) == [c EXCEPT !.out = Append(@, [kind |-> "COMMAND", command |-> c.command])]

CleanCommand(c) == [c EXCEPT !.command = NoCommand, !.previous = None]

(* Mutant: others are told only of a mode that is switched on.             *)
ActivateModeTellingOnce(c, mode, on) ==
    [c EXCEPT !.active = IF on THEN @ \union {mode} ELSE @ \ {mode},
              !.out = IF mode = "visual" /\ on THEN Append(@, [kind |-> "MODE", active |-> on]) ELSE @]

ActivateMode(c, mode, on) ==
    [c EXCEPT !.active = IF on THEN @ \union {mode} ELSE @ \ {mode},
              !.out = IF mode = "visual" THEN Append(@, [kind |-> "MODE", active |-> on]) ELSE @]

Number == [code \in {"0", "1", "2", "Minus"} |->
            CASE code = "0" -> 0 [] code = "1" -> 1 [] code = "2" -> 2 [] OTHER -> -1]

-----------------------------------------------------------------------------
Magnified(c) == IF c.command.magnitude = 0 THEN SetMagnitude(c, 1) ELSE c

PutAction(c, action) ==
    LET d == SetAction(c, action)
    IN  IF d.command.direction = None THEN d ELSE ExecuteCommand(Magnified(d))

(* Mutant: the direction is not waited for by an action.                   *)
PutDirectionAtOnce(c, direction) == ExecuteCommand(Magnified(SetDirection(c, direction)))

PutDirection(c, direction) ==
    LET d == SetDirection(c, direction)
    IN  IF d.command.action = None THEN d ELSE ExecuteCommand(Magnified(d))

(* Digits typed one after another make a number, and minus turns its sign. *)
PutMagnitude(c, code) ==
    SetMagnitude(c,
        IF code \notin DOMAIN Number THEN 1
        ELSE IF c.previous # "Magnitude" THEN Number[code]
        ELSE IF Number[code] = -1 THEN -c.command.magnitude
        ELSE 10 * c.command.magnitude + Number[code])

(* Bindings for a whole command: of one step, or with no magnitude set.    *)
Step1(c, action, direction) ==
    ExecuteCommand(SetMagnitude(SetDirection(SetAction(c, action), direction), 1))

Unmagnified(c, action, direction) ==
    ExecuteCommand(SetDirection(SetAction(c, action), direction))

Focus(c, direction) == Step1(c, "Focus", direction)

Jump(c, direction) == Step1(c, "Jump", direction)

Dive(c, direction) == Step1(c, "Dive", direction)

Reshape(c, direction) == Unmagnified(c, "Configure", direction)

Exalt(c) == Unmagnified(c, "Jump", "Begin")

Ramify(c) == Unmagnified(c, "Jump", "End")

ToggleAnchorization(c) == Unmagnified(c, "Anchor", None)

WithWorkspace(c, action, code) ==
    IF code \notin DOMAIN Number THEN c
    ELSE ExecuteCommand(SetString(SetMagnitude(SetDirection(SetAction(c, action), "Workspace"), 1), code))

SwapModeNormalToInsert(c) == ActivateMode(ActivateMode(c, "normal", FALSE), "insert", TRUE)

SwapModeInsertToNormal(c) == ActivateMode(ActivateMode(c, "insert", FALSE), "normal", TRUE)

-----------------------------------------------------------------------------
(* Default configuration: what is bound in a mode, by code and modifiers.  *)
Does(do, arg) == [do |-> do, arg |-> arg]

Arrow == [code \in {"Right", "Left", "Up", "Down"} |->
            CASE code = "Right" -> "East" [] code = "Left" -> "West"
              [] code = "Up" -> "North" [] OTHER -> "South"]

Away == [code \in {"PageUp", "PageDown", "Home", "End"} |->
            CASE code = "PageUp" -> "Forward" [] code = "PageDown" -> "Backward"
              [] code = "Home" -> "Begin" [] OTHER -> "End"]

Letter == [code \in {"f", "j", "d", "m", "r"} |->
            CASE code = "f" -> "Focus" [] code = "j" -> "Jump" [] code = "d" -> "Dive"
              [] code = "m" -> "Move" [] OTHER -> "Resize"]

Shape == [code \in {"h", "v", "s"} |->
            CASE code = "h" -> "East" [] code = "v" -> "North" [] OTHER -> "End"]

(* A binding: what a code does with modifiers held.                        *)
Bind(code, mods, x) == [code |-> code, mods |-> mods, does |-> x]

CommonBindings == {Bind("Esc", {"Ctrl", "Meta"}, Does("quit", None))}

NormalBindings ==
    UNION {{Bind(code, {}, Does("put_direction", Arrow[code])) : code \in DOMAIN Arrow},
           {Bind(code, {}, Does("put_direction", Away[code])) : code \in DOMAIN Away},
           {Bind(code, {}, Does("put_magnitude", None)) : code \in DOMAIN Number \union {"Plus"}},
           {Bind(code, {}, Does("put_action", Letter[code])) : code \in DOMAIN Letter},
           {Bind(code, {}, Does("configure", Shape[code])) : code \in DOMAIN Shape},
           {Bind("f", {"Shift"}, Does("put_action", "Swap")), Bind("Esc", {}, Does("clean", None))},
           {Bind(code, {}, Does("to_insert", None)) : code \in {"i", "Space"}}}

InsertBindings ==
    UNION {{Bind(code, {"Meta"}, Does("focus", Arrow[code])) : code \in DOMAIN Arrow},
           {Bind("Tab", {"Meta"}, Does("focus", "Forward")),
            Bind("Tab", {"Meta", "Shift"}, Does("focus", "Backward"))},
           {Bind(code, {"Meta", "Shift"}, Does("jump", Arrow[code])) : code \in DOMAIN Arrow},
           {Bind(code, {"Meta", "Alt"}, Does("dive", Arrow[code])) : code \in DOMAIN Arrow},
           {Bind(code, {"Meta"}, Does("workspace", "Focus")) : code \in {"0", "1", "2"}},
           {Bind(code, {"Meta", "Shift"}, Does("workspace", "Jump")) : code \in {"1", "2"}},
           {Bind(code, {"Meta", "Ctrl", "Shift"}, Does("workspace", "Dive")) : code \in {"1", "2"}},
           {Bind("Home", {"Meta"}, Does("exalt", None)), Bind("End", {"Meta"}, Does("ramify", None)),
            Bind("Space", {"Meta"}, Does("anchorize", None)), Bind("BtnLeft", {"Meta"}, Does("drag", None)),
            Bind("Esc", {"Meta"}, Does("to_normal", None)),
            Bind("t", {"Ctrl", "Meta"}, Does("spawn", None))}}

VisualBindings == {Bind("BtnLeft", {"Meta"}, Does("drag", None))}

Bindings == [mode \in {"common", "insert", "normal", "visual"} |->
                CASE mode = "common" -> CommonBindings [] mode = "insert" -> InsertBindings
                  [] mode = "normal" -> NormalBindings [] OTHER -> VisualBindings]

(* Quitting and spawning do not concern the manager.                       *)
Activate(x, c, code) ==
    CASE x.do = "put_action"    -> PutAction(c, x.arg)
      [] x.do = "put_direction" -> PutDirection(c, x.arg)
      [] x.do = "put_magnitude" -> PutMagnitude(c, code)
      [] x.do = "clean"         -> CleanCommand(c)
      [] x.do = "configure"     -> Reshape(c, x.arg)
      [] x.do = "focus"         -> Focus(c, x.arg)
      [] x.do = "jump"          -> Jump(c, x.arg)
      [] x.do = "dive"          -> Dive(c, x.arg)
      [] x.do = "workspace"     -> WithWorkspace(c, x.arg, code)
      [] x.do = "exalt"         -> Exalt(c)
      [] x.do = "ramify"        -> Ramify(c)
      [] x.do = "anchorize"     -> ToggleAnchorization(c)
      [] x.do = "to_insert"     -> SwapModeNormalToInsert(c)
      [] x.do = "to_normal"     -> SwapModeInsertToNormal(c)
      [] x.do = "drag"          -> ActivateMode(c, "visual", TRUE)
      [] OTHER                  -> c

Release(x, c) == IF x.do = "drag" THEN ActivateMode(c, "visual", FALSE) ELSE c

(* Active modes that know the binding: normal mode has a default executor, *)
(* which does nothing, for everything.                                     *)
Bound(mode, code, mods) == {b \in Bindings[mode] : b.code = code /\ b.mods = mods}

Knowing(code, mods) ==
    {i \in DOMAIN Modes :
        Modes[i] \in active /\ (Modes[i] = "normal" \/ Bound(Modes[i], code, mods) # {})}

FindExecutor(code, mods) ==
    LET first == CHOOSE i \in Knowing(code, mods) : \A j \in Knowing(code, mods) : i <= j
        bound == Bound(Modes[first], code, mods)
    IN  IF bound = {} THEN Does("nop", None) ELSE (CHOOSE b \in bound : TRUE).does

(* What is not caught is forwarded.                                        *)
Catch(code, pressed, mods, forwarded) ==
    IF Knowing(code, mods) = {} THEN [Context EXCEPT !.out = <<forwarded>>]
    ELSE IF pressed THEN Activate(FindExecutor(code, mods), Context, code)
    ELSE Release(FindExecutor(code, mods), Context)

-----------------------------------------------------------------------------
UpdatedModifiers(code, pressed) ==
    IF code \notin ModifierKeys THEN modifiers
    ELSE IF pressed THEN modifiers \union {code} ELSE modifiers \ {code}

SwitchesTerminal(code) ==
    /\ code = "F2"
    /\ \E alt \in {"Alt", "RightAlt"}, ctrl \in {"Ctrl", "RightCtrl"} : modifiers = {alt, ctrl}

Manage(c) ==
    /\ active' = c.active
    /\ command' = c.command
    /\ previous' = c.previous

(* A modifier pressed twice is not told of twice.                          *)
AlreadyHeld(code, pressed) == pressed /\ code \in ModifierKeys /\ code \in modifiers

(* emit_key and emit_button of the gateway; repeats are ignored, and keys  *)
(* that switch the terminal are caught with nothing to be told.            *)
EmitKey(code, pressed) ==
    LET mods == UpdatedModifiers(code, pressed)
    IN  IF AlreadyHeld(code, pressed) \/ SwitchesTerminal(code) THEN Context
        ELSE Catch(code, pressed, mods, [kind |-> "KEY", code |-> code, pressed |-> pressed])

EmitButton(code, pressed) ==
    Catch(code, pressed, modifiers, [kind |-> "BUTTON", pressed |-> pressed])
================================================================================
