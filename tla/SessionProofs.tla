------------------------------ MODULE SessionProofs ------------------------------
(***************************************************************************)
(* Proofs about a session at the screen, for any number of surfaces,       *)
(* outputs, keys and signals: commands and dragging follow the modes, no   *)
(* notification of displays is lost, and the pointer's focus is under it.  *)
(***************************************************************************)
EXTENDS Session, NumberFacts, FiniteSetTheorems, TLAPS

Actions == {"Focus", "Jump", "Dive", "Move", "Resize", "Swap", "Configure", "Anchor"}

Directions == {"East", "West", "North", "South", "Forward", "Backward", "Begin", "End", "Workspace"}

Command ==
    [action : Actions \union {None}, direction : Directions \union {None}, magnitude : Int,
     string : {""} \union DOMAIN Number]

Surface == Sids \union {Invalid}

Message ==
    UNION {[kind : {"NOTIFY", "WAKEUP", "SUSPEND", "LOOK", "RESET"}],
           [kind : {"PAGE_FLIP"}, id : Nat],
           [kind : {"OUTPUT_FOUND"}, connector : Connectors],
           [kind : {"MOTION"}, vector : Int],
           [kind : {"POSITION"}, position : Int],
           [kind : {"BUTTON"}, pressed : BOOLEAN],
           [kind : {"MODE"}, active : BOOLEAN],
           [kind : {"COMMAND"}, command : Command],
           [kind : {"FOCUS"}, sid : Surface],
           [kind : {"SURFACE_READY", "SURFACE_DESTROYED"}, sid : Sids]}

Display ==
    [connector : Connectors, position : Int, frame : Int, needed : BOOLEAN, scheduled : BOOLEAN]

Pointer ==
    [position : Int, area : SUBSET Int, last : SUBSET Int, pfsid : Surface, kfsid : Surface]

Dragged == [sid : Surface, position : Int]

(* Displays whose page flips are on their way back from the kernel.        *)
Returning == {inbox[i].id : i \in {j \in 1..Len(inbox) : inbox[j].kind = "PAGE_FLIP"}}

TypeOK ==
    /\ active \subseteq {"common", "insert", "normal", "visual"} /\ command \in Command
    /\ \E n \in Nat : DOMAIN displays = 1..n
    /\ displays \in [DOMAIN displays -> Display]
    /\ flips \subseteq DOMAIN displays /\ behind \subseteq DOMAIN displays
    /\ pointer \in Pointer /\ dragger \subseteq Dragged
    /\ DOMAIN windows \subseteq Sids /\ stack \in Seq(Sids) /\ kfsid \in Surface
    /\ inbox \in Seq(Message)
    /\ Returning \subseteq DOMAIN displays

(* The command in the making has the workspace its direction needs.        *)
WorkspaceNamed(c) == c.direction = "Workspace" => c.string # ""

(* The exhibitor is told of the last change of visual mode last.           *)
ModeComes ==
    /\ \A i \in 1..Len(inbox) :
        inbox[i].kind = "MODE" /\ (\A j \in (i + 1)..Len(inbox) : inbox[j].kind # "MODE") =>
            inbox[i].active = ("visual" \in active)
    /\ (\A i \in 1..Len(inbox) : inbox[i].kind # "MODE") /\ dragger # {} => "visual" \in active

(* The page flip that a display believes to be scheduled is either in the  *)
(* kernel or on its way back.                                              *)
Flipping(x, Q) ==
    \A d \in DOMAIN x.displays :
        /\ x.displays[d].scheduled <=> d \in x.flips \union Q
        /\ d \in x.flips => d \notin Q
        /\ x.displays[d].needed => x.displays[d].scheduled

FlipsOnce ==
    /\ Flipping(Now, Returning)
    /\ \A i, j \in 1..Len(inbox) :
        inbox[i].kind = "PAGE_FLIP" /\ inbox[j].kind = "PAGE_FLIP" /\ inbox[i].id = inbox[j].id => i = j

(* What does not notify displays by itself has a notification behind it.   *)
NotifyFollows ==
    \A i \in 1..Len(inbox) :
        inbox[i].kind = "LOOK" \/ (inbox[i].kind = "WAKEUP" /\ terminal # "waking") =>
            \E j \in (i + 1)..Len(inbox) : inbox[j].kind = "NOTIFY"

(* A display that is behind and needs no redrawing will be notified.       *)
BehindNotified ==
    terminal = "active" =>
        \A d \in behind :
            ~Alone(d) \/ displays[d].needed \/ \E i \in 1..Len(inbox) : inbox[i].kind = "NOTIFY"

(* The first display stays where it is.                                    *)
FirstStays == 1 \in DOMAIN displays => displays[1].position = 0

IInv ==
    /\ TypeOK /\ WorkspaceNamed(command) /\ CommandsWhole /\ ModeComes
    /\ FlipsOnce /\ NotifyFollows /\ BehindNotified
    /\ FirstStays /\ HoverCurrent

-----------------------------------------------------------------------------
(* What a key or a button may come to: the manager is told of nothing, or  *)
(* of one thing.                                                           *)
Whole(c) ==
    /\ c.action # None
    /\ c.direction # None \/ c.action = "Anchor"
    /\ c.magnitude # 0 \/ c.action \in {"Configure", "Anchor"} \/ c.direction \in {"Begin", "End"}
    /\ c.direction = "Workspace" => c.string # ""

SameMode(c) == c.active = active

Allowed(c) ==
    /\ c.active \subseteq {"common", "insert", "normal", "visual"}
    /\ c.command \in Command /\ WorkspaceNamed(c.command)
    /\ \/ c.out = <<>> /\ ("visual" \in c.active) = ("visual" \in active)
       \/ \E m : c.out = <<m>> /\ m.kind = "KEY" /\ SameMode(c)
       \/ \E b \in BOOLEAN : c.out = <<[kind |-> "BUTTON", pressed |-> b]>> /\ SameMode(c)
       \/ c.out = <<[kind |-> "COMMAND", command |-> c.command]>> /\ Whole(c.command) /\ SameMode(c)
       \/ c.out = <<[kind |-> "MODE", active |-> "visual" \in c.active]>>

Ready ==
    /\ active \subseteq {"common", "insert", "normal", "visual"}
    /\ command \in Command /\ WorkspaceNamed(command)

(* A context with command k.                                               *)
Having(k, p) == [Context EXCEPT !.command = k, !.previous = p]

LEMMA Executed ==
    ASSUME Ready, NEW k \in Command, Whole(k), NEW p
    PROVE  Allowed(ExecuteCommand(Having(k, p)))
<1> DEFINE c == ExecuteCommand(Having(k, p))
<1>1. c.active = active /\ c.command = k /\ c.out = Append(<<>>, [kind |-> "COMMAND", command |-> k])
  BY DEF Context, ExecuteCommand, Having
<1>2. c.out = <<[kind |-> "COMMAND", command |-> k]>>
  BY <1>1
<1> QED BY <1>1, <1>2 DEF Allowed, Ready, Whole, SameMode, WorkspaceNamed

LEMMA Built ==
    ASSUME Ready, NEW k \in Command, WorkspaceNamed(k), NEW p
    PROVE  Allowed(Having(k, p))
<1> DEFINE c == Having(k, p)
<1>1. c.active = active /\ c.command = k /\ c.out = <<>>
  BY DEF Context, Having
<1> QED BY <1>1 DEF Allowed, Ready

LEMMA CommandFields ==
    ASSUME NEW k \in Command
    PROVE  /\ \A a \in Actions \union {None} :
                LET n == [k EXCEPT !.action = a]
                IN  n \in Command /\ n.action = a /\ n.direction = k.direction
                    /\ n.magnitude = k.magnitude /\ n.string = k.string
           /\ \A a \in Directions \union {None} :
                LET n == [k EXCEPT !.direction = a]
                IN  n \in Command /\ n.action = k.action /\ n.direction = a
                    /\ n.magnitude = k.magnitude /\ n.string = k.string
           /\ \A a \in Int :
                LET n == [k EXCEPT !.magnitude = a]
                IN  n \in Command /\ n.action = k.action /\ n.direction = k.direction
                    /\ n.magnitude = a /\ n.string = k.string
           /\ \A a \in DOMAIN Number :
                LET n == [k EXCEPT !.string = a]
                IN  n \in Command /\ n.action = k.action /\ n.direction = k.direction
                    /\ n.magnitude = k.magnitude /\ n.string = a
BY DEF Command

LEMMA Setters ==
    ASSUME NEW k, NEW p
    PROVE  /\ \A a : SetAction(Having(k, p), a) = Having([k EXCEPT !.action = a], "Action")
           /\ \A a : SetDirection(Having(k, p), a) = Having([k EXCEPT !.direction = a], "Direction")
           /\ \A a : SetMagnitude(Having(k, p), a) = Having([k EXCEPT !.magnitude = a], "Magnitude")
           /\ \A a : SetString(Having(k, p), a) = Having([k EXCEPT !.string = a], "String")
           /\ Having(k, p).command = k /\ Having(k, p).previous = p
           /\ Context = Having(command, previous)
<1>1. /\ \A a : SetAction(Having(k, p), a) = Having([k EXCEPT !.action = a], "Action")
      /\ \A a : SetDirection(Having(k, p), a) = Having([k EXCEPT !.direction = a], "Direction")
  BY DEF SetAction, SetDirection, Having, Context
<1>2. /\ \A a : SetMagnitude(Having(k, p), a) = Having([k EXCEPT !.magnitude = a], "Magnitude")
      /\ \A a : SetString(Having(k, p), a) = Having([k EXCEPT !.string = a], "String")
  BY DEF SetMagnitude, SetString, Having, Context
<1>3. Having(k, p).command = k /\ Having(k, p).previous = p
  BY DEF Having, Context
<1>4. Context = Having(command, previous)
  <2>1. Context \in [active : {active}, command : {command}, previous : {previous}, out : {<<>>}]
    BY DEF Context
  <2> HIDE DEF Context
  <2>2. Context.command = command /\ Context.previous = previous
    BY <2>1
  <2> QED BY <2>1, <2>2 DEF Having
<1> QED BY <1>1, <1>2, <1>3, <1>4

LEMMA Finished ==
    ASSUME Ready, NEW k \in Command, NEW p, k.action # None, k.direction # None, WorkspaceNamed(k)
    PROVE  Allowed(ExecuteCommand(Magnified(Having(k, p))))
<1> DEFINE n == [k EXCEPT !.magnitude = 1]
<1>1. n \in Command /\ n.action = k.action /\ n.direction = k.direction /\ n.magnitude = 1 /\ n.string = k.string
  BY CommandFields
<1>2. Magnified(Having(k, p)) = IF k.magnitude = 0 THEN Having(n, "Magnitude") ELSE Having(k, p)
  BY Setters DEF Magnified
<1> HIDE DEF n
<1>3. CASE k.magnitude = 0
  <2>1. Whole(n)
    <3>1. n.magnitude # 0
      BY <1>1
    <3> QED BY <1>1, <3>1 DEF Whole, WorkspaceNamed
  <2> QED BY <1>1, <1>2, <1>3, <2>1, Executed
<1>4. CASE k.magnitude # 0
  <2>1. Whole(k)
    BY <1>4 DEF Whole, WorkspaceNamed
  <2> QED BY <1>2, <1>4, <2>1, Executed
<1> QED BY <1>3, <1>4

LEMMA ActionPut ==
    ASSUME Ready, NEW a \in Actions
    PROVE  Allowed(PutAction(Context, a))
<1> DEFINE k == [command EXCEPT !.action = a]
<1>1. a # None /\ command \in Command
  BY DEF Actions, None, Ready
<1>2. k \in Command /\ k.action = a /\ k.direction = command.direction /\ k.string = command.string
  BY <1>1, CommandFields
<1>3. WorkspaceNamed(k)
  BY <1>2 DEF Ready, WorkspaceNamed
<1>4. SetAction(Context, a) = Having(k, "Action") /\ Having(k, "Action").command = k
  BY Setters
<1> HIDE DEF k
<1>5. CASE k.direction = None
  <2>1. PutAction(Context, a) = Having(k, "Action")
    BY <1>4, <1>5 DEF PutAction
  <2> QED BY <1>2, <1>3, <2>1, Built
<1>6. CASE k.direction # None
  <2>1. PutAction(Context, a) = ExecuteCommand(Magnified(Having(k, "Action")))
    BY <1>4, <1>6 DEF PutAction
  <2> QED BY <1>1, <1>2, <1>3, <1>6, <2>1, Finished
<1> QED BY <1>5, <1>6

LEMMA DirectionPut ==
    ASSUME Ready, NEW a \in Directions \ {"Workspace"}
    PROVE  Allowed(PutDirection(Context, a))
<1> DEFINE k == [command EXCEPT !.direction = a]
<1>1. a # None /\ command \in Command
  BY DEF Directions, None, Ready
<1>2. k \in Command /\ k.direction = a /\ k.action = command.action /\ k.string = command.string
  BY <1>1, CommandFields
<1>3. WorkspaceNamed(k)
  BY <1>2 DEF WorkspaceNamed
<1>4. SetDirection(Context, a) = Having(k, "Direction") /\ Having(k, "Direction").command = k
  BY Setters
<1> HIDE DEF k
<1>5. CASE k.action = None
  <2>1. PutDirection(Context, a) = Having(k, "Direction")
    BY <1>4, <1>5 DEF PutDirection
  <2> QED BY <1>2, <1>3, <2>1, Built
<1>6. CASE k.action # None
  <2>1. PutDirection(Context, a) = ExecuteCommand(Magnified(Having(k, "Direction")))
    BY <1>4, <1>6 DEF PutDirection
  <2> QED BY <1>1, <1>2, <1>3, <1>6, <2>1, Finished
<1> QED BY <1>5, <1>6

LEMMA MagnitudePut ==
    ASSUME Ready, NEW code
    PROVE  Allowed(PutMagnitude(Context, code))
<1>1. \A d \in DOMAIN Number : Number[d] \in Int
  BY DEF Number
<1>2. command \in Command /\ command.magnitude \in Int
  BY DEF Ready, Command
<1>3. PICK n \in Int : PutMagnitude(Context, code) = SetMagnitude(Context, n)
  <2>1. Context.command = command
    BY DEF Context
  <2> QED BY <1>1, <1>2, <2>1 DEF PutMagnitude
<1> DEFINE k == [command EXCEPT !.magnitude = n]
<1>4. k \in Command /\ k.direction = command.direction /\ k.string = command.string
  BY <1>2, CommandFields
<1>5. WorkspaceNamed(k)
  BY <1>4 DEF Ready, WorkspaceNamed
<1>6. PutMagnitude(Context, code) = Having(k, "Magnitude")
  BY <1>3, Setters
<1> HIDE DEF k
<1> QED BY <1>4, <1>5, <1>6, Built

LEMMA CommandCleaned ==
    ASSUME Ready
    PROVE  Allowed(CleanCommand(Context))
<1>1. NoCommand \in Command /\ WorkspaceNamed(NoCommand)
  BY DEF NoCommand, Command, None, WorkspaceNamed
<1>2. CleanCommand(Context) = Having(NoCommand, None)
  BY DEF CleanCommand, Having
<1> QED BY <1>1, <1>2, Built

(* Whole commands, with a direction that needs no workspace, or one.       *)
LEMMA CommandPut ==
    ASSUME Ready, NEW a \in Actions, NEW d \in (Directions \ {"Workspace"}) \union {None}
    PROVE  /\ d # None => Allowed(Step1(Context, a, d))
           /\ d \in {"Begin", "End"} \/ a = "Anchor" \/ (a = "Configure" /\ d # None) =>
                Allowed(Unmagnified(Context, a, d))
<1> DEFINE h == [command EXCEPT !.action = a]
           k == [h EXCEPT !.direction = d]
           n == [k EXCEPT !.magnitude = 1]
<1>1. a # None /\ command \in Command /\ d \in Directions \union {None} /\ d # "Workspace"
  BY DEF Actions, None, Ready
<1>2. h \in Command /\ h.action = a /\ SetAction(Context, a) = Having(h, "Action")
  BY <1>1, CommandFields, Setters
<1> HIDE DEF h
<1>3. k \in Command /\ k.direction = d /\ k.action = a
  BY <1>1, <1>2, CommandFields
<1>4. SetDirection(SetAction(Context, a), d) = Having(k, "Direction")
  BY <1>2, Setters
<1> HIDE DEF k
<1>5. n \in Command /\ n.direction = d /\ n.action = a /\ n.magnitude = 1
  BY <1>3, CommandFields
<1>6. SetMagnitude(Having(k, "Direction"), 1) = Having(n, "Magnitude")
  BY Setters
<1> HIDE DEF n
<1>7. ASSUME d # None PROVE Allowed(Step1(Context, a, d))
  <2>1. Whole(n)
    <3>1. n.magnitude # 0
      BY <1>5
    <3> QED BY <1>1, <1>5, <1>7, <3>1 DEF Whole
  <2>2. Step1(Context, a, d) = ExecuteCommand(Having(n, "Magnitude"))
    BY <1>4, <1>6 DEF Step1
  <2> QED BY <1>5, <2>1, <2>2, Executed
<1>8. ASSUME d \in {"Begin", "End"} \/ a = "Anchor" \/ (a = "Configure" /\ d # None)
      PROVE  Allowed(Unmagnified(Context, a, d))
  <2>1. Whole(k)
    BY <1>1, <1>3, <1>8 DEF Whole, None
  <2>2. Unmagnified(Context, a, d) = ExecuteCommand(Having(k, "Direction"))
    BY <1>4 DEF Unmagnified
  <2> QED BY <1>3, <2>1, <2>2, Executed
<1> QED BY <1>7, <1>8

LEMMA WorkspacePut ==
    ASSUME Ready, NEW a \in Actions, NEW code
    PROVE  Allowed(WithWorkspace(Context, a, code))
<1>0. CASE code \notin DOMAIN Number
  <2>1. WithWorkspace(Context, a, code) = Having(command, previous)
    BY <1>0, Setters DEF WithWorkspace
  <2> QED BY <2>1, Built DEF Ready
<1>9. CASE code \in DOMAIN Number
  <2> DEFINE h == [command EXCEPT !.action = a]
             j == [h EXCEPT !.direction = "Workspace"]
             k == [j EXCEPT !.magnitude = 1]
             n == [k EXCEPT !.string = code]
  <2>1. a # None /\ command \in Command /\ "Workspace" \in Directions \union {None} /\ code # ""
    <3>1. DOMAIN Number = {"0", "1", "2", "Minus"}
      BY DEF Number
    <3>2. a # None
      BY DEF Actions, None
    <3>3. "Workspace" \in Directions
      BY DEF Directions
    <3>4. code # ""
      BY <1>9, <3>1
    <3> QED BY <3>2, <3>3, <3>4 DEF Ready
  <2>2. h \in Command /\ h.action = a /\ SetAction(Context, a) = Having(h, "Action")
    <3>1. command \in Command /\ a \in Actions \union {None}
      BY <2>1
    <3>2. h \in Command /\ h.action = a
      BY <3>1, CommandFields
    <3>3. SetAction(Context, a) = Having(h, "Action")
      BY Setters
    <3> QED BY <3>2, <3>3
  <2> HIDE DEF h
  <2> DEFINE w == "Workspace"
  <2>3. [h EXCEPT !.direction = w] \in Command /\ [h EXCEPT !.direction = w].direction = w
        /\ [h EXCEPT !.direction = w].action = a
    <3>1. w \in Directions \union {None}
      BY <2>1
    <3> HIDE DEF w
    <3> QED BY <2>2, <3>1, CommandFields
  <2>4. SetDirection(SetAction(Context, a), "Workspace") = Having(j, "Direction")
    BY <2>2, Setters
  <2>4a. j \in Command /\ j.direction = "Workspace" /\ j.action = a
    BY <2>3
  <2> HIDE DEF j
  <2>5. k \in Command /\ k.direction = "Workspace" /\ k.action = a /\ k.magnitude = 1
    BY <2>4a, CommandFields
  <2>6. SetMagnitude(Having(j, "Direction"), 1) = Having(k, "Magnitude")
    BY Setters
  <2> HIDE DEF k
  <2>7. n \in Command /\ n.direction = "Workspace" /\ n.action = a /\ n.magnitude = 1 /\ n.string = code
    BY <1>9, <2>5, CommandFields
  <2>8. SetString(Having(k, "Magnitude"), code) = Having(n, "String")
    BY Setters
  <2> HIDE DEF n
  <2>9. Whole(n)
    <3>1. n.magnitude # 0
      BY <2>7
    <3> QED BY <2>1, <2>7, <3>1 DEF Whole, None
  <2>10. WithWorkspace(Context, a, code) = ExecuteCommand(Having(n, "String"))
    BY <1>9, <2>4, <2>6, <2>8 DEF WithWorkspace
  <2> QED BY <2>7, <2>9, <2>10, Executed
<1> QED BY <1>0, <1>9

LEMMA ModeActivated ==
    ASSUME Ready, NEW mode \in {"insert", "normal", "visual"}, NEW on \in BOOLEAN, NEW c, Allowed(c),
           c.out = <<>>, c = [Context EXCEPT !.active = c.active]
    PROVE  /\ Allowed(ActivateMode(c, mode, on))
           /\ mode # "visual" =>
                LET d == ActivateMode(c, mode, on)
                IN  d.out = <<>> /\ d = [Context EXCEPT !.active = d.active]
<1> DEFINE modes == {"common", "insert", "normal", "visual"}
           new == IF on THEN c.active \union {mode} ELSE c.active \ {mode}
           d == ActivateMode(c, mode, on)
<1>1. new \subseteq modes /\ c.command = command
  BY DEF Allowed, Context
<1>2. CASE mode = "visual"
  <2>1. d = [c EXCEPT !.active = new, !.out = Append(c.out, [kind |-> "MODE", active |-> on])]
    BY <1>2 DEF ActivateMode
  <2>2. d.active = new /\ d.command = command /\ d.out = Append(<<>>, [kind |-> "MODE", active |-> on])
    BY <1>1, <2>1 DEF Context
  <2>3. d.out = <<[kind |-> "MODE", active |-> on]>> /\ on = ("visual" \in new)
    BY <1>2, <2>2
  <2> QED BY <1>1, <1>2, <2>2, <2>3 DEF Allowed, Ready
<1>3. CASE mode # "visual"
  <2>1. d = [c EXCEPT !.active = new, !.out = c.out]
    BY <1>3 DEF ActivateMode
  <2> HIDE DEF d, new
  <2>2. d = [Context EXCEPT !.active = new]
    BY <2>1 DEF Context
  <2>4. d.active = new /\ d.command = command /\ d.out = <<>>
    BY <2>2 DEF Context
  <2>3. ("visual" \in new) = ("visual" \in active)
    BY <1>3 DEF Allowed, new
  <2> QED BY <1>1, <1>3, <2>2, <2>3, <2>4 DEF Allowed, Ready, d, new
<1> QED BY <1>2, <1>3

LEMMA InitialContext ==
    ASSUME Ready
    PROVE  /\ Allowed(Context) /\ Context.out = <<>> /\ Context = [Context EXCEPT !.active = Context.active]
<1>1. Context.active = active /\ Context.command = command /\ Context.out = <<>>
  BY DEF Context
<1>2. Context = [Context EXCEPT !.active = Context.active]
  BY DEF Context
<1> QED BY <1>1, <1>2 DEF Allowed, Ready

LEMMA ModesSwapped ==
    ASSUME Ready
    PROVE  /\ Allowed(SwapModeNormalToInsert(Context)) /\ Allowed(SwapModeInsertToNormal(Context))
           /\ Allowed(ActivateMode(Context, "visual", TRUE)) /\ Allowed(ActivateMode(Context, "visual", FALSE))
<1> DEFINE n == ActivateMode(Context, "normal", FALSE)
           i == ActivateMode(Context, "insert", FALSE)
<1>1. /\ Allowed(n) /\ n.out = <<>> /\ n = [Context EXCEPT !.active = n.active]
      /\ Allowed(i) /\ i.out = <<>> /\ i = [Context EXCEPT !.active = i.active]
  BY InitialContext, ModeActivated
<1>2. Allowed(ActivateMode(Context, "visual", TRUE)) /\ Allowed(ActivateMode(Context, "visual", FALSE))
  BY InitialContext, ModeActivated
<1> HIDE DEF n, i
<1>3. Allowed(ActivateMode(n, "insert", TRUE)) /\ Allowed(ActivateMode(i, "normal", TRUE))
  BY <1>1, ModeActivated
<1> QED BY <1>2, <1>3 DEF SwapModeNormalToInsert, SwapModeInsertToNormal, n, i

(* What the bindings do.                                                   *)
Plain == {"clean", "exalt", "ramify", "anchorize", "to_insert", "to_normal", "drag", "put_magnitude",
          "quit", "spawn", "nop"}

Executors ==
    UNION {[do : Plain, arg : {None}],
           [do : {"put_action"}, arg : Actions],
           [do : {"put_direction", "configure", "focus", "jump", "dive"}, arg : Directions \ {"Workspace"}],
           [do : {"workspace"}, arg : Actions]}

LEMMA BindingsKnown ==
    ASSUME NEW mode \in {"common", "insert", "normal", "visual"}, NEW b \in Bindings[mode]
    PROVE  b.does \in Executors
<1>1. \A code \in DOMAIN Arrow : Arrow[code] \in Directions \ {"Workspace"}
  BY DEF Arrow, Directions
<1>2. \A code \in DOMAIN Away : Away[code] \in Directions \ {"Workspace"}
  BY DEF Away, Directions
<1>3. \A code \in DOMAIN Shape : Shape[code] \in Directions \ {"Workspace"}
  BY DEF Shape, Directions
<1>4. \A code \in DOMAIN Letter : Letter[code] \in Actions
  BY DEF Letter, Actions
<1>5. /\ \A do \in Plain : Does(do, None) \in Executors
      /\ \A a \in Actions : Does("put_action", a) \in Executors /\ Does("workspace", a) \in Executors
      /\ \A do \in {"put_direction", "configure", "focus", "jump", "dive"}, d \in Directions \ {"Workspace"} :
            Does(do, d) \in Executors
  BY DEF Executors, Does
<1>6. {"Focus", "Jump", "Dive", "Swap"} \subseteq Actions /\ {"Forward", "Backward"} \subseteq Directions \ {"Workspace"}
  BY DEF Actions, Directions
<1>7. \A code, mods, x : Bind(code, mods, x).does = x
  BY DEF Bind
<1>8. CASE mode = "normal"
  <2>1. b \in NormalBindings
    BY <1>8 DEF Bindings
  <2> HIDE DEF Bindings
  <2>2. {"put_magnitude", "clean", "to_insert"} \subseteq Plain
    BY DEF Plain
  <2> QED BY <1>1, <1>2, <1>3, <1>4, <1>5, <1>6, <1>7, <2>1, <2>2 DEF NormalBindings
<1>9. CASE mode = "insert"
  <2>1. b \in InsertBindings
    BY <1>9 DEF Bindings
  <2>2. {"exalt", "ramify", "anchorize", "drag", "to_normal", "spawn"} \subseteq Plain
    BY DEF Plain
  <2> QED BY <1>1, <1>5, <1>6, <1>7, <2>1, <2>2 DEF InsertBindings
<1>10. CASE mode \in {"common", "visual"}
  <2>1. b \in CommonBindings \union VisualBindings
    BY <1>10 DEF Bindings
  <2>2. {"quit", "drag"} \subseteq Plain
    BY DEF Plain
  <2> QED BY <1>5, <1>7, <2>1, <2>2 DEF CommonBindings, VisualBindings
<1> QED BY <1>8, <1>9, <1>10

-----------------------------------------------------------------------------
LEMMA ExecutorFound ==
    ASSUME NEW code, NEW mods, Knowing(code, mods) # {}
    PROVE  FindExecutor(code, mods) \in Executors
<1> DEFINE K == Knowing(code, mods)
           first == CHOOSE i \in K : \A j \in K : i <= j
           bound == Bound(Modes[first], code, mods)
<1>1. K \subseteq 1..4 /\ K # {}
  BY DEF Knowing, Modes
<1>2. first \in K
  <2> HIDE DEF K
  <2>1. K \subseteq Nat
    BY <1>1
  <2>2. \E i \in K : \A j \in K : i <= j
    BY <1>1, <2>1, LeastNat
  <2> QED BY <2>2
<1>3. Modes[first] \in {"common", "insert", "normal", "visual"}
  <2> HIDE DEF first, K
  <2>1. first \in 1..4
    BY <1>1, <1>2
  <2> QED BY <2>1 DEF Modes
<1>4. FindExecutor(code, mods) = IF bound = {} THEN Does("nop", None) ELSE (CHOOSE b \in bound : TRUE).does
  BY DEF FindExecutor
<1>5. Does("nop", None) \in Executors
  BY DEF Executors, Does, Plain
<1>6. ASSUME bound # {} PROVE (CHOOSE b \in bound : TRUE).does \in Executors
  <2>1. (CHOOSE b \in bound : TRUE) \in bound
    BY <1>6
  <2>2. bound \subseteq Bindings[Modes[first]]
    BY DEF Bound
  <2> HIDE DEF bound, first
  <2> QED BY <1>3, <2>1, <2>2, BindingsKnown
<1> HIDE DEF bound
<1> QED BY <1>4, <1>5, <1>6

LEMMA Executes ==
    ASSUME Ready, NEW x \in Executors, NEW code
    PROVE  Allowed(Activate(x, Context, code)) /\ Allowed(Release(x, Context))
<1> DEFINE D == Directions \ {"Workspace"}
<1>1. Allowed(Release(x, Context))
  BY InitialContext, ModesSwapped DEF Release
<1>2. {"Configure", "Anchor", "Focus", "Jump", "Dive"} \subseteq Actions /\ {"Begin", "End"} \subseteq D
  BY DEF Actions, Directions
<1>3. D \subseteq (Directions \ {"Workspace"}) \union {None} /\ None \notin D
  BY DEF Directions, None
<1>4. /\ \A d \in D : Allowed(Focus(Context, d)) /\ Allowed(Jump(Context, d)) /\ Allowed(Dive(Context, d))
                      /\ Allowed(Reshape(Context, d))
      /\ Allowed(Exalt(Context)) /\ Allowed(Ramify(Context)) /\ Allowed(ToggleAnchorization(Context))
  <2>1. \A d \in D : Allowed(Focus(Context, d)) /\ Allowed(Jump(Context, d)) /\ Allowed(Dive(Context, d))
    BY <1>2, <1>3, CommandPut DEF Focus, Jump, Dive
  <2>2. \A d \in D : Allowed(Reshape(Context, d))
    BY <1>2, <1>3, CommandPut DEF Reshape
  <2>3. Allowed(Exalt(Context)) /\ Allowed(Ramify(Context))
    BY <1>2, <1>3, CommandPut DEF Exalt, Ramify
  <2>4. Allowed(ToggleAnchorization(Context))
    BY <1>2, CommandPut DEF ToggleAnchorization
  <2> QED BY <2>1, <2>2, <2>3, <2>4
<1>5. CASE x \in [do : Plain, arg : {None}]
  <2>1. x.do \in Plain
    BY <1>5
  <2>2. Activate(x, Context, code) \in
            {PutMagnitude(Context, code), CleanCommand(Context), Exalt(Context), Ramify(Context),
             ToggleAnchorization(Context), SwapModeNormalToInsert(Context),
             SwapModeInsertToNormal(Context), ActivateMode(Context, "visual", TRUE), Context}
    BY <2>1 DEF Activate, Plain
  <2> QED BY <1>1, <1>4, <2>2, InitialContext, ModesSwapped, MagnitudePut, CommandCleaned
<1>6. CASE x \in [do : {"put_action"}, arg : Actions]
  <2>1. x.do = "put_action" /\ x.arg \in Actions
    BY <1>6
  <2>2. Activate(x, Context, code) = PutAction(Context, x.arg)
    BY <2>1 DEF Activate
  <2> QED BY <1>1, <2>1, <2>2, ActionPut
<1>7. CASE x \in [do : {"put_direction", "configure", "focus", "jump", "dive"}, arg : D]
  <2>1. x.do \in {"put_direction", "configure", "focus", "jump", "dive"} /\ x.arg \in D
    BY <1>7
  <2>2. Activate(x, Context, code) \in
            {PutDirection(Context, x.arg), Reshape(Context, x.arg), Focus(Context, x.arg),
             Jump(Context, x.arg), Dive(Context, x.arg)}
    BY <2>1 DEF Activate
  <2> QED BY <1>1, <1>4, <2>1, <2>2, DirectionPut
<1>8. CASE x \in [do : {"workspace"}, arg : Actions]
  <2>1. x.do = "workspace" /\ x.arg \in Actions
    BY <1>8
  <2>2. Activate(x, Context, code) = WithWorkspace(Context, x.arg, code)
    BY <2>1 DEF Activate
  <2> QED BY <1>1, <2>1, <2>2, WorkspacePut
<1> QED BY <1>1, <1>5, <1>6, <1>7, <1>8 DEF Executors

(* Whatever the key, mode and command, what comes of it is allowed.        *)
LEMMA Emission ==
    ASSUME Ready, NEW k, NEW pressed \in BOOLEAN
    PROVE  Allowed(Emitted(k, pressed))
<1>1. ASSUME NEW code, NEW mods, NEW m,
             (\E b \in BOOLEAN : m = [kind |-> "BUTTON", pressed |-> b]) \/ m.kind = "KEY"
      PROVE  Allowed(Catch(code, pressed, mods, m))
  <2>1. CASE Knowing(code, mods) = {}
    <3> DEFINE c == [Context EXCEPT !.out = <<m>>]
    <3>1. c.active = active /\ c.command = command /\ c.out = <<m>>
      BY DEF Context
    <3>2. Catch(code, pressed, mods, m) = c
      BY <2>1 DEF Catch
    <3> HIDE DEF c
    <3>3. Allowed(c)
      BY <1>1, <3>1 DEF Allowed, Ready, SameMode
    <3> QED BY <3>2, <3>3
  <2>2. CASE Knowing(code, mods) # {}
    BY <2>2, ExecutorFound, Executes DEF Catch
  <2> QED BY <2>1, <2>2
<1>2. [kind |-> "KEY", code |-> k, pressed |-> pressed].kind = "KEY"
  OBVIOUS
<1>3. Allowed(EmitKey(k, pressed))
  BY <1>1, <1>2, InitialContext DEF EmitKey
<1>4. Allowed(EmitButton(k, pressed))
  BY <1>1 DEF EmitButton
<1> QED BY <1>3, <1>4 DEF Emitted

-----------------------------------------------------------------------------
(* The queue after k signals were taken and those of q pushed.             *)
Queues(k, q) ==
    /\ k \in {0, 1} /\ k <= Len(inbox)
    /\ q \in Seq(Message) /\ inbox' \in Seq(Message)
    /\ Len(inbox') = Len(inbox) - k + Len(q)
    /\ \A i \in 1..(Len(inbox) - k) : inbox'[i] = inbox[i + k]
    /\ \A i \in 1..Len(q) : inbox'[Len(inbox) - k + i] = q[i]

LEMMA QueuePushed ==
    ASSUME inbox \in Seq(Message), NEW q \in Seq(Message), inbox' = inbox \o q
    PROVE  Queues(0, q)
BY DEF Queues

LEMMA QueueAppended ==
    ASSUME inbox \in Seq(Message), NEW m \in Message, inbox' = Append(inbox, m)
    PROVE  Queues(0, <<m>>)
BY DEF Queues

(* Where a message of the new queue comes from.                            *)
LEMMA QueueOrigin ==
    ASSUME inbox \in Seq(Message), NEW k, NEW q, Queues(k, q), NEW i \in 1..Len(inbox')
    PROVE  \/ i \in 1..(Len(inbox) - k) /\ i + k \in 1..Len(inbox) /\ inbox'[i] = inbox[i + k]
           \/ i - (Len(inbox) - k) \in 1..Len(q) /\ inbox'[i] = q[i - (Len(inbox) - k)]
<1>1. CASE i \in 1..(Len(inbox) - k)
  BY <1>1 DEF Queues
<1>2. CASE i \notin 1..(Len(inbox) - k)
  <2>1. i - (Len(inbox) - k) \in 1..Len(q)
    BY <1>2 DEF Queues
  <2>2. inbox'[Len(inbox) - k + (i - (Len(inbox) - k))] = q[i - (Len(inbox) - k)]
    BY <2>1 DEF Queues
  <2>3. Len(inbox) - k + (i - (Len(inbox) - k)) = i
    BY DEF Queues
  <2> QED BY <2>1, <2>2, <2>3
<1> QED BY <1>1, <1>2

LEMMA QueueTarget ==
    ASSUME inbox \in Seq(Message), NEW k, NEW q, Queues(k, q)
    PROVE  /\ \A i \in (k + 1)..Len(inbox) : i - k \in 1..Len(inbox') /\ inbox'[i - k] = inbox[i]
           /\ \A i \in 1..Len(q) : Len(inbox) - k + i \in 1..Len(inbox') /\ inbox'[Len(inbox) - k + i] = q[i]
<1>1. ASSUME NEW i \in (k + 1)..Len(inbox)
      PROVE  i - k \in 1..Len(inbox') /\ inbox'[i - k] = inbox[i]
  <2>1. i - k \in 1..(Len(inbox) - k) /\ i - k + k = i
    BY DEF Queues
  <2> QED BY <2>1 DEF Queues
<1>2. ASSUME NEW i \in 1..Len(q)
      PROVE  Len(inbox) - k + i \in 1..Len(inbox') /\ inbox'[Len(inbox) - k + i] = q[i]
  BY DEF Queues
<1> QED BY <1>1, <1>2

LEMMA WholeOf ==
    CommandsWhole <=> \A i \in DOMAIN inbox : inbox[i].kind = "COMMAND" => Whole(inbox[i].command)
BY DEF CommandsWhole, Whole

LEMMA CommandsKept ==
    ASSUME inbox \in Seq(Message), NEW k, NEW q, Queues(k, q), CommandsWhole,
           \A i \in 1..Len(q) : q[i].kind = "COMMAND" => Whole(q[i].command)
    PROVE  CommandsWhole'
<1>1. DOMAIN inbox = 1..Len(inbox) /\ DOMAIN inbox' = 1..Len(inbox')
  BY DEF Queues
<1>2. \A i \in 1..Len(inbox) : inbox[i].kind = "COMMAND" => Whole(inbox[i].command)
  BY <1>1, WholeOf
<1>3. \A i \in 1..Len(inbox') : inbox'[i].kind = "COMMAND" => Whole(inbox'[i].command)
  BY <1>2, QueueOrigin
<1> QED BY <1>1, <1>3 DEF CommandsWhole, Whole

LEMMA ModeKept ==
    ASSUME inbox \in Seq(Message), NEW k, NEW q, Queues(k, q), ModeComes,
           \A i \in 1..Len(q) : q[i].kind # "MODE",
           k = 1 => inbox[1].kind # "MODE",
           ("visual" \in active') = ("visual" \in active),
           dragger' # {} => dragger # {}
    PROVE  ModeComes'
<1>1. ASSUME NEW i \in 1..Len(inbox'), inbox'[i].kind = "MODE",
             \A j \in (i + 1)..Len(inbox') : inbox'[j].kind # "MODE"
      PROVE  inbox'[i].active = ("visual" \in active')
  <2>1. i + k \in 1..Len(inbox) /\ inbox'[i] = inbox[i + k]
    BY <1>1, QueueOrigin
  <2>2. ASSUME NEW j \in (i + k + 1)..Len(inbox) PROVE inbox[j].kind # "MODE"
    <3>1. j \in (k + 1)..Len(inbox) /\ j - k \in (i + 1)..Len(inbox')
      BY <2>2 DEF Queues
    <3> QED BY <1>1, <3>1, QueueTarget
  <2> QED BY <1>1, <2>1, <2>2 DEF ModeComes
<1>2. ASSUME \A i \in 1..Len(inbox') : inbox'[i].kind # "MODE", dragger' # {}
      PROVE  "visual" \in active'
  <2>1. ASSUME NEW i \in 1..Len(inbox) PROVE inbox[i].kind # "MODE"
    <3>1. CASE i <= k
      BY <3>1 DEF Queues
    <3>2. CASE ~(i <= k)
      <4>1. i \in (k + 1)..Len(inbox)
        BY <3>2 DEF Queues
      <4> QED BY <1>2, <4>1, QueueTarget
    <3> QED BY <3>1, <3>2
  <2> QED BY <1>2, <2>1 DEF ModeComes
<1> QED BY <1>1, <1>2 DEF ModeComes

LEMMA FollowKept ==
    ASSUME inbox \in Seq(Message), NEW k, NEW q, Queues(k, q), NotifyFollows,
           \A i \in 1..Len(q) :
                q[i].kind = "LOOK" \/ (q[i].kind = "WAKEUP" /\ terminal' # "waking") =>
                    \E j \in (i + 1)..Len(q) : q[j].kind = "NOTIFY",
           terminal = "waking" /\ terminal' # "waking" => \E j \in 1..Len(q) : q[j].kind = "NOTIFY"
    PROVE  NotifyFollows'
<1> SUFFICES ASSUME NEW i \in 1..Len(inbox'),
                    inbox'[i].kind = "LOOK" \/ (inbox'[i].kind = "WAKEUP" /\ terminal' # "waking")
             PROVE  \E j \in (i + 1)..Len(inbox') : inbox'[j].kind = "NOTIFY"
  BY DEF NotifyFollows
<1> DEFINE n == Len(inbox) - k
<1>1. n \in Nat /\ k \in {0, 1} /\ Len(inbox) \in Nat /\ Len(q) \in Nat /\ Len(inbox') = n + Len(q)
  BY DEF Queues
<1>2. CASE i \in 1..n /\ i + k \in 1..Len(inbox) /\ inbox'[i] = inbox[i + k]
  <2>1. CASE \E j \in (i + k + 1)..Len(inbox) : inbox[j].kind = "NOTIFY"
    <3>1. PICK j \in (i + k + 1)..Len(inbox) : inbox[j].kind = "NOTIFY"
      BY <2>1
    <3>2. j \in (k + 1)..Len(inbox) /\ j - k \in (i + 1)..Len(inbox')
      BY <1>1, <3>1
    <3> QED BY <3>1, <3>2, QueueTarget
  <2>2. CASE terminal = "waking" /\ terminal' # "waking"
    <3>1. PICK j \in 1..Len(q) : q[j].kind = "NOTIFY"
      BY <2>2
    <3>2. n + j \in (i + 1)..Len(inbox')
      BY <1>1, <1>2, <3>1
    <3> QED BY <3>1, <3>2, QueueTarget
  <2> QED BY <1>2, <2>1, <2>2 DEF NotifyFollows
<1>3. CASE i - n \in 1..Len(q) /\ inbox'[i] = q[i - n]
  <2>1. PICK j \in (i - n + 1)..Len(q) : q[j].kind = "NOTIFY"
    BY <1>3
  <2>2. n + j \in (i + 1)..Len(inbox') /\ j \in 1..Len(q)
    BY <1>1, <1>3, <2>1
  <2>3. inbox'[n + j] = q[j]
    BY <2>2, QueueTarget
  <2> QED BY <2>1, <2>2, <2>3
<1> QED BY <1>2, <1>3, QueueOrigin

(* Page flips on their way back: none is taken or comes, the first one is  *)
(* taken, or one comes.                                                    *)
Distinct ==
    \A i, j \in 1..Len(inbox) :
        inbox[i].kind = "PAGE_FLIP" /\ inbox[j].kind = "PAGE_FLIP" /\ inbox[i].id = inbox[j].id => i = j

LEMMA NoneReturns ==
    ASSUME inbox \in Seq(Message), NEW k, NEW q, Queues(k, q), Distinct,
           \A i \in 1..Len(q) : q[i].kind # "PAGE_FLIP",
           k = 1 => inbox[1].kind # "PAGE_FLIP"
    PROVE  Returning' = Returning /\ Distinct'
<1>1. \A i \in 1..Len(inbox') :
        inbox'[i].kind = "PAGE_FLIP" => i + k \in 1..Len(inbox) /\ inbox'[i] = inbox[i + k]
  BY QueueOrigin
<1>2. \A i \in 1..Len(inbox) :
        inbox[i].kind = "PAGE_FLIP" => i - k \in 1..Len(inbox') /\ inbox'[i - k] = inbox[i]
  <2> SUFFICES ASSUME NEW i \in 1..Len(inbox), inbox[i].kind = "PAGE_FLIP"
               PROVE  i - k \in 1..Len(inbox') /\ inbox'[i - k] = inbox[i]
    OBVIOUS
  <2>1. i \in (k + 1)..Len(inbox)
    BY DEF Queues
  <2> QED BY <2>1, QueueTarget
<1>3. Returning' = Returning
  BY <1>1, <1>2 DEF Returning
<1>4. Distinct'
  <2> SUFFICES ASSUME NEW i \in 1..Len(inbox'), NEW j \in 1..Len(inbox'), inbox'[i].kind = "PAGE_FLIP",
                      inbox'[j].kind = "PAGE_FLIP", inbox'[i].id = inbox'[j].id
               PROVE  i = j
    BY DEF Distinct
  <2>1. i + k = j + k
    BY <1>1 DEF Distinct
  <2> QED BY <2>1 DEF Queues
<1> QED BY <1>3, <1>4

LEMMA OneArrives ==
    ASSUME inbox \in Seq(Message), NEW q, Queues(1, q), Distinct,
           \A i \in 1..Len(q) : q[i].kind # "PAGE_FLIP",
           inbox[1].kind = "PAGE_FLIP"
    PROVE  inbox[1].id \in Returning /\ Returning' = Returning \ {inbox[1].id} /\ Distinct'
<1>0. 1 \in 1..Len(inbox)
  BY DEF Queues
<1>1. \A i \in 1..Len(inbox') :
        inbox'[i].kind = "PAGE_FLIP" =>
            i + 1 \in 1..Len(inbox) /\ i + 1 # 1 /\ inbox'[i] = inbox[i + 1]
  <2> SUFFICES ASSUME NEW i \in 1..Len(inbox'), inbox'[i].kind = "PAGE_FLIP"
               PROVE  i + 1 \in 1..Len(inbox) /\ i + 1 # 1 /\ inbox'[i] = inbox[i + 1]
    OBVIOUS
  <2> DEFINE j == i - (Len(inbox) - 1)
  <2>1. (i + 1 \in 1..Len(inbox) /\ inbox'[i] = inbox[i + 1]) \/ (j \in 1..Len(q) /\ inbox'[i] = q[j])
    BY QueueOrigin
  <2> HIDE DEF j
  <2> QED BY <2>1
<1>2. \A i \in 1..Len(inbox) :
        i # 1 => i - 1 \in 1..Len(inbox') /\ inbox'[i - 1] = inbox[i]
  <2> SUFFICES ASSUME NEW i \in 1..Len(inbox), i # 1
               PROVE  i - 1 \in 1..Len(inbox') /\ inbox'[i - 1] = inbox[i]
    OBVIOUS
  <2>1. i \in (1 + 1)..Len(inbox)
    BY DEF Queues
  <2> QED BY <2>1, QueueTarget
<1>3. inbox[1].id \in Returning
  BY <1>0 DEF Returning
<1>4. Returning' \subseteq Returning \ {inbox[1].id}
  BY <1>0, <1>1 DEF Returning, Distinct
<1>5. Returning \ {inbox[1].id} \subseteq Returning'
  BY <1>0, <1>2 DEF Returning
<1>6. Distinct'
  <2> SUFFICES ASSUME NEW i \in 1..Len(inbox'), NEW j \in 1..Len(inbox'), inbox'[i].kind = "PAGE_FLIP",
                      inbox'[j].kind = "PAGE_FLIP", inbox'[i].id = inbox'[j].id
               PROVE  i = j
    BY DEF Distinct
  <2>1. i + 1 = j + 1
    BY <1>1 DEF Distinct
  <2> QED BY <2>1 DEF Queues
<1> QED BY <1>3, <1>4, <1>5, <1>6

LEMMA OneReturns ==
    ASSUME inbox \in Seq(Message), NEW d, d \notin Returning, Queues(0, <<[kind |-> "PAGE_FLIP", id |-> d]>>),
           Distinct
    PROVE  Returning' = Returning \union {d} /\ Distinct'
<1> DEFINE n == Len(inbox)
<1>1. /\ n \in Nat /\ Len(inbox') = n + 1 /\ inbox'[n + 1] = [kind |-> "PAGE_FLIP", id |-> d]
      /\ \A i \in 1..n : inbox'[i] = inbox[i]
  BY DEF Queues
<1>2. 1..Len(inbox') = 1..n \union {n + 1} /\ n + 1 \notin 1..n
  BY <1>1
<1>3. Returning' = Returning \union {d}
  BY <1>1, <1>2 DEF Returning
<1>4. \A i \in 1..n : inbox[i].kind = "PAGE_FLIP" => inbox[i].id # d
  BY DEF Returning
<1>5. Distinct'
  BY <1>1, <1>2, <1>4 DEF Distinct
<1> QED BY <1>3, <1>5

-----------------------------------------------------------------------------
(* Redrawing: states of the exhibitor it goes through.                     *)
State(D) == [displays : [D -> Display], flips : SUBSET D, behind : SUBSET D, pointer : Pointer]

Shared(x, d) == \E e \in DOMAIN x.displays \ {d} : x.displays[e].connector = x.displays[d].connector

(* Display d shows the scene, or will.                                     *)
Served(x, d) == d \in x.behind => Shared(x, d) \/ x.displays[d].needed

PlacedIn(x) ==
    \A d, e \in DOMAIN x.displays :
        d # e => AreaOf(x.displays, d) \intersect AreaOf(x.displays, e) = {}

HoversOver(x, d) ==
    /\ x.pointer.area = AreaOf(x.displays, d) /\ x.pointer.position \in x.pointer.area
    /\ d \notin x.behind => x.pointer.pfsid = Under(d, x.pointer.position - x.displays[d].position)

Hovering(x) == PlacedIn(x) /\ DOMAIN x.displays # {} => \E d \in DOMAIN x.displays : HoversOver(x, d)

(* Displays are the same but for the flags of display d.                   *)
SameBut(x, y, d) ==
    /\ \A e \in DOMAIN x.displays \ {d} : y.displays[e] = x.displays[e]
    /\ y.displays[d].connector = x.displays[d].connector /\ y.displays[d].position = x.displays[d].position

LEMMA UnderSurface ==
    ASSUME stack \in Seq(Sids), NEW d, NEW p
    PROVE  /\ Under(d, p) \in Surface
           /\ Under(d, p) # Invalid => windows[Under(d, p)] = <<d, p>>
<1> DEFINE there == {i \in DOMAIN stack : windows[stack[i]] = <<d, p>>}
           top == CHOOSE i \in there : \A j \in there : j <= i
<1>1. Under(d, p) = IF there = {} THEN Invalid ELSE stack[top]
  BY DEF Under
<1>2. there \subseteq 0..Len(stack) /\ Len(stack) \in Nat
  OBVIOUS
<1>3. ASSUME there # {} PROVE top \in there
  <2> HIDE DEF there
  <2>1. \E i \in there : \A j \in there : j <= i
    BY <1>2, <1>3, GreatestNat
  <2> QED BY <2>1
<1>4. ASSUME there # {} PROVE stack[top] \in Sids /\ windows[stack[top]] = <<d, p>>
  <2>1. top \in there
    BY <1>3, <1>4
  <2> HIDE DEF top
  <2> QED BY <2>1
<1> QED BY <1>1, <1>4 DEF Surface

LEMMA HoverUpdated ==
    ASSUME NEW D, NEW x \in State(D), NEW d \in D, stack \in Seq(Sids)
    PROVE  LET y == UpdateHoverState(x, d)
           IN  /\ y \in State(D)
               /\ y.displays = x.displays /\ y.flips = x.flips /\ y.behind = x.behind
               /\ y.pointer.area = x.pointer.area /\ y.pointer.position = x.pointer.position
               /\ x.pointer.area # AreaOf(x.displays, d) => y.pointer = x.pointer
               /\ x.pointer.area = AreaOf(x.displays, d) =>
                    y.pointer.pfsid = Under(d, x.pointer.position - x.displays[d].position)
<1> DEFINE u == Under(d, x.pointer.position - x.displays[d].position)
           p == [x.pointer EXCEPT !.pfsid = u]
           y == [x EXCEPT !.pointer = p]
<1>1. u \in Surface
  BY UnderSurface
<1>2. UpdateHoverState(x, d) = IF x.pointer.area # AreaOf(x.displays, d) THEN x ELSE y
  BY DEF UpdateHoverState
<1> HIDE DEF u
<1>3. x.pointer \in Pointer
  BY DEF State
<1>4. p \in Pointer /\ p.area = x.pointer.area /\ p.position = x.pointer.position /\ p.pfsid = u
  BY <1>1, <1>3 DEF Pointer
<1> HIDE DEF p
<1>5. y \in State(D) /\ y.displays = x.displays /\ y.flips = x.flips /\ y.behind = x.behind /\ y.pointer = p
  BY <1>4 DEF State
<1> HIDE DEF y
<1> QED BY <1>2, <1>4, <1>5 DEF u

LEMMA Scheduled ==
    ASSUME NEW D, NEW x \in State(D), NEW d \in D, NEW act \in BOOLEAN
    PROVE  LET y == SchedulePageflip(x, d, act)
           IN  \/ /\ y = x
                  /\ \/ x.displays[d].scheduled \/ ~act
                     \/ \E e \in x.flips : x.displays[e].connector = x.displays[d].connector
               \/ /\ ~x.displays[d].scheduled
                  /\ y \in State(D) /\ y.flips = x.flips \union {d} /\ y.behind = x.behind \ {d}
                  /\ y.pointer = x.pointer /\ y.displays[d].scheduled /\ SameBut(x, y, d)
                  /\ y.displays[d].needed = x.displays[d].needed
<1> DEFINE r == [x.displays[d] EXCEPT !.scheduled = TRUE]
           ds == [x.displays EXCEPT ![d] = r]
           y == [x EXCEPT !.displays = ds, !.flips = x.flips \union {d}, !.behind = x.behind \ {d}]
<1>1. x.displays \in [D -> Display] /\ x.displays[d] \in Display /\ x.flips \in SUBSET D /\ x.behind \in SUBSET D
  BY DEF State
<1>2. r \in Display /\ r.scheduled /\ r.needed = x.displays[d].needed
      /\ r.connector = x.displays[d].connector /\ r.position = x.displays[d].position
  BY <1>1 DEF Display
<1>3. SchedulePageflip(x, d, act) =
        IF x.displays[d].scheduled \/ ~act
           \/ \E e \in x.flips : x.displays[e].connector = x.displays[d].connector
        THEN x ELSE y
  BY DEF SchedulePageflip
<1> HIDE DEF r
<1>4. ds \in [D -> Display] /\ ds[d] = r /\ \A e \in D \ {d} : ds[e] = x.displays[e]
  BY <1>1, <1>2
<1> HIDE DEF ds
<1>5. y \in State(D) /\ y.displays = ds /\ y.flips = x.flips \union {d} /\ y.behind = x.behind \ {d}
      /\ y.pointer = x.pointer
  BY <1>1, <1>4 DEF State
<1> HIDE DEF y
<1> QED BY <1>1, <1>2, <1>3, <1>4, <1>5 DEF SameBut

(* Before display d is redrawn, it may still want to be, and the pointer   *)
(* on it may be told of another surface.                                   *)
HoveringBut(x, d) ==
    PlacedIn(x) /\ DOMAIN x.displays # {} =>
        \E e \in DOMAIN x.displays :
            /\ x.pointer.area = AreaOf(x.displays, e) /\ x.pointer.position \in x.pointer.area
            /\ e # d => HoversOver(x, e)

LEMMA HoverBut ==
    ASSUME NEW x, NEW d, Hovering(x)
    PROVE  HoveringBut(x, d)
BY DEF Hovering, HoveringBut, HoversOver

FlippingBut(x, Q, d) ==
    \A e \in DOMAIN x.displays :
        /\ x.displays[e].scheduled <=> e \in x.flips \union Q
        /\ e \in x.flips => e \notin Q
        /\ e # d /\ x.displays[e].needed => x.displays[e].scheduled

LEMMA Redrawn ==
    ASSUME NEW D, NEW x \in State(D), NEW d \in D, NEW act \in BOOLEAN, NEW Q, FlippingBut(x, Q, d),
           stack \in Seq(Sids)
    PROVE  LET y == RedrawAll(x, d, act)
           IN  /\ y \in State(D) /\ SameBut(x, y, d) /\ Flipping(y, Q)
               /\ y.behind \subseteq x.behind /\ x.behind \ {d} \subseteq y.behind
               /\ act /\ ~x.displays[d].scheduled => d \notin y.behind \/ Shared(x, d)
               /\ HoveringBut(x, d) => Hovering(y)
<1> DEFINE u == UpdateHoverState(x, d)
           r == [u.displays[d] EXCEPT !.needed = FALSE]
           ds == [u.displays EXCEPT ![d] = r]
           z == [u EXCEPT !.displays = ds]
           y == SchedulePageflip(z, d, act)
<1>1. /\ u \in State(D)
      /\ u.displays = x.displays /\ u.flips = x.flips /\ u.behind = x.behind
      /\ u.pointer.area = x.pointer.area /\ u.pointer.position = x.pointer.position
      /\ x.pointer.area # AreaOf(x.displays, d) => u.pointer = x.pointer
      /\ x.pointer.area = AreaOf(x.displays, d) =>
            u.pointer.pfsid = Under(d, x.pointer.position - x.displays[d].position)
  BY HoverUpdated
<1>2. RedrawAll(x, d, act) = y
  BY DEF RedrawAll
<1> HIDE DEF u
<1>3. u.displays \in [D -> Display] /\ u.displays[d] \in Display
  BY <1>1 DEF State
<1>4. r \in Display /\ r.scheduled = u.displays[d].scheduled /\ ~r.needed
      /\ r.connector = u.displays[d].connector /\ r.position = u.displays[d].position
  BY <1>3 DEF Display
<1> HIDE DEF r
<1>5. ds \in [D -> Display] /\ ds[d] = r /\ \A e \in D \ {d} : ds[e] = u.displays[e]
  BY <1>3, <1>4
<1> HIDE DEF ds
<1>6. z \in State(D) /\ z.displays = ds /\ z.flips = x.flips /\ z.behind = x.behind /\ z.pointer = u.pointer
  BY <1>1, <1>5 DEF State
<1> HIDE DEF z
<1>7. /\ DOMAIN x.displays = D /\ DOMAIN z.displays = D /\ x.flips \subseteq D
      /\ SameBut(x, z, d) /\ z.displays[d].scheduled = x.displays[d].scheduled /\ ~z.displays[d].needed
  BY <1>1, <1>3, <1>4, <1>5, <1>6 DEF SameBut, State
<1>8. \/ /\ y = z
         /\ \/ z.displays[d].scheduled \/ ~act
            \/ \E e \in z.flips : z.displays[e].connector = z.displays[d].connector
      \/ /\ ~z.displays[d].scheduled
         /\ y \in State(D) /\ y.flips = z.flips \union {d} /\ y.behind = z.behind \ {d}
         /\ y.pointer = z.pointer /\ y.displays[d].scheduled /\ SameBut(z, y, d)
         /\ y.displays[d].needed = z.displays[d].needed
  BY <1>6, Scheduled
<1> HIDE DEF y
<1>9. y \in State(D) /\ DOMAIN y.displays = D /\ SameBut(x, y, d) /\ y.pointer = u.pointer
      /\ y.behind \subseteq x.behind /\ x.behind \ {d} \subseteq y.behind
  <2>1. y \in State(D) /\ SameBut(x, y, d) /\ y.pointer = u.pointer
        /\ y.behind \subseteq x.behind /\ x.behind \ {d} \subseteq y.behind
    BY <1>6, <1>7, <1>8 DEF SameBut
  <2> QED BY <2>1 DEF State
<1>10. Flipping(y, Q)
  <2>1. CASE y = z
    BY <1>6, <1>7, <2>1 DEF Flipping, FlippingBut, SameBut
  <2>2. CASE ~z.displays[d].scheduled /\ y.flips = z.flips \union {d} /\ y.displays[d].scheduled
             /\ SameBut(z, y, d) /\ y.displays[d].needed = z.displays[d].needed
    BY <1>6, <1>7, <1>9, <2>2 DEF Flipping, FlippingBut, SameBut
  <2> QED BY <1>8, <2>1, <2>2
<1>11. ASSUME act, ~x.displays[d].scheduled PROVE d \notin y.behind \/ Shared(x, d)
  <2>1. d \notin x.flips
    BY <1>7, <1>11 DEF FlippingBut
  <2>2. ASSUME NEW e \in z.flips, z.displays[e].connector = z.displays[d].connector
        PROVE  Shared(x, d)
    <3>1. e \in DOMAIN x.displays \ {d}
      BY <1>6, <1>7, <2>1, <2>2
    <3> QED BY <1>7, <2>2, <3>1 DEF SameBut, Shared
  <2> QED BY <1>6, <1>7, <1>8, <1>11, <2>2
<1>12. ASSUME HoveringBut(x, d) PROVE Hovering(y)
  <2>1. \A e \in D : y.displays[e].position = x.displays[e].position
    BY <1>7, <1>9 DEF SameBut
  <2>2. \A e \in D : AreaOf(y.displays, e) = AreaOf(x.displays, e)
    BY <2>1 DEF AreaOf
  <2> SUFFICES ASSUME PlacedIn(y), DOMAIN y.displays # {}
               PROVE  \E e \in DOMAIN y.displays : HoversOver(y, e)
    BY DEF Hovering
  <2>3. PlacedIn(x)
    BY <1>7, <1>9, <2>2 DEF PlacedIn
  <2>4. PICK e \in D : /\ x.pointer.area = AreaOf(x.displays, e) /\ x.pointer.position \in x.pointer.area
                       /\ e # d => HoversOver(x, e)
    BY <1>7, <1>9, <1>12, <2>3 DEF HoveringBut
  <2>5. x.pointer.area = AreaOf(x.displays, e) /\ x.pointer.position \in x.pointer.area
    BY <2>4
  <2>6. CASE e = d
    <3>1. u.pointer.pfsid = Under(d, x.pointer.position - x.displays[d].position)
      BY <1>1, <2>5, <2>6
    <3>2. HoversOver(y, e)
      BY <1>1, <1>9, <2>1, <2>2, <2>5, <2>6, <3>1 DEF HoversOver
    <3> QED BY <1>9, <3>2
  <2>7. CASE e # d
    <3>1. x.pointer.area # AreaOf(x.displays, d)
      BY <1>7, <2>3, <2>5, <2>7 DEF PlacedIn
    <3>2. e \notin y.behind => e \notin x.behind
      BY <1>9, <2>7
    <3>3. HoversOver(y, e)
      BY <1>1, <1>9, <2>1, <2>2, <2>4, <2>7, <3>1, <3>2 DEF HoversOver
    <3> QED BY <1>9, <3>3
  <2> QED BY <2>6, <2>7
<1> QED BY <1>2, <1>9, <1>10, <1>11, <1>12

-----------------------------------------------------------------------------
(* What holds of all states redrawing goes through, with displays D whose  *)
(* outputs are known, and page flips Q on their way back.                  *)
Connected(x) == \A e \in DOMAIN x.displays : x.displays[e].connector = displays[e].connector

Sound(x, D, Q) ==
    /\ x \in State(D) /\ Flipping(x, Q) /\ Connected(x)
    /\ 1 \in D => x.displays[1].position = 0
    /\ Hovering(x)

(* Redrawing display d serves it if the terminal is active, and does not   *)
(* take anything from other displays.                                      *)
ServesOthers(x, y, D, d) == \A e \in D \ {d} : Served(x, e) => Served(y, e)

LEMMA SharedSame ==
    ASSUME NEW D, NEW x \in State(D), NEW y \in State(D), Connected(x), Connected(y), NEW d \in D
    PROVE  Shared(x, d) <=> Shared(y, d)
<1>1. DOMAIN x.displays = D /\ DOMAIN y.displays = D
  BY DEF State
<1> QED BY <1>1 DEF Shared, Connected

LEMMA RedrawSound ==
    ASSUME NEW D, NEW x, NEW d \in D, NEW act \in BOOLEAN, NEW Q, stack \in Seq(Sids),
           x \in State(D), FlippingBut(x, Q, d), Connected(x), 1 \in D => x.displays[1].position = 0, HoveringBut(x, d)
    PROVE  LET y == RedrawAll(x, d, act)
           IN  /\ Sound(y, D, Q) /\ ServesOthers(x, y, D, d)
               /\ act /\ ~x.displays[d].scheduled => Served(y, d)
<1> DEFINE y == RedrawAll(x, d, act)
<1>1. /\ y \in State(D) /\ SameBut(x, y, d) /\ Flipping(y, Q)
      /\ y.behind \subseteq x.behind /\ x.behind \ {d} \subseteq y.behind
      /\ act /\ ~x.displays[d].scheduled => d \notin y.behind \/ Shared(x, d)
      /\ Hovering(y)
  BY Redrawn
<1> HIDE DEF y
<1>2. DOMAIN x.displays = D /\ DOMAIN y.displays = D
  BY <1>1 DEF State
<1>3. Connected(y)
  BY <1>1, <1>2 DEF Connected, SameBut
<1>4. 1 \in D => y.displays[1].position = 0
  BY <1>1, <1>2 DEF SameBut
<1>5. ServesOthers(x, y, D, d)
  <2> SUFFICES ASSUME NEW e \in D \ {d}, Served(x, e) PROVE Served(y, e)
    BY DEF ServesOthers
  <2>1. Shared(x, e) <=> Shared(y, e)
    BY <1>1, <1>3, SharedSame
  <2>2. y.displays[e] = x.displays[e]
    BY <1>1, <1>2 DEF SameBut
  <2> QED BY <1>1, <2>1, <2>2 DEF Served
<1>6. ASSUME act, ~x.displays[d].scheduled PROVE Served(y, d)
  <2>1. Shared(x, d) <=> Shared(y, d)
    BY <1>1, <1>3, SharedSame
  <2> QED BY <1>1, <1>6, <2>1 DEF Served
<1> QED BY <1>1, <1>3, <1>4, <1>5, <1>6 DEF Sound, y

LEMMA HoverKept ==
    ASSUME NEW D, NEW x \in State(D), NEW y \in State(D), Hovering(x),
           \A e \in D : y.displays[e].position = x.displays[e].position,
           y.pointer.area = x.pointer.area, y.pointer.position = x.pointer.position,
           y.pointer.pfsid = x.pointer.pfsid, x.behind \subseteq y.behind
    PROVE  Hovering(y)
<1>1. DOMAIN x.displays = D /\ DOMAIN y.displays = D
  BY DEF State
<1>2. \A e \in D : AreaOf(y.displays, e) = AreaOf(x.displays, e)
  BY DEF AreaOf
<1>3. PlacedIn(x) <=> PlacedIn(y)
  BY <1>1, <1>2 DEF PlacedIn
<1>4. \A e \in D : HoversOver(x, e) => HoversOver(y, e)
  BY <1>2 DEF HoversOver
<1> QED BY <1>1, <1>3, <1>4 DEF Hovering

(* A display whose record becomes r.                                       *)
LEMMA Edited ==
    ASSUME NEW D, NEW x \in State(D), NEW d \in D, NEW r \in Display
    PROVE  LET y == [x EXCEPT !.displays = [x.displays EXCEPT ![d] = r]]
           IN  /\ y \in State(D) /\ y.flips = x.flips /\ y.behind = x.behind /\ y.pointer = x.pointer
               /\ y.displays[d] = r /\ \A e \in D \ {d} : y.displays[e] = x.displays[e]
<1> DEFINE ds == [x.displays EXCEPT ![d] = r]
<1>1. x.displays \in [D -> Display]
  BY DEF State
<1>2. ds \in [D -> Display] /\ ds[d] = r /\ \A e \in D \ {d} : ds[e] = x.displays[e]
  BY <1>1
<1> HIDE DEF ds
<1>3. [x EXCEPT !.displays = ds] \in State(D)
  BY <1>2 DEF State
<1>4. /\ [x EXCEPT !.displays = ds].displays = ds /\ [x EXCEPT !.displays = ds].flips = x.flips
      /\ [x EXCEPT !.displays = ds].behind = x.behind /\ [x EXCEPT !.displays = ds].pointer = x.pointer
  BY DEF State
<1> QED BY <1>2, <1>3, <1>4 DEF ds

LEMMA NotifySound ==
    ASSUME NEW D, NEW x, NEW d \in D, NEW act \in BOOLEAN, NEW Q, stack \in Seq(Sids), Sound(x, D, Q)
    PROVE  LET y == DisplayOnNotify(x, d, act)
           IN  /\ Sound(y, D, Q) /\ ServesOthers(x, y, D, d)
               /\ act => Served(y, d)
<1>0. x \in State(D) /\ DOMAIN x.displays = D /\ x.displays[d] \in Display
  BY DEF Sound, State
<1>1. CASE x.displays[d].needed
  <2>1. DisplayOnNotify(x, d, act) = x
    BY <1>1 DEF DisplayOnNotify
  <2>2. Served(x, d)
    BY <1>1 DEF Served
  <2> QED BY <2>1, <2>2 DEF ServesOthers
<1>2. CASE ~x.displays[d].needed /\ x.displays[d].scheduled
  <2> DEFINE r == [x.displays[d] EXCEPT !.needed = TRUE]
             y == [x EXCEPT !.displays = [x.displays EXCEPT ![d] = r]]
  <2>1. DisplayOnNotify(x, d, act) = y
    BY <1>2 DEF DisplayOnNotify
  <2>2. r \in Display /\ r.scheduled /\ r.needed
        /\ r.connector = x.displays[d].connector /\ r.position = x.displays[d].position
    BY <1>0, <1>2 DEF Display
  <2> HIDE DEF r
  <2>3. /\ y \in State(D) /\ y.flips = x.flips /\ y.behind = x.behind /\ y.pointer = x.pointer
        /\ y.displays[d] = r /\ \A e \in D \ {d} : y.displays[e] = x.displays[e]
    BY <1>0, <2>2, Edited
  <2> HIDE DEF y
  <2>4. DOMAIN y.displays = D /\ \A e \in D : y.displays[e].position = x.displays[e].position
                                            /\ y.displays[e].connector = x.displays[e].connector
    BY <2>2, <2>3 DEF State
  <2>5. Connected(y) /\ (1 \in D => y.displays[1].position = 0)
    BY <1>0, <2>4 DEF Sound, Connected
  <2>6. Flipping(y, Q)
    BY <1>0, <1>2, <2>2, <2>3, <2>4 DEF Sound, Flipping
  <2>7. Hovering(y)
    BY <1>0, <2>3, <2>4, HoverKept DEF Sound
  <2>8. Served(y, d)
    BY <2>2, <2>3 DEF Served
  <2>9. ServesOthers(x, y, D, d)
    <3> SUFFICES ASSUME NEW e \in D \ {d}, Served(x, e) PROVE Served(y, e)
      BY DEF ServesOthers
    <3>1. Shared(x, e) <=> Shared(y, e)
      BY <1>0, <2>3, <2>5, SharedSame DEF Sound
    <3> QED BY <2>3, <3>1 DEF Served
  <2> QED BY <2>1, <2>3, <2>5, <2>6, <2>7, <2>8, <2>9 DEF Sound
<1>3. CASE ~x.displays[d].needed /\ ~x.displays[d].scheduled
  <2>1. DisplayOnNotify(x, d, act) = RedrawAll(x, d, act)
    BY <1>3 DEF DisplayOnNotify
  <2>2. FlippingBut(x, Q, d)
    BY DEF Sound, Flipping, FlippingBut
  <2>3. HoveringBut(x, d)
    <3>1. Hovering(x)
      BY DEF Sound
    <3> QED BY <3>1, HoverBut
  <2> QED BY <1>3, <2>1, <2>2, <2>3, RedrawSound DEF Sound
<1> QED BY <1>1, <1>2, <1>3

LEMMA WakeupSound ==
    ASSUME NEW D, NEW x, NEW d \in D, NEW act \in BOOLEAN, NEW Q, stack \in Seq(Sids), Sound(x, D, Q),
           1 \in D, Width \in Nat \ {0}
    PROVE  Sound(DisplayOnWakeup(x, d, act), D, Q)
<1>0. x \in State(D) /\ DOMAIN x.displays = D /\ x.displays[d] \in Display
  BY DEF Sound, State
<1>1. CASE ~act
  BY <1>1 DEF DisplayOnWakeup
<1>2. CASE act
  <2> DEFINE r == [x.displays[d] EXCEPT !.position = 0]
             ds == [x.displays EXCEPT ![d] = r]
             new == [x EXCEPT !.displays = ds, !.behind = x.behind \ {d}]
  <2>1. DisplayOnWakeup(x, d, act) = RedrawAll(new, d, act)
    BY <1>2 DEF DisplayOnWakeup
  <2>2. r \in Display /\ r.scheduled = x.displays[d].scheduled /\ r.needed = x.displays[d].needed
        /\ r.connector = x.displays[d].connector /\ r.position = 0
    BY <1>0 DEF Display
  <2> HIDE DEF r
  <2>3. ds \in [D -> Display] /\ ds[d] = r /\ \A e \in D \ {d} : ds[e] = x.displays[e]
    BY <1>0, <2>2 DEF State
  <2> HIDE DEF ds
  <2>4. /\ new \in State(D) /\ new.flips = x.flips /\ new.behind = x.behind \ {d}
        /\ new.pointer = x.pointer /\ new.displays = ds
    BY <1>0, <2>3 DEF State
  <2> HIDE DEF new
  <2>5. DOMAIN new.displays = D /\ new.displays[d] = r /\ \A e \in D \ {d} : new.displays[e] = x.displays[e]
    BY <2>3, <2>4 DEF State
  <2>6. Connected(new) /\ new.displays[1].position = 0
    BY <1>0, <2>2, <2>5 DEF Sound, Connected
  <2>7. FlippingBut(new, Q, d)
    BY <1>0, <2>2, <2>4, <2>5 DEF Sound, Flipping, FlippingBut
  <2>8. HoveringBut(new, d)
    <3>1. CASE d = 1
      <4>1. \A e \in D : new.displays[e].position = x.displays[e].position
        BY <2>2, <2>5, <3>1 DEF Sound
      <4>2. \A e \in D : AreaOf(new.displays, e) = AreaOf(x.displays, e)
        BY <4>1 DEF AreaOf
      <4>3. PlacedIn(new) => PlacedIn(x)
        BY <1>0, <2>5, <4>2 DEF PlacedIn
      <4>4. ASSUME NEW e \in D, HoversOver(x, e), e # d PROVE HoversOver(new, e)
        BY <2>4, <4>1, <4>2, <4>4 DEF HoversOver
      <4>5. Hovering(x)
        BY DEF Sound
      <4> QED BY <1>0, <2>4, <2>5, <4>2, <4>3, <4>4, <4>5 DEF Hovering, HoveringBut, HoversOver
    <3>2. CASE d # 1
      <4>1. 0 \in AreaOf(new.displays, d) /\ 0 \in AreaOf(new.displays, 1)
        BY <2>2, <2>5, <2>6 DEF AreaOf, Area
      <4>2. ~PlacedIn(new)
        BY <2>5, <3>2, <4>1 DEF PlacedIn
      <4> QED BY <4>2 DEF HoveringBut
    <3> QED BY <3>1, <3>2
  <2>9. Sound(RedrawAll(new, d, act), D, Q)
    BY <2>4, <2>6, <2>7, <2>8, RedrawSound
  <2> QED BY <2>1, <2>9
<1> QED BY <1>1, <1>2

LEMMA PageflipSound ==
    ASSUME NEW D, NEW x, NEW d \in D, NEW act \in BOOLEAN, NEW Q, stack \in Seq(Sids),
           Sound(x, D, Q \union {d}), d \notin Q
    PROVE  LET y == DisplayOnPageflip(x, d, act)
           IN  /\ Sound(y, D, Q) /\ ServesOthers(x, y, D, d)
               /\ act /\ Served(x, d) => Served(y, d)
<1>0. x \in State(D) /\ DOMAIN x.displays = D /\ x.displays[d] \in Display
  BY DEF Sound, State
<1> DEFINE r == [x.displays[d] EXCEPT !.scheduled = FALSE]
           done == [x EXCEPT !.displays = [x.displays EXCEPT ![d] = r]]
<1>1. DisplayOnPageflip(x, d, act) = IF done.displays[d].needed THEN RedrawAll(done, d, act) ELSE done
  BY DEF DisplayOnPageflip
<1>2. r \in Display /\ ~r.scheduled /\ r.needed = x.displays[d].needed
      /\ r.connector = x.displays[d].connector /\ r.position = x.displays[d].position
  BY <1>0 DEF Display
<1> HIDE DEF r
<1>3. /\ done \in State(D) /\ done.flips = x.flips /\ done.behind = x.behind /\ done.pointer = x.pointer
      /\ done.displays[d] = r /\ \A e \in D \ {d} : done.displays[e] = x.displays[e]
  BY <1>0, <1>2, Edited
<1> HIDE DEF done
<1>4. DOMAIN done.displays = D /\ \A e \in D : done.displays[e].position = x.displays[e].position
                                             /\ done.displays[e].connector = x.displays[e].connector
  BY <1>2, <1>3 DEF State
<1>5. Connected(done) /\ (1 \in D => done.displays[1].position = 0)
  BY <1>0, <1>4 DEF Sound, Connected
<1>6. FlippingBut(done, Q, d)
  BY <1>0, <1>2, <1>3, <1>4 DEF Sound, Flipping, FlippingBut
<1>7. Hovering(done)
  BY <1>0, <1>3, <1>4, HoverKept DEF Sound
<1>8. \A e \in D : Shared(x, e) <=> Shared(done, e)
  BY <1>0, <1>3, <1>5, SharedSame DEF Sound
<1>9. ServesOthers(x, done, D, d)
  BY <1>3, <1>8 DEF ServesOthers, Served
<1>10. CASE done.displays[d].needed
  <2> DEFINE y == RedrawAll(done, d, act)
  <2>1. Sound(y, D, Q) /\ ServesOthers(done, y, D, d) /\ (act => Served(y, d))
    BY <1>2, <1>3, <1>5, <1>6, <1>7, RedrawSound, HoverBut
  <2> HIDE DEF y
  <2>2. ServesOthers(x, y, D, d)
    BY <1>9, <2>1 DEF ServesOthers
  <2>3. DisplayOnPageflip(x, d, act) = y
    BY <1>1, <1>10 DEF y
  <2> QED BY <2>1, <2>2, <2>3
<1>11. CASE ~done.displays[d].needed
  <2>1. Flipping(done, Q)
    BY <1>6, <1>11 DEF Flipping, FlippingBut
  <2>2. Sound(done, D, Q)
    BY <1>3, <1>5, <1>7, <2>1 DEF Sound
  <2>3. Served(x, d) => Served(done, d)
    BY <1>2, <1>3, <1>8 DEF Served
  <2> QED BY <1>1, <1>9, <1>11, <2>2, <2>3
<1> QED BY <1>10, <1>11

-----------------------------------------------------------------------------
(* Displays gone through one after another: f gives the state after each.  *)
Goes(f, signal, order, act, k) ==
    f = [i \in 0..k |-> IF i = 0 THEN Now ELSE DisplayOn(signal, f[i - 1], order[i], act)]

Follows(f, signal, order, act) ==
    /\ f[0] = Now
    /\ \A i \in 1..Len(order) : f[i] = DisplayOn(signal, f[i - 1], order[i], act)
    /\ GoneThrough(signal, order, act) = f[Len(order)]

LEMMA Going ==
    ASSUME NEW signal, NEW D, NEW order \in Seq(D), NEW act
    PROVE  \E f : Follows(f, signal, order, act)
<1> DEFINE S == {k \in Nat : \E f : Goes(f, signal, order, act, k)}
<1>1. 0 \in S
  <2>1. Goes([i \in 0..0 |-> Now], signal, order, act, 0)
    BY DEF Goes
  <2> QED BY <2>1
<1>2. ASSUME NEW k \in Nat, k \in S PROVE k + 1 \in S
  <2>1. PICK f : Goes(f, signal, order, act, k)
    BY <1>2
  <2> DEFINE g == [i \in 0..(k + 1) |->
                        IF i = k + 1 THEN DisplayOn(signal, f[k], order[k + 1], act) ELSE f[i]]
  <2>2. \A i \in 0..k : g[i] = f[i]
    OBVIOUS
  <2>3. \A i \in 0..k : f[i] = IF i = 0 THEN Now ELSE DisplayOn(signal, f[i - 1], order[i], act)
    BY <2>1 DEF Goes
  <2> DEFINE h == [i \in 0..(k + 1) |-> IF i = 0 THEN Now ELSE DisplayOn(signal, g[i - 1], order[i], act)]
  <2>4. ASSUME NEW i \in 0..(k + 1) PROVE g[i] = h[i]
    <3>1. CASE i = k + 1
      <4>1. g[k + 1] = DisplayOn(signal, f[k], order[k + 1], act)
        OBVIOUS
      <4>2. i - 1 = k /\ i # 0 /\ g[k] = f[k]
        BY <2>2, <3>1
      <4> HIDE DEF g
      <4>3. h[i] = DisplayOn(signal, g[i - 1], order[i], act)
        BY <4>2
      <4> QED BY <3>1, <4>1, <4>2, <4>3
    <3>2. CASE i = 0
      BY <2>3, <3>2
    <3>3. CASE i # 0 /\ i # k + 1
      <4>1. i \in 0..k /\ i - 1 \in 0..k
        BY <3>3
      <4>2. g[i] = f[i] /\ g[i - 1] = f[i - 1] /\ f[i] = DisplayOn(signal, f[i - 1], order[i], act)
        BY <2>2, <2>3, <3>3, <4>1
      <4> HIDE DEF g
      <4>3. h[i] = DisplayOn(signal, g[i - 1], order[i], act)
        BY <3>3
      <4> QED BY <4>2, <4>3
    <3> QED BY <3>1, <3>2, <3>3
  <2>5. g = h
    <3>1. g = [i \in 0..(k + 1) |-> g[i]] /\ h = [i \in 0..(k + 1) |-> h[i]]
      OBVIOUS
    <3> HIDE DEF g, h
    <3> QED BY <2>4, <3>1
  <2>6. Goes(g, signal, order, act, k + 1)
    BY <2>5 DEF Goes
  <2> QED BY <2>6
<1>3. Len(order) \in S
  <2> HIDE DEF S
  <2> QED BY <1>1, <1>2, SetInduction
<1> DEFINE f == CHOOSE f : Goes(f, signal, order, act, Len(order))
<1>4. GoneThrough(signal, order, act) = f[Len(order)]
  BY DEF GoneThrough, Goes
<1>5. Goes(f, signal, order, act, Len(order))
  BY <1>3
<1> HIDE DEF f
<1>6. \A i \in 0..Len(order) : f[i] = IF i = 0 THEN Now ELSE DisplayOn(signal, f[i - 1], order[i], act)
  BY <1>5 DEF Goes
<1> QED BY <1>4, <1>6 DEF Follows

LEMMA GoneSound ==
    ASSUME NEW signal, NEW D, NEW order \in Seq(D), NEW act \in BOOLEAN, NEW Q, stack \in Seq(Sids),
           Sound(Now, D, Q), D # {} => 1 \in D, Width \in Nat \ {0}
    PROVE  LET y == GoneThrough(signal, order, act)
           IN  /\ Sound(y, D, Q)
               /\ signal # "WAKEUP" /\ act => \A i \in 1..Len(order) : Served(y, order[i])
<1>0. PICK f : Follows(f, signal, order, act)
  BY Going
<1>1. /\ f[0] = Now
      /\ \A i \in 1..Len(order) : f[i] = DisplayOn(signal, f[i - 1], order[i], act)
      /\ GoneThrough(signal, order, act) = f[Len(order)]
  BY <1>0 DEF Follows
<1> DEFINE Good(k) == /\ Sound(f[k], D, Q)
                      /\ signal # "WAKEUP" /\ act => \A i \in 1..k : Served(f[k], order[i])
           S == {k \in Nat : k <= Len(order) => Good(k)}
<1>2. 0 \in S
  BY <1>1
<1>3. ASSUME NEW k \in Nat, k \in S PROVE k + 1 \in S
  <2> SUFFICES ASSUME k + 1 <= Len(order) PROVE Good(k + 1)
    OBVIOUS
  <2>1. k <= Len(order) /\ k + 1 \in 1..Len(order) /\ (k + 1) - 1 = k
    OBVIOUS
  <2>2. Good(k)
    BY <1>3, <2>1
  <2> DEFINE d == order[k + 1]
  <2>3. d \in D /\ f[k + 1] = DisplayOn(signal, f[k], d, act)
    BY <1>1, <2>1
  <2> HIDE DEF d
  <2>4. CASE signal = "WAKEUP"
    <3>1. f[k + 1] = DisplayOnWakeup(f[k], d, act)
      BY <2>3, <2>4 DEF DisplayOn
    <3>2. 1 \in D
      BY <2>3
    <3>3. Sound(DisplayOnWakeup(f[k], d, act), D, Q)
      BY <2>2, <2>3, <3>2, WakeupSound
    <3> QED BY <2>4, <3>1, <3>3
  <2>5. CASE signal # "WAKEUP"
    <3>1. f[k + 1] = DisplayOnNotify(f[k], d, act)
      BY <2>3, <2>5 DEF DisplayOn
    <3>2. Sound(f[k + 1], D, Q) /\ ServesOthers(f[k], f[k + 1], D, d) /\ (act => Served(f[k + 1], d))
      BY <2>2, <2>3, <3>1, NotifySound
    <3>3. ASSUME act, NEW i \in 1..(k + 1) PROVE Served(f[k + 1], order[i])
      <4>1. CASE i = k + 1
        BY <3>2, <3>3, <4>1 DEF d
      <4>2. CASE i # k + 1
        <5>1. i \in 1..k /\ order[i] \in D
          BY <2>1, <4>2
        <5>2. Served(f[k], order[i])
          BY <2>2, <2>5, <3>3, <5>1
        <5> QED BY <3>2, <3>3, <5>1, <5>2 DEF ServesOthers
      <4> QED BY <4>1, <4>2
    <3> QED BY <3>2, <3>3
  <2> QED BY <2>4, <2>5
<1>4. Len(order) \in S
  <2> HIDE DEF S
  <2> QED BY <1>2, <1>3, SetInduction
<1> QED BY <1>1, <1>4

-----------------------------------------------------------------------------
(* The state of the exhibitor and the invariant.                           *)
(* A state like it, whatever outputs are connected to it.                  *)
Well(x, D, Q) ==
    /\ x \in State(D) /\ Flipping(x, Q)
    /\ 1 \in D => x.displays[1].position = 0
    /\ Hovering(x)

LEMMA SoundWell ==
    ASSUME NEW x, NEW D, NEW Q, Sound(x, D, Q)
    PROVE  Well(x, D, Q)
BY DEF Sound, Well

(* The next state, if the stack and windows do not change.                 *)
LEMMA BecomesSound ==
    ASSUME NEW D, NEW Q, NEW x, Well(x, D, Q), Becomes(x), stack' = stack, windows' = windows,
           Returning' = Q, Distinct', FlipsOnce, D # {} => 1 \in D
    PROVE  /\ DOMAIN displays' = D /\ displays' \in [D -> Display]
           /\ flips' \subseteq D /\ behind' \subseteq D /\ pointer' \in Pointer
           /\ FlipsOnce' /\ FirstStays' /\ HoverCurrent'
<1>1. x \in State(D) /\ displays' = x.displays /\ flips' = x.flips /\ behind' = x.behind /\ pointer' = x.pointer
  BY DEF Well, Becomes
<1>2. DOMAIN displays' = D /\ displays' \in [D -> Display]
      /\ flips' \subseteq D /\ behind' \subseteq D /\ pointer' \in Pointer
  BY <1>1 DEF State
<1>3. FirstStays'
  BY <1>1, <1>2 DEF FirstStays, Well
<1>4. FlipsOnce'
  <2>1. Flipping(x, Q) => Flipping(Now, Returning)'
    BY <1>1 DEF Flipping, Now
  <2> QED BY <2>1 DEF FlipsOnce, Well, Distinct
<1>5. HoverCurrent'
  <2> SUFFICES ASSUME Placed', (displays # Empty)'
               PROVE  (\E d \in DOMAIN displays :
                        /\ pointer.area = AreaOf(displays, d) /\ pointer.position \in pointer.area
                        /\ d \notin behind => pointer.pfsid = Under(d, pointer.position - displays[d].position))'
    BY DEF HoverCurrent
  <2>1. PlacedIn(x)
    BY <1>1 DEF PlacedIn, Placed
  <2>2. DOMAIN x.displays # {}
    <3>1. ASSUME DOMAIN displays' = {} PROVE FALSE
      <4>1. displays' = [e \in {} |-> e]
        BY <1>2, <3>1
      <4> QED BY <4>1 DEF Empty
    <3> QED BY <1>1, <3>1
  <2>3. PICK d \in DOMAIN x.displays : HoversOver(x, d)
    BY <2>1, <2>2 DEF Well, Hovering
  <2>4. \A p : Under(d, p)' = Under(d, p)
    BY DEF Under
  <2> QED BY <1>1, <2>3, <2>4 DEF HoversOver
<1> QED BY <1>2, <1>3, <1>4, <1>5

-----------------------------------------------------------------------------
(* The invariant in three parts: the input manager, the exhibitor, and the *)
(* queue between them.                                                     *)
ExhibitorOK ==
    /\ \E n \in Nat : DOMAIN displays = 1..n
    /\ displays \in [DOMAIN displays -> Display]
    /\ flips \subseteq DOMAIN displays /\ behind \subseteq DOMAIN displays
    /\ pointer \in Pointer /\ dragger \subseteq Dragged
    /\ DOMAIN windows \subseteq Sids /\ stack \in Seq(Sids) /\ kfsid \in Surface
    /\ Returning \subseteq DOMAIN displays
    /\ FlipsOnce /\ FirstStays /\ HoverCurrent

Following == inbox \in Seq(Message) /\ CommandsWhole /\ ModeComes /\ NotifyFollows

LEMMA Parts == IInv => Ready /\ ExhibitorOK /\ Following /\ BehindNotified
BY DEF IInv, TypeOK, Ready, ExhibitorOK, Following

LEMMA PartsNext ==
    ASSUME Ready', ExhibitorOK', Following', BehindNotified'
    PROVE  IInv'
BY DEF IInv, TypeOK, Ready, ExhibitorOK, Following

(* What was made of a sequence of messages.                                *)
LEMMA Messages ==
    /\ \A kind \in {"NOTIFY", "WAKEUP", "SUSPEND", "LOOK", "RESET"} : Signal(kind) \in Message
    /\ \A d \in Nat : [kind |-> "PAGE_FLIP", id |-> d] \in Message
    /\ \A c \in Connectors : [kind |-> "OUTPUT_FOUND", connector |-> c] \in Message
    /\ \A v \in Int : [kind |-> "MOTION", vector |-> v] \in Message
    /\ \A x \in Int : [kind |-> "POSITION", position |-> x] \in Message
    /\ \A b \in BOOLEAN : [kind |-> "BUTTON", pressed |-> b] \in Message
    /\ \A b \in BOOLEAN : [kind |-> "MODE", active |-> b] \in Message
    /\ \A c \in Command : [kind |-> "COMMAND", command |-> c] \in Message
    /\ \A s \in Surface : [kind |-> "FOCUS", sid |-> s] \in Message
    /\ \A kind \in {"SURFACE_READY", "SURFACE_DESTROYED"}, s \in Sids : [kind |-> kind, sid |-> s] \in Message
<1>1. \A kind \in {"NOTIFY", "WAKEUP", "SUSPEND", "LOOK", "RESET"} : Signal(kind) \in Message
  BY DEF Signal, Message
<1>2. \A d \in Nat : [kind |-> "PAGE_FLIP", id |-> d] \in Message
  BY DEF Message
<1>3. \A c \in Connectors : [kind |-> "OUTPUT_FOUND", connector |-> c] \in Message
  BY DEF Message
<1>4. \A v \in Int : [kind |-> "MOTION", vector |-> v] \in Message
  BY DEF Message
<1>5. \A x \in Int : [kind |-> "POSITION", position |-> x] \in Message
  BY DEF Message
<1>6. \A b \in BOOLEAN : [kind |-> "BUTTON", pressed |-> b] \in Message
  BY DEF Message
<1>7. \A b \in BOOLEAN : [kind |-> "MODE", active |-> b] \in Message
  BY DEF Message
<1>8. \A c \in Command : [kind |-> "COMMAND", command |-> c] \in Message
  BY DEF Message
<1>9. \A s \in Surface : [kind |-> "FOCUS", sid |-> s] \in Message
  BY DEF Message
<1>10. \A kind \in {"SURFACE_READY", "SURFACE_DESTROYED"}, s \in Sids : [kind |-> kind, sid |-> s] \in Message
  BY DEF Message
<1> QED BY <1>1, <1>2, <1>3, <1>4, <1>5, <1>6, <1>7, <1>8, <1>9, <1>10

LEMMA MessageFields ==
    ASSUME NEW m \in Message
    PROVE  /\ m.kind = "NOTIFY" => m = Notify
           /\ m.kind = "PAGE_FLIP" => m.id \in Nat /\ m = [kind |-> "PAGE_FLIP", id |-> m.id]
           /\ m.kind = "OUTPUT_FOUND" => m.connector \in Connectors
           /\ m.kind = "MOTION" => m.vector \in Int
           /\ m.kind = "POSITION" => m.position \in Int
           /\ m.kind = "MODE" => m.active \in BOOLEAN /\ m = [kind |-> "MODE", active |-> m.active]
           /\ m.kind = "FOCUS" => m.sid \in Surface
           /\ m.kind \in {"SURFACE_READY", "SURFACE_DESTROYED"} => m.sid \in Sids
<1>1. m.kind = "NOTIFY" => m = Notify
  BY DEF Message, Notify, Signal
<1>2. m.kind = "PAGE_FLIP" => m.id \in Nat /\ m = [kind |-> "PAGE_FLIP", id |-> m.id]
  BY DEF Message
<1>3. m.kind = "OUTPUT_FOUND" => m.connector \in Connectors
  BY DEF Message
<1>4. m.kind = "MOTION" => m.vector \in Int
  BY DEF Message
<1>5. m.kind = "POSITION" => m.position \in Int
  BY DEF Message
<1>6. m.kind = "MODE" => m.active \in BOOLEAN /\ m = [kind |-> "MODE", active |-> m.active]
  BY DEF Message
<1>7. m.kind = "FOCUS" => m.sid \in Surface
  BY DEF Message
<1>8. m.kind \in {"SURFACE_READY", "SURFACE_DESTROYED"} => m.sid \in Sids
  BY DEF Message
<1> QED BY <1>1, <1>2, <1>3, <1>4, <1>5, <1>6, <1>7, <1>8

-----------------------------------------------------------------------------
(* The queue, when nothing is pushed that others rely on.                  *)
HasNotify == \E i \in 1..Len(inbox) : inbox[i].kind = "NOTIFY"

LEMMA NotifyStays ==
    ASSUME inbox \in Seq(Message), NEW k, NEW q, Queues(k, q), HasNotify, k = 1 => inbox[1].kind # "NOTIFY"
    PROVE  HasNotify'
<1>1. PICK i \in 1..Len(inbox) : inbox[i].kind = "NOTIFY"
  BY DEF HasNotify
<1>2. i \in (k + 1)..Len(inbox)
  BY <1>1 DEF Queues
<1>3. i - k \in 1..Len(inbox') /\ inbox'[i - k] = inbox[i]
  BY <1>2, QueueTarget
<1> QED BY <1>1, <1>3 DEF HasNotify

LEMMA NotifyComes ==
    ASSUME inbox \in Seq(Message), NEW k, NEW q, Queues(k, q), NEW i \in 1..Len(q), q[i].kind = "NOTIFY"
    PROVE  HasNotify'
BY QueueTarget DEF HasNotify

(* What is behind the first signal stays.                                  *)
LEMMA NotifyBehind ==
    ASSUME inbox \in Seq(Message), NEW q, Queues(1, q), NotifyFollows,
           inbox[1].kind = "LOOK" \/ (inbox[1].kind = "WAKEUP" /\ terminal # "waking")
    PROVE  HasNotify'
<1>1. 1 \in 1..Len(inbox)
  BY DEF Queues
<1>2. PICK j \in (1 + 1)..Len(inbox) : inbox[j].kind = "NOTIFY"
  BY <1>1 DEF NotifyFollows
<1>3. j - 1 \in 1..Len(inbox') /\ inbox'[j - 1] = inbox[j]
  BY <1>2, QueueTarget
<1> QED BY <1>2, <1>3 DEF HasNotify

LEMMA ModeTaken ==
    ASSUME inbox \in Seq(Message), NEW q, Queues(1, q), ModeComes, \A i \in 1..Len(q) : q[i].kind # "MODE",
           inbox[1].kind = "MODE", active' = active, dragger' # {} => inbox[1].active = TRUE
    PROVE  ModeComes'
<1>0. 1 \in 1..Len(inbox)
  BY DEF Queues
<1>1. ASSUME NEW i \in 1..Len(inbox'), inbox'[i].kind = "MODE",
             \A j \in (i + 1)..Len(inbox') : inbox'[j].kind # "MODE"
      PROVE  inbox'[i].active = ("visual" \in active')
  <2>1. i + 1 \in 1..Len(inbox) /\ inbox'[i] = inbox[i + 1]
    <3>1. \/ i \in 1..(Len(inbox) - 1) /\ i + 1 \in 1..Len(inbox) /\ inbox'[i] = inbox[i + 1]
          \/ i - (Len(inbox) - 1) \in 1..Len(q) /\ inbox'[i] = q[i - (Len(inbox) - 1)]
      BY QueueOrigin
    <3> QED BY <1>1, <3>1
  <2>2. ASSUME NEW j \in (i + 1 + 1)..Len(inbox) PROVE inbox[j].kind # "MODE"
    <3>1. j \in (1 + 1)..Len(inbox) /\ j - 1 \in (i + 1)..Len(inbox')
      BY <2>2 DEF Queues
    <3>2. inbox'[j - 1].kind # "MODE"
      BY <1>1, <3>1
    <3>3. inbox'[j - 1] = inbox[j]
      BY <3>1, QueueTarget
    <3> QED BY <3>2, <3>3
  <2> QED BY <1>1, <2>1, <2>2 DEF ModeComes
<1>2. ASSUME \A i \in 1..Len(inbox') : inbox'[i].kind # "MODE", dragger' # {}
      PROVE  "visual" \in active'
  <2>1. ASSUME NEW i \in (1 + 1)..Len(inbox) PROVE inbox[i].kind # "MODE"
    <3>1. i - 1 \in 1..Len(inbox') /\ inbox'[i - 1] = inbox[i]
      BY <2>1, QueueTarget
    <3> QED BY <1>2, <3>1
  <2>2. inbox[1].active = ("visual" \in active)
    BY <1>0, <2>1 DEF ModeComes
  <2> QED BY <1>2, <2>2
<1> QED BY <1>1, <1>2 DEF ModeComes

LEMMA ModePushed ==
    ASSUME inbox \in Seq(Message), ModeComes,
           Queues(0, <<[kind |-> "MODE", active |-> "visual" \in active']>>)
    PROVE  ModeComes'
<1> DEFINE n == Len(inbox)
<1>1. /\ n \in Nat /\ Len(inbox') = n + 1 /\ inbox'[n + 1] = [kind |-> "MODE", active |-> "visual" \in active']
  BY DEF Queues
<1> HIDE DEF n
<1>2. ASSUME NEW i \in 1..Len(inbox'), \A j \in (i + 1)..Len(inbox') : inbox'[j].kind # "MODE"
      PROVE  i = n + 1
  <2>1. CASE i # n + 1
    <3>1. n + 1 \in (i + 1)..Len(inbox')
      BY <1>1, <2>1
    <3> QED BY <1>1, <1>2, <3>1
  <2> QED BY <2>1
<1>3. n + 1 \in 1..Len(inbox')
  BY <1>1
<1> QED BY <1>1, <1>2, <1>3 DEF ModeComes

(* Signals that make nothing but themselves happen.                        *)
Quiet == {"NOTIFY", "SUSPEND", "RESET", "PAGE_FLIP", "OUTPUT_FOUND", "MOTION", "POSITION", "BUTTON",
          "FOCUS", "SURFACE_READY", "SURFACE_DESTROYED"}

LEMMA QuietPushed ==
    ASSUME Following, NEW k, NEW q, Queues(k, q), \A i \in 1..Len(q) : q[i].kind \in Quiet,
           active' = active, dragger' # {} => dragger # {},
           k = 1 => inbox[1].kind # "MODE", terminal = "waking" => terminal' = "waking"
    PROVE  Following'
<1>1. inbox' \in Seq(Message)
  BY DEF Queues
<1>2. \A i \in 1..Len(q) : q[i].kind \notin {"COMMAND", "MODE", "LOOK", "WAKEUP"}
  BY DEF Quiet
<1>3. CommandsWhole'
  BY <1>2, CommandsKept DEF Following
<1>4. ModeComes'
  BY <1>2, ModeKept DEF Following
<1>5. NotifyFollows'
  BY <1>2, FollowKept DEF Following
<1> QED BY <1>1, <1>3, <1>4, <1>5 DEF Following

-----------------------------------------------------------------------------
(* The exhibitor after a step.                                             *)
LEMMA ExhibitorAfter ==
    ASSUME ExhibitorOK, NEW n \in Nat, NEW Q, NEW x, Well(x, 1..n, Q), Becomes(x),
           stack' = stack, windows' = windows, dragger' \subseteq Dragged, kfsid' \in Surface,
           Returning' = Q, Distinct', Q \subseteq 1..n
    PROVE  ExhibitorOK'
<1>1. 1..n # {} => 1 \in 1..n
  OBVIOUS
<1>2. /\ DOMAIN displays' = 1..n /\ displays' \in [1..n -> Display]
      /\ flips' \subseteq 1..n /\ behind' \subseteq 1..n /\ pointer' \in Pointer
      /\ FlipsOnce' /\ FirstStays' /\ HoverCurrent'
  BY <1>1, BecomesSound DEF ExhibitorOK
<1>3. DOMAIN windows' \subseteq Sids /\ stack' \in Seq(Sids)
  BY DEF ExhibitorOK
<1> QED BY <1>2, <1>3 DEF ExhibitorOK

LEMMA NowWell ==
    ASSUME ExhibitorOK
    PROVE  /\ Now \in State(DOMAIN displays)
           /\ Now.displays = displays /\ Now.flips = flips /\ Now.behind = behind /\ Now.pointer = pointer
           /\ Sound(Now, DOMAIN displays, Returning) /\ Well(Now, DOMAIN displays, Returning) /\ Distinct
<1>1. /\ Now \in State(DOMAIN displays)
      /\ Now.displays = displays /\ Now.flips = flips /\ Now.behind = behind /\ Now.pointer = pointer
  BY DEF ExhibitorOK, Now, State
<1>2. PlacedIn(Now) <=> Placed
  BY <1>1 DEF PlacedIn, Placed
<1>3. \A d \in DOMAIN displays :
        HoversOver(Now, d) <=>
            /\ pointer.area = AreaOf(displays, d) /\ pointer.position \in pointer.area
            /\ d \notin behind => pointer.pfsid = Under(d, pointer.position - displays[d].position)
  BY <1>1 DEF HoversOver
<1>4. DOMAIN displays # {} => displays # Empty
  BY DEF Empty
<1>5. HoverCurrent
  BY DEF ExhibitorOK
<1>6. Hovering(Now)
  BY <1>1, <1>2, <1>3, <1>4, <1>5 DEF Hovering, HoverCurrent
<1>7. Connected(Now)
  BY <1>1 DEF Connected
<1>8. Sound(Now, DOMAIN displays, Returning)
  BY <1>1, <1>6, <1>7 DEF Sound, FlipsOnce, FirstStays, ExhibitorOK
<1> QED BY <1>1, <1>8, SoundWell DEF ExhibitorOK, FlipsOnce, Distinct

(* Redrawing is not concerned.                                             *)
LEMMA ExhibitorSame ==
    ASSUME ExhibitorOK, UNCHANGED <<displays, flips, behind, stack, windows>>,
           pointer' = pointer, dragger' \subseteq Dragged, kfsid' \in Surface,
           Returning' = Returning, Distinct'
    PROVE  ExhibitorOK'
<1>1. PICK n \in Nat : DOMAIN displays = 1..n
  BY DEF ExhibitorOK
<1>2. Becomes(Now)
  BY NowWell DEF Becomes
<1>3. Well(Now, 1..n, Returning) /\ Returning \subseteq 1..n
  BY <1>1, NowWell DEF ExhibitorOK
<1> HIDE DEF ExhibitorOK
<1> QED BY <1>2, <1>3, ExhibitorAfter

(* All displays are behind, and the pointer is on one of them.             *)
PointerPlaced(p) ==
    Placed /\ displays # Empty =>
        \E d \in DOMAIN displays : p.area = AreaOf(displays, d) /\ p.position \in p.area

LEMMA ExhibitorChanged ==
    ASSUME ExhibitorOK, UNCHANGED <<displays, flips>>, behind' = DOMAIN displays,
           pointer' \in Pointer, PointerPlaced(pointer'),
           DOMAIN windows' \subseteq Sids, stack' \in Seq(Sids),
           dragger' \subseteq Dragged, kfsid' \in Surface, Returning' = Returning, Distinct'
    PROVE  ExhibitorOK'
<1>1. HoverCurrent'
  <2>1. Placed' <=> Placed
    BY DEF Placed
  <2> SUFFICES ASSUME Placed, displays # Empty
               PROVE  (\E d \in DOMAIN displays :
                        /\ pointer.area = AreaOf(displays, d) /\ pointer.position \in pointer.area
                        /\ d \notin behind => pointer.pfsid = Under(d, pointer.position - displays[d].position))'
    BY <2>1 DEF HoverCurrent
  <2>2. PICK d \in DOMAIN displays : pointer'.area = AreaOf(displays, d) /\ pointer'.position \in pointer'.area
    BY DEF PointerPlaced
  <2> QED BY <2>2
<1>2. FlipsOnce'
  <2>1. Flipping(Now, Returning)'
    BY DEF ExhibitorOK, FlipsOnce, Flipping, Now
  <2> QED BY <2>1 DEF FlipsOnce, Distinct
<1>3. FirstStays'
  BY DEF ExhibitorOK, FirstStays
<1>4. /\ (\E n \in Nat : DOMAIN displays = 1..n)'
      /\ (displays \in [DOMAIN displays -> Display])'
      /\ flips' \subseteq DOMAIN displays' /\ behind' \subseteq DOMAIN displays'
      /\ Returning' \subseteq DOMAIN displays'
  BY DEF ExhibitorOK
<1> QED BY <1>1, <1>2, <1>3, <1>4 DEF ExhibitorOK

LEMMA PointerStays ==
    ASSUME ExhibitorOK
    PROVE  pointer \in Pointer /\ PointerPlaced(pointer)
BY DEF ExhibitorOK, HoverCurrent, PointerPlaced

(* What two sequences hold when they are joined.                           *)
LEMMA Joined ==
    ASSUME NEW S, NEW a \in Seq(S), NEW b \in Seq(S)
    PROVE  /\ a \o b \in Seq(S)
           /\ Len(a \o b) = Len(a) + Len(b)
           /\ \A i \in 1..Len(a) : (a \o b)[i] = a[i]
           /\ \A i \in 1..Len(b) : (a \o b)[Len(a) + i] = b[i]
<1>1. a \o b \in Seq(S) /\ Len(a \o b) = Len(a) + Len(b)
  OBVIOUS
<1>2. \A i \in 1..Len(a) : (a \o b)[i] = a[i]
  OBVIOUS
<1>3. \A i \in 1..Len(b) : (a \o b)[Len(a) + i] = b[i]
  OBVIOUS
<1> QED BY <1>1, <1>2, <1>3

-----------------------------------------------------------------------------
(* What the exhibitor takes and pushes.                                    *)
LEMMA Taken ==
    ASSUME Following, inbox # <<>>, kfsid' \in Surface,
           NEW signals \in {<<>>, <<Notify>>}, Pushes(signals)
    PROVE  \E q : /\ Queues(1, q) /\ \A i \in 1..Len(q) : q[i].kind \in {"FOCUS", "NOTIFY"}
                  /\ signals # <<>> => \E i \in 1..Len(q) : q[i].kind = "NOTIFY"
<1> DEFINE focus == IF kfsid' = kfsid THEN <<>> ELSE <<[kind |-> "FOCUS", sid |-> kfsid']>>
           q == focus \o signals
           n == Len(inbox) - 1
<1>1. Notify \in Message /\ Notify.kind = "NOTIFY" /\ [kind |-> "FOCUS", sid |-> kfsid'] \in Message
  BY Messages DEF Notify, Signal
<1>2. /\ inbox \in Seq(Message) /\ Tail(inbox) \in Seq(Message) /\ Len(Tail(inbox)) = n /\ n \in Nat
      /\ \A i \in 1..n : Tail(inbox)[i] = inbox[i + 1]
  BY DEF Following
<1>3. focus \in Seq(Message) /\ signals \in Seq(Message) /\ Len(focus) \in {0, 1} /\ Len(signals) \in {0, 1}
  <2>1. \A m \in Message : <<m>> \in Seq(Message) /\ Len(<<m>>) = 1
    OBVIOUS
  <2>2. <<>> \in Seq(Message) /\ Len(<<>>) = 0
    OBVIOUS
  <2>3. focus = <<>> \/ focus = <<[kind |-> "FOCUS", sid |-> kfsid']>>
    OBVIOUS
  <2> HIDE DEF focus
  <2>4. focus \in Seq(Message) /\ Len(focus) \in {0, 1}
    BY <1>1, <2>1, <2>2, <2>3
  <2>5. signals \in Seq(Message) /\ Len(signals) \in {0, 1}
    BY <1>1, <2>1, <2>2
  <2> QED BY <2>4, <2>5
<1>4. \A i \in 1..Len(focus) : focus[i].kind = "FOCUS"
  OBVIOUS
<1>5. \A i \in 1..Len(signals) : signals[i].kind = "NOTIFY"
  BY <1>1
<1>6. signals # <<>> => Len(signals) = 1
  OBVIOUS
<1>7. inbox' = Tail(inbox) \o focus \o signals
  BY DEF Pushes
<1> HIDE DEF focus
<1>8. q \in Seq(Message) /\ Len(q) = Len(focus) + Len(signals)
      /\ (\A i \in 1..Len(focus) : q[i] = focus[i])
      /\ (\A i \in 1..Len(signals) : q[Len(focus) + i] = signals[i])
  BY <1>3
<1>9. inbox' \in Seq(Message) /\ Len(inbox') = n + Len(focus) + Len(signals)
      /\ (\A i \in 1..n : inbox'[i] = Tail(inbox)[i])
      /\ (\A i \in 1..Len(focus) : inbox'[n + i] = focus[i])
      /\ (\A i \in 1..Len(signals) : inbox'[n + Len(focus) + i] = signals[i])
  <2> DEFINE t == Tail(inbox) \o focus
  <2>1. t \in Seq(Message) /\ Len(t) = n + Len(focus)
        /\ (\A i \in 1..n : t[i] = Tail(inbox)[i])
        /\ (\A i \in 1..Len(focus) : t[n + i] = focus[i])
    BY <1>2, <1>3, Joined
  <2>2. inbox' = t \o signals
    BY <1>7
  <2> HIDE DEF t, n
  <2>3. inbox' \in Seq(Message) /\ Len(inbox') = n + Len(focus) + Len(signals)
        /\ (\A i \in 1..Len(t) : inbox'[i] = t[i])
        /\ (\A i \in 1..Len(signals) : inbox'[Len(t) + i] = signals[i])
    <3>1. /\ t \o signals \in Seq(Message)
          /\ Len(t \o signals) = Len(t) + Len(signals)
          /\ \A i \in 1..Len(t) : (t \o signals)[i] = t[i]
          /\ \A i \in 1..Len(signals) : (t \o signals)[Len(t) + i] = signals[i]
      <4>1. t \in Seq(Message) /\ signals \in Seq(Message)
        BY <1>3, <2>1
      <4> QED BY <4>1, Joined
    <3>2. /\ inbox' \in Seq(Message) /\ Len(inbox') = Len(t) + Len(signals)
          /\ \A i \in 1..Len(t) : inbox'[i] = t[i]
          /\ \A i \in 1..Len(signals) : inbox'[Len(t) + i] = signals[i]
      BY <2>2, <3>1, Zenon
    <3> QED BY <2>1, <3>2
  <2>4. Len(focus) \in Nat /\ \A i \in 1..n : i \in 1..Len(t)
    BY <1>2, <1>3, <2>1
  <2>5. \A i \in 1..Len(focus) : n + i \in 1..Len(t)
    BY <1>2, <2>1, <2>4
  <2> QED BY <2>1, <2>3, <2>4, <2>5
<1> HIDE DEF q
<1>10. ASSUME NEW i \in 1..Len(q)
       PROVE  inbox'[n + i] = q[i] /\ q[i].kind \in {"FOCUS", "NOTIFY"}
  <2>1. CASE i \in 1..Len(focus)
    BY <1>4, <1>8, <1>9, <2>1
  <2>2. CASE i \notin 1..Len(focus)
    <3> DEFINE j == i - Len(focus)
    <3>1. j \in 1..Len(signals) /\ i = Len(focus) + j /\ n + i = n + Len(focus) + j
      BY <1>2, <1>3, <1>8, <2>2
    <3> HIDE DEF j
    <3>2. q[i] = signals[j] /\ inbox'[n + i] = signals[j]
      BY <1>8, <1>9, <3>1
    <3> QED BY <1>5, <3>1, <3>2
  <2> QED BY <2>1, <2>2
<1>11. Queues(1, q)
  <2>1. 1 <= Len(inbox) /\ Len(inbox') = Len(inbox) - 1 + Len(q)
    BY <1>2, <1>3, <1>8, <1>9
  <2>2. \A i \in 1..(Len(inbox) - 1) : inbox'[i] = inbox[i + 1]
    BY <1>2, <1>9
  <2> QED BY <1>8, <1>9, <1>10, <2>1, <2>2 DEF Queues
<1>12. ASSUME signals # <<>> PROVE \E i \in 1..Len(q) : q[i].kind = "NOTIFY"
  <2>1. 1 \in 1..Len(signals) /\ Len(focus) + 1 \in 1..Len(q)
    BY <1>3, <1>6, <1>8, <1>12
  <2>2. q[Len(focus) + 1].kind = "NOTIFY"
    BY <1>5, <1>8, <2>1
  <2> QED BY <2>1, <2>2
<1> QED BY <1>10, <1>11, <1>12

(* The queue and page flips after the first signal was taken.              *)
LEMMA AfterTaking ==
    ASSUME Following, Distinct, inbox # <<>>, kfsid' \in Surface,
           NEW signals \in {<<>>, <<Notify>>}, Pushes(signals),
           IF Head(inbox).kind = "MODE" THEN dragger' # {} => Head(inbox).active = TRUE
                                        ELSE dragger' # {} => dragger # {}
    PROVE  /\ Ready => Ready'
           /\ Following' /\ Distinct' /\ terminal' = terminal
           /\ signals # <<>> => HasNotify'
           /\ HasNotify /\ Head(inbox).kind # "NOTIFY" => HasNotify'
           /\ Head(inbox).kind \in {"LOOK", "WAKEUP"} /\ terminal # "waking" => HasNotify'
           /\ Head(inbox).kind # "PAGE_FLIP" => Returning' = Returning
           /\ Head(inbox).kind = "PAGE_FLIP" => /\ Head(inbox).id \in Returning
                                                /\ Returning' = Returning \ {Head(inbox).id}
<1>1. inbox \in Seq(Message) /\ Head(inbox) = inbox[1]
  BY DEF Following
<1>2. active' = active /\ command' = command /\ terminal' = terminal
  BY DEF Pushes, gears
<1>3. Ready => Ready'
  BY <1>2 DEF Ready, WorkspaceNamed
<1>4. PICK q : /\ Queues(1, q) /\ \A i \in 1..Len(q) : q[i].kind \in {"FOCUS", "NOTIFY"}
               /\ signals # <<>> => \E i \in 1..Len(q) : q[i].kind = "NOTIFY"
  BY Taken
<1>5. \A i \in 1..Len(q) : q[i].kind \in Quiet /\ q[i].kind \notin {"MODE", "PAGE_FLIP", "COMMAND", "LOOK", "WAKEUP"}
  BY <1>4 DEF Quiet
<1>6. Following'
  <2>1. CASE inbox[1].kind # "MODE"
    BY <1>1, <1>2, <1>4, <1>5, <2>1, QuietPushed
  <2>2. CASE inbox[1].kind = "MODE"
    <3>1. ModeComes'
      BY <1>1, <1>2, <1>4, <1>5, <2>2, ModeTaken DEF Following
    <3>2. CommandsWhole'
      BY <1>4, <1>5, CommandsKept DEF Following
    <3>3. NotifyFollows'
      BY <1>2, <1>4, <1>5, FollowKept DEF Following
    <3> QED BY <1>4, <3>1, <3>2, <3>3 DEF Following, Queues
  <2> QED BY <2>1, <2>2
<1>7. signals # <<>> => HasNotify'
  BY <1>1, <1>4, NotifyComes
<1>8. HasNotify /\ inbox[1].kind # "NOTIFY" => HasNotify'
  BY <1>1, <1>4, NotifyStays
<1>9. inbox[1].kind \in {"LOOK", "WAKEUP"} /\ terminal # "waking" => HasNotify'
  BY <1>1, <1>4, NotifyBehind DEF Following
<1>10. inbox[1].kind # "PAGE_FLIP" => Returning' = Returning /\ Distinct'
  BY <1>1, <1>4, <1>5, NoneReturns
<1>11. inbox[1].kind = "PAGE_FLIP" =>
            inbox[1].id \in Returning /\ Returning' = Returning \ {inbox[1].id} /\ Distinct'
  BY <1>1, <1>4, <1>5, OneArrives
<1> QED BY <1>1, <1>2, <1>3, <1>6, <1>7, <1>8, <1>9, <1>10, <1>11

(* What is left to do for displays that are behind.                        *)
LEMMA BehindAfter ==
    ASSUME NEW y, Becomes(y), terminal' = "active" => HasNotify' \/ \A d \in DOMAIN y.displays : Served(y, d),
           ExhibitorOK'
    PROVE  BehindNotified'
<1>1. behind' = y.behind /\ displays' = y.displays /\ behind' \subseteq DOMAIN displays'
  BY DEF Becomes, ExhibitorOK
<1> QED BY <1>1 DEF BehindNotified, HasNotify, Served, Shared, Alone

LEMMA BehindBefore ==
    ASSUME BehindNotified, terminal = "active", ~HasNotify
    PROVE  \A d : Served(Now, d)
BY DEF BehindNotified, HasNotify, Served, Now, Shared, Alone

-----------------------------------------------------------------------------
(* The exhibitor takes signals that redraw.                                *)
LEMMA OrdersCover ==
    ASSUME ExhibitorOK, NEW order \in Orders
    PROVE  /\ order \in Seq(DOMAIN displays)
           /\ \A d \in DOMAIN displays : \E i \in 1..Len(order) : order[i] = d
<1>1. PICK n \in Nat : DOMAIN displays = 1..n
  BY DEF ExhibitorOK
<1>2. Cardinality(DOMAIN displays) \in Nat
  BY <1>1, FS_Interval, FS_CardinalityType
<1> DEFINE c == Cardinality(DOMAIN displays)
<1>3. order \in [1..c -> DOMAIN displays] /\ \A d \in DOMAIN displays : \E i \in DOMAIN order : order[i] = d
  BY DEF Orders
<1> HIDE DEF c
<1>4. order \in Seq(DOMAIN displays) /\ DOMAIN order = 1..Len(order)
  BY <1>2, <1>3 DEF c
<1> QED BY <1>3, <1>4

LEMMA TakeAll ==
    ASSUME SessionAssumption, IInv, NEW signal \in {"NOTIFY", "WAKEUP"},
           Takes(signal), OnAll(signal, MayDraw), Pushes(<<>>)
    PROVE  IInv'
<1>1. Ready /\ ExhibitorOK /\ Following /\ BehindNotified
  BY Parts
<1>2. Sound(Now, DOMAIN displays, Returning) /\ Distinct
  BY <1>1, NowWell
<1>3. inbox # <<>> /\ Head(inbox).kind = signal
  BY DEF Takes
<1>4. /\ dragger' = dragger /\ windows' = windows /\ stack' = stack /\ kfsid' = kfsid
      /\ dragger' \subseteq Dragged /\ kfsid' \in Surface /\ stack \in Seq(Sids)
  BY <1>1 DEF OnAll, ExhibitorOK
<1>5. /\ Ready' /\ Following' /\ Distinct' /\ terminal' = terminal /\ Returning' = Returning
      /\ signal = "WAKEUP" /\ terminal # "waking" => HasNotify'
  BY <1>1, <1>2, <1>3, <1>4, AfterTaking
<1>6. PICK order \in Orders : Becomes(GoneThrough(signal, order, MayDraw))
  BY DEF OnAll
<1> DEFINE y == GoneThrough(signal, order, MayDraw)
<1>7. order \in Seq(DOMAIN displays) /\ \A d \in DOMAIN displays : \E i \in 1..Len(order) : order[i] = d
  BY <1>1, OrdersCover
<1>8. PICK n \in Nat : DOMAIN displays = 1..n
  BY <1>1 DEF ExhibitorOK
<1>9. /\ Sound(y, DOMAIN displays, Returning)
      /\ signal # "WAKEUP" /\ MayDraw => \A i \in 1..Len(order) : Served(y, order[i])
  <2>1. Width \in Nat \ {0}
    BY DEF SessionAssumption
  <2>2. DOMAIN displays # {} => 1 \in DOMAIN displays
    BY <1>8
  <2>3. MayDraw \in BOOLEAN
    BY DEF MayDraw
  <2> QED BY <1>2, <1>4, <1>7, <2>1, <2>2, <2>3, GoneSound
<1>10. Becomes(y)
  BY <1>6
<1> HIDE DEF y
<1>11. ExhibitorOK'
  <2>1. Well(y, 1..n, Returning)
    BY <1>8, <1>9, SoundWell
  <2>2. Returning \subseteq 1..n
    BY <1>1, <1>8 DEF ExhibitorOK
  <2> QED BY <1>1, <1>4, <1>5, <1>10, <2>1, <2>2, ExhibitorAfter
<1>12. BehindNotified'
  <2>1. ASSUME terminal' = "active", ~HasNotify', NEW d \in DOMAIN y.displays PROVE Served(y, d)
    <3>1. signal # "WAKEUP" /\ MayDraw
      BY <1>5, <2>1 DEF MayDraw
    <3>2. d \in DOMAIN displays
      BY <1>9, <2>1 DEF Sound, State
    <3> QED BY <1>7, <1>9, <3>1, <3>2
  <2> QED BY <1>10, <1>11, <2>1, BehindAfter
<1> QED BY <1>5, <1>11, <1>12, PartsNext

LEMMA TakePageFlip ==
    ASSUME IInv, Takes("PAGE_FLIP"), OnPageflip(Head(inbox).id, MayDraw), Pushes(<<>>)
    PROVE  IInv'
<1>1. Ready /\ ExhibitorOK /\ Following /\ BehindNotified
  BY Parts
<1>2. Sound(Now, DOMAIN displays, Returning) /\ Distinct
  BY <1>1, NowWell
<1>3. inbox # <<>> /\ Head(inbox).kind = "PAGE_FLIP"
  BY DEF Takes
<1> DEFINE d == Head(inbox).id
           y == DisplayOnPageflip(Now, d, MayDraw)
<1>4. /\ dragger' = dragger /\ windows' = windows /\ stack' = stack /\ kfsid' = kfsid
      /\ dragger' \subseteq Dragged /\ kfsid' \in Surface /\ stack \in Seq(Sids)
  BY <1>1 DEF OnPageflip, ExhibitorOK
<1>5. /\ Ready' /\ Following' /\ Distinct' /\ terminal' = terminal
      /\ d \in Returning /\ Returning' = Returning \ {d}
      /\ HasNotify => HasNotify'
  BY <1>1, <1>2, <1>3, <1>4, AfterTaking
<1>6. PICK n \in Nat : DOMAIN displays = 1..n
  BY <1>1 DEF ExhibitorOK
<1>7. Returning \subseteq DOMAIN displays
  BY <1>1 DEF ExhibitorOK
<1>8. Becomes(y)
  BY DEF OnPageflip
<1> HIDE DEF d
<1>9. /\ Sound(y, DOMAIN displays, Returning \ {d}) /\ ServesOthers(Now, y, DOMAIN displays, d)
      /\ MayDraw /\ Served(Now, d) => Served(y, d)
  <2>1. Returning = (Returning \ {d}) \union {d} /\ d \notin Returning \ {d} /\ d \in DOMAIN displays
    BY <1>5, <1>7
  <2>2. MayDraw \in BOOLEAN
    BY DEF MayDraw
  <2>3. Sound(Now, DOMAIN displays, (Returning \ {d}) \union {d})
    BY <1>2, <2>1
  <2> HIDE DEF y
  <2> QED BY <1>4, <2>1, <2>2, <2>3, PageflipSound DEF y
<1> HIDE DEF y
<1>10. ExhibitorOK'
  <2>1. Well(y, 1..n, Returning \ {d})
    BY <1>6, <1>9, SoundWell
  <2>2. Returning \ {d} \subseteq 1..n
    BY <1>6, <1>7
  <2> QED BY <1>1, <1>4, <1>5, <1>8, <2>1, <2>2, ExhibitorAfter
<1>11. BehindNotified'
  <2>1. ASSUME terminal' = "active", ~HasNotify', NEW e \in DOMAIN y.displays PROVE Served(y, e)
    <3>1. terminal = "active" /\ ~HasNotify /\ MayDraw
      BY <1>5, <2>1 DEF MayDraw
    <3>2. e \in DOMAIN displays
      BY <1>9, <2>1 DEF Sound, State
    <3>3. Served(Now, e) /\ Served(Now, d)
      BY <1>1, <3>1, BehindBefore
    <3> QED BY <1>9, <3>1, <3>2, <3>3 DEF ServesOthers
  <2> QED BY <1>8, <1>10, <2>1, BehindAfter
<1> QED BY <1>5, <1>10, <1>11, PartsNext

(* Signals that leave what is drawn alone.                                 *)
LEMMA TakeStill ==
    ASSUME IInv, inbox # <<>>, Head(inbox).kind \notin {"NOTIFY", "PAGE_FLIP"}, NEW signals \in {<<>>, <<Notify>>},
           Pushes(signals), UNCHANGED <<displays, flips, behind>>, ExhibitorOK', kfsid' \in Surface,
           IF Head(inbox).kind = "MODE" THEN dragger' # {} => Head(inbox).active = TRUE
                                        ELSE dragger' # {} => dragger # {}
    PROVE  IInv'
<1>1. Ready /\ ExhibitorOK /\ Following /\ BehindNotified
  BY Parts
<1>2. Distinct
  BY <1>1, NowWell
<1>3. Ready' /\ Following' /\ terminal' = terminal /\ (HasNotify => HasNotify')
  BY <1>1, <1>2, AfterTaking
<1>4. BehindNotified'
  BY <1>1, <1>3 DEF BehindNotified, HasNotify, Alone
<1> QED BY <1>3, <1>4, PartsNext

(* Signals whose handlers notify, or have a notification behind them.      *)
LEMMA TakeChange ==
    ASSUME IInv, inbox # <<>>, Head(inbox).kind \notin {"MODE", "PAGE_FLIP", "NOTIFY"},
           NEW signals \in {<<>>, <<Notify>>}, Pushes(signals),
           signals # <<>> \/ Head(inbox).kind = "LOOK",
           UNCHANGED <<displays, flips>>, behind' = DOMAIN displays,
           pointer' \in Pointer, PointerPlaced(pointer'),
           DOMAIN windows' \subseteq Sids, stack' \in Seq(Sids),
           dragger' \subseteq Dragged, dragger' # {} => dragger # {}, kfsid' \in Surface
    PROVE  IInv'
<1>1. Ready /\ ExhibitorOK /\ Following /\ BehindNotified
  BY Parts
<1>2. Distinct
  BY <1>1, NowWell
<1>3. /\ Ready' /\ Following' /\ Distinct' /\ terminal' = terminal /\ Returning' = Returning
      /\ terminal # "waking" => HasNotify'
  BY <1>1, <1>2, AfterTaking
<1>4. ExhibitorOK'
  BY <1>1, <1>3, ExhibitorChanged
<1>5. BehindNotified'
  BY <1>3 DEF BehindNotified, HasNotify
<1> QED BY <1>3, <1>4, <1>5, PartsNext

-----------------------------------------------------------------------------
(* A new display goes to the right of all the others.                      *)
LEMMA NewPosition ==
    ASSUME NEW n \in Nat, DOMAIN displays = 1..n, displays \in [1..n -> Display], Width \in Nat \ {0}
    PROVE  ChooseNewDisplayPosition \in Int /\ (n = 0 => ChooseNewDisplayPosition = 0)
<1> DEFINE End(d) == displays[d].position + Width
           Ends == {0} \union {End(d) : d \in 1..n}
           S == {k \in Nat : k <= n => \E p \in Ends : \A d \in 1..k : p >= End(d)}
<1>1. \A d \in 1..n : End(d) \in Int
  BY DEF Display
<1>2. ChooseNewDisplayPosition = CHOOSE p \in Ends : \A d \in 1..n : p >= End(d)
  BY DEF ChooseNewDisplayPosition
<1> HIDE DEF End
<1>3. Ends \subseteq Int /\ \A d \in 1..n : End(d) \in Ends
  BY <1>1
<1>4. 0 \in S
  <2>1. 0 \in Ends /\ 1..0 = {}
    OBVIOUS
  <2> HIDE DEF Ends
  <2> QED BY <2>1
<1>5. ASSUME NEW k \in Nat, k \in S PROVE k + 1 \in S
  <2> SUFFICES ASSUME k + 1 <= n PROVE \E p \in Ends : \A d \in 1..(k + 1) : p >= End(d)
    OBVIOUS
  <2> HIDE DEF Ends
  <2>1. PICK p \in Ends : \A d \in 1..k : p >= End(d)
    BY <1>5
  <2>2. k + 1 \in 1..n /\ 1..(k + 1) = 1..k \union {k + 1} /\ 1..k \subseteq 1..n
    OBVIOUS
  <2>3. CASE p >= End(k + 1)
    BY <2>1, <2>2, <2>3
  <2>4. CASE ~(p >= End(k + 1))
    <3>1. \A d \in 1..(k + 1) : End(k + 1) >= End(d)
      BY <1>1, <1>3, <2>1, <2>2, <2>4
    <3> QED BY <1>3, <2>2, <3>1
  <2> QED BY <2>3, <2>4
<1>6. n \in S
  <2> HIDE DEF S
  <2> QED BY <1>4, <1>5, SetInduction
<1>7. ChooseNewDisplayPosition \in Ends
  <2>1. \E p \in Ends : \A d \in 1..n : p >= End(d)
    BY <1>6
  <2> HIDE DEF Ends
  <2> QED BY <1>2, <2>1
<1>8. n = 0 => Ends = {0}
  OBVIOUS
<1> HIDE DEF Ends
<1> QED BY <1>3, <1>7, <1>8

(* The state with display d that was not there.                            *)
LEMMA Extended ==
    ASSUME SessionAssumption, ExhibitorOK, NEW n \in Nat, DOMAIN displays = 1..n, NEW r \in Display,
           r.needed, ~r.scheduled, n = 0 => r.position = 0
    PROVE  LET x == [Now EXCEPT !.displays = [e \in 1..n \union {n + 1} |-> IF e = n + 1 THEN r ELSE displays[e]],
                                !.pointer = IF displays = Empty
                                            THEN ChangeDisplay(pointer, Area(r.position),
                                                               (r.position + Width) \div 2)
                                            ELSE pointer]
           IN  /\ x \in State(1..(n + 1)) /\ FlippingBut(x, Returning, n + 1) /\ HoveringBut(x, n + 1)
               /\ x.displays[1].position = 0 /\ ~x.displays[n + 1].scheduled
               /\ \A e : Served(Now, e) /\ e # n + 1 => Served(x, e)
<1> DEFINE p == IF displays = Empty
                THEN ChangeDisplay(pointer, Area(r.position), (r.position + Width) \div 2) ELSE pointer
           all == [e \in 1..n \union {n + 1} |-> IF e = n + 1 THEN r ELSE displays[e]]
           x == [Now EXCEPT !.displays = all, !.pointer = p]
<1>0. p = (IF displays = Empty
           THEN ChangeDisplay(pointer, Area(r.position), (r.position + Width) \div 2) ELSE pointer)
      /\ all = [e \in 1..n \union {n + 1} |-> IF e = n + 1 THEN r ELSE displays[e]]
      /\ x = [Now EXCEPT !.displays = all, !.pointer = p]
  OBVIOUS
<1> HIDE DEF p, all, x
<1>1. 1..(n + 1) = 1..n \union {n + 1} /\ n + 1 \notin 1..n /\ (n = 0 <=> 1..n = {}) /\ 1 \in 1..(n + 1)
  OBVIOUS
<1>2. /\ Now \in State(1..n) /\ Now.displays = displays /\ Now.flips = flips /\ Now.behind = behind
      /\ Now.pointer = pointer /\ Sound(Now, 1..n, Returning) /\ Returning \subseteq 1..n
      /\ flips \subseteq 1..n /\ behind \subseteq 1..n /\ displays \in [1..n -> Display] /\ pointer \in Pointer
  BY NowWell DEF ExhibitorOK
<1>3. all \in [1..(n + 1) -> Display] /\ all[n + 1] = r /\ \A e \in 1..n : all[e] = displays[e]
  BY <1>0, <1>1, <1>2
<1>4. displays = Empty <=> n = 0
  <2>1. ASSUME n = 0 PROVE displays = Empty
    <3>1. displays = [e \in {} |-> displays[e]]
      BY <1>1, <1>2, <2>1
    <3> QED BY <3>1 DEF Empty
  <2>2. displays = Empty => DOMAIN displays = {}
    BY DEF Empty
  <2> QED BY <1>1, <2>1, <2>2
<1>5. /\ p \in Pointer
      /\ n = 0 => p.area = Area(r.position) /\ p.position = (r.position + Width) \div 2
      /\ n # 0 => p = pointer
  <2>1. Width \in Nat /\ r.position \in Int
    BY DEF SessionAssumption, Display
  <2>2. Area(r.position) \subseteq Int /\ (r.position + Width) \div 2 \in Int
    BY <2>1 DEF Area
  <2> QED BY <1>0, <1>2, <1>4, <2>2 DEF ChangeDisplay, Pointer
<1>6. x \in State(1..(n + 1)) /\ x.displays = all /\ x.flips = flips /\ x.behind = behind /\ x.pointer = p
  BY <1>0, <1>1, <1>2, <1>3, <1>5 DEF State, Now
<1>7. DOMAIN x.displays = 1..(n + 1)
  BY <1>6 DEF State
<1>8. FlippingBut(x, Returning, n + 1)
  BY <1>1, <1>2, <1>3, <1>6, <1>7 DEF FlippingBut, Sound, Flipping
<1>9. x.displays[1].position = 0
  BY <1>1, <1>2, <1>3, <1>6 DEF Sound
<1>10. \A e : Served(Now, e) /\ e # n + 1 => Served(x, e)
  <2> SUFFICES ASSUME NEW e, Served(Now, e), e # n + 1, e \in behind PROVE Shared(x, e) \/ x.displays[e].needed
    BY <1>6 DEF Served
  <2>1. e \in 1..n /\ x.displays[e] = displays[e]
    BY <1>2, <1>3, <1>6
  <2>2. Shared(Now, e) => Shared(x, e)
    BY <1>1, <1>2, <1>3, <1>6, <1>7, <2>1 DEF Shared
  <2> QED BY <1>2, <2>1, <2>2 DEF Served
<1>11. HoveringBut(x, n + 1)
  <2> SUFFICES ASSUME PlacedIn(x)
               PROVE  \E e \in 1..(n + 1) :
                        /\ x.pointer.area = AreaOf(x.displays, e) /\ x.pointer.position \in x.pointer.area
                        /\ e # n + 1 => HoversOver(x, e)
    BY <1>7 DEF HoveringBut
  <2>1. CASE n = 0
    <3>1. x.pointer.area = Area(0) /\ x.pointer.position = Width \div 2
      BY <1>5, <1>6, <2>1 DEF SessionAssumption
    <3>2. AreaOf(x.displays, 1) = Area(0) /\ 1 \in 1..(n + 1) /\ 1 = n + 1
      BY <1>9, <2>1 DEF AreaOf
    <3>3. Width \div 2 \in Area(0)
      BY DEF Area, SessionAssumption
    <3> QED BY <3>1, <3>2, <3>3
  <2>2. CASE n # 0
    <3>1. \A e \in 1..n : x.displays[e] = displays[e] /\ AreaOf(x.displays, e) = AreaOf(displays, e)
                          /\ AreaOf(Now.displays, e) = AreaOf(displays, e)
      BY <1>2, <1>3, <1>6 DEF AreaOf
    <3>2. PlacedIn(Now)
      <4> SUFFICES ASSUME NEW d \in 1..n, NEW e \in 1..n, d # e
                   PROVE  AreaOf(Now.displays, d) \intersect AreaOf(Now.displays, e) = {}
        BY <1>2 DEF PlacedIn
      <4>1. AreaOf(x.displays, d) \intersect AreaOf(x.displays, e) = {}
        BY <1>1, <1>7 DEF PlacedIn
      <4> QED BY <3>1, <4>1
    <3>3. PICK e \in 1..n : HoversOver(Now, e)
      BY <1>1, <1>2, <2>2, <3>2 DEF Sound, Hovering
    <3>4. HoversOver(x, e)
      BY <1>2, <1>5, <1>6, <2>2, <3>1, <3>3 DEF HoversOver
    <3> QED BY <1>1, <3>4 DEF HoversOver
  <2> QED BY <2>1, <2>2
<1>12. ~x.displays[n + 1].scheduled
  BY <1>3, <1>6
<1> QED BY <1>6, <1>8, <1>9, <1>10, <1>11, <1>12 DEF x, p, all

LEMMA TakeOutput ==
    ASSUME SessionAssumption, IInv, Takes("OUTPUT_FOUND"), OnOutputFound(Head(inbox).connector, MayDraw),
           Pushes(<<>>)
    PROVE  IInv'
<1>1. Ready /\ ExhibitorOK /\ Following /\ BehindNotified
  BY Parts
<1>2. Distinct /\ Becomes(Now) = UNCHANGED <<displays, flips, behind, pointer>>
  BY <1>1, NowWell DEF Becomes
<1>3. inbox # <<>> /\ Head(inbox).kind = "OUTPUT_FOUND" /\ Head(inbox).connector \in Connectors
  <2>1. inbox # <<>> /\ Head(inbox).kind = "OUTPUT_FOUND" /\ Head(inbox) \in Message
    BY <1>1 DEF Takes, Following
  <2> QED BY <2>1, MessageFields
<1>4. /\ dragger' = dragger /\ windows' = windows /\ stack' = stack /\ kfsid' = kfsid
      /\ dragger' \subseteq Dragged /\ kfsid' \in Surface /\ stack \in Seq(Sids)
  BY <1>1 DEF OnOutputFound, ExhibitorOK
<1>5. /\ Ready' /\ Following' /\ Distinct' /\ terminal' = terminal /\ Returning' = Returning
      /\ HasNotify => HasNotify'
  BY <1>1, <1>2, <1>3, <1>4, AfterTaking
<1>6. CASE ~MayDraw
  <2>1. UNCHANGED <<displays, flips, behind, pointer>>
    BY <1>2, <1>6 DEF OnOutputFound
  <2>2. ExhibitorOK'
    BY <1>1, <1>4, <1>5, <2>1, ExhibitorSame
  <2> QED BY <1>3, <1>4, <2>1, <2>2, TakeStill
<1>7. CASE MayDraw
  <2>1. PICK n \in Nat : DOMAIN displays = 1..n
    BY <1>1 DEF ExhibitorOK
  <2> DEFINE start == ChooseNewDisplayPosition
             r == [connector |-> Head(inbox).connector, position |-> start, frame |-> start,
                   needed |-> TRUE, scheduled |-> FALSE]
             all == [e \in 1..n \union {n + 1} |-> IF e = n + 1 THEN r ELSE displays[e]]
             p == IF displays = Empty THEN ChangeDisplay(pointer, Area(start), (start + Width) \div 2)
                  ELSE pointer
             x == [Now EXCEPT !.displays = all, !.pointer = p]
             y == RedrawAll(x, n + 1, TRUE)
  <2>2. Cardinality(DOMAIN displays) = n
    BY <2>1, FS_Interval
  <2>3. Becomes(y)
    <3>1. MayDraw = TRUE
      BY <1>7 DEF MayDraw
    <3> QED BY <2>1, <2>2, <3>1 DEF OnOutputFound
  <2>4. r \in Display /\ r.needed /\ ~r.scheduled /\ r.position = start /\ (n = 0 => r.position = 0)
    <3>1. displays \in [1..n -> Display] /\ Width \in Nat \ {0}
      BY <1>1, <2>1 DEF ExhibitorOK, SessionAssumption
    <3>2. start \in Int /\ (n = 0 => start = 0)
      BY <2>1, <3>1, NewPosition
    <3> QED BY <1>3, <3>2 DEF Display
  <2> HIDE DEF start
  <2> HIDE DEF r
  <2>5. p = IF displays = Empty
            THEN ChangeDisplay(pointer, Area(r.position), (r.position + Width) \div 2) ELSE pointer
    BY <2>4
  <2> HIDE DEF p
  <2>6. /\ x \in State(1..(n + 1)) /\ FlippingBut(x, Returning, n + 1) /\ HoveringBut(x, n + 1)
        /\ x.displays[1].position = 0 /\ ~x.displays[n + 1].scheduled
        /\ \A e : Served(Now, e) /\ e # n + 1 => Served(x, e)
    <3> DEFINE z == [Now EXCEPT !.displays = all,
                                !.pointer = IF displays = Empty
                                            THEN ChangeDisplay(pointer, Area(r.position),
                                                               (r.position + Width) \div 2)
                                            ELSE pointer]
    <3>1. x = z
      BY <2>5
    <3>2. /\ z \in State(1..(n + 1)) /\ FlippingBut(z, Returning, n + 1) /\ HoveringBut(z, n + 1)
          /\ z.displays[1].position = 0 /\ ~z.displays[n + 1].scheduled
          /\ \A e : Served(Now, e) /\ e # n + 1 => Served(z, e)
      BY <1>1, <2>1, <2>4, Extended
    <3> HIDE DEF x, z
    <3> QED BY <3>1, <3>2
  <2> HIDE DEF x
  <2>7. /\ y \in State(1..(n + 1)) /\ SameBut(x, y, n + 1) /\ Flipping(y, Returning)
        /\ y.behind \subseteq x.behind
        /\ n + 1 \notin y.behind \/ Shared(x, n + 1)
        /\ Hovering(y)
    <3> DEFINE all_displays == 1..(n + 1)
               d == n + 1
    <3>1. /\ d \in all_displays /\ x \in State(all_displays) /\ FlippingBut(x, Returning, d)
          /\ HoveringBut(x, d) /\ ~x.displays[d].scheduled
      BY <2>6
    <3>2. y = RedrawAll(x, d, TRUE)
      OBVIOUS
    <3> HIDE DEF all_displays, d, y
    <3>3. /\ y \in State(all_displays) /\ SameBut(x, y, d) /\ Flipping(y, Returning)
          /\ y.behind \subseteq x.behind
          /\ TRUE /\ ~x.displays[d].scheduled => d \notin y.behind \/ Shared(x, d)
          /\ HoveringBut(x, d) => Hovering(y)
      <4>1. TRUE \in BOOLEAN
        OBVIOUS
      <4> QED BY <1>4, <3>1, <3>2, <4>1, Redrawn
    <3> QED BY <3>1, <3>3 DEF all_displays, d
  <2> HIDE DEF y
  <2>8. DOMAIN x.displays = 1..(n + 1) /\ DOMAIN y.displays = 1..(n + 1) /\ 1 \in 1..(n + 1)
    BY <2>6, <2>7 DEF State
  <2>9. \A e \in 1..(n + 1) : y.displays[e].connector = x.displays[e].connector
                              /\ y.displays[e].position = x.displays[e].position
    BY <2>7, <2>8 DEF SameBut
  <2>10. Well(y, 1..(n + 1), Returning)
    BY <2>6, <2>7, <2>8, <2>9 DEF Well
  <2>11. ExhibitorOK'
    <3>1. Returning \subseteq 1..(n + 1) /\ n + 1 \in Nat
      BY <1>1, <2>1 DEF ExhibitorOK
    <3> QED BY <1>1, <1>4, <1>5, <2>3, <2>10, <3>1, ExhibitorAfter
  <2>12. \A e \in 1..(n + 1) : Shared(x, e) <=> Shared(y, e)
    BY <2>8, <2>9 DEF Shared
  <2>13. BehindNotified'
    <3>1. ASSUME terminal' = "active", ~HasNotify', NEW e \in DOMAIN y.displays PROVE Served(y, e)
      <4>1. CASE e = n + 1
        BY <2>7, <2>8, <2>12, <4>1 DEF Served
      <4>2. CASE e # n + 1
        <5>1. Served(Now, e)
          BY <1>1, <1>5, <3>1, BehindBefore
        <5>2. Served(x, e)
          BY <2>6, <4>2, <5>1
        <5>3. y.displays[e] = x.displays[e]
          BY <2>7, <2>8, <4>2 DEF SameBut
        <5> QED BY <2>7, <2>8, <2>12, <5>2, <5>3 DEF Served
      <4> QED BY <4>1, <4>2
    <3> QED BY <2>3, <2>11, <3>1, BehindAfter
  <2> QED BY <1>5, <2>11, <2>13, PartsNext
<1> QED BY <1>6, <1>7

-----------------------------------------------------------------------------
(* The stack without a surface.                                            *)
LEMMA WithoutTyped ==
    ASSUME stack \in Seq(Sids), NEW s
    PROVE  Without(s) \in Seq(Sids) /\ (s \in Sids => Append(Without(s), s) \in Seq(Sids))
<1> DEFINE at == CHOOSE i \in DOMAIN stack : stack[i] = s
           w == [i \in 1..(Len(stack) - 1) |-> stack[IF i < at THEN i ELSE i + 1]]
<1>1. Without(s) = w
  BY DEF Without
<1> HIDE DEF at
<1>2. \A i \in 1..(Len(stack) - 1) : i \in 1..Len(stack) /\ i + 1 \in 1..Len(stack)
  OBVIOUS
<1>3. \A i \in 1..(Len(stack) - 1) : w[i] \in Sids
  BY <1>2
<1>4. w \in Seq(Sids)
  <2>1. CASE Len(stack) = 0
    <3>1. 1..(Len(stack) - 1) = 1..0 /\ 0 \in Nat
      BY <2>1
    <3> QED BY <1>3, <3>1
  <2>2. CASE Len(stack) # 0
    <3>1. Len(stack) - 1 \in Nat
      BY <2>2
    <3> QED BY <1>3, <3>1
  <2> QED BY <2>1, <2>2
<1> HIDE DEF w
<1> QED BY <1>1, <1>4

(* The surface on top of all is under the pointer where its window is.     *)
LEMMA TopUnder ==
    ASSUME NEW w \in Seq(Sids), NEW s, stack' = Append(w, s), windows' = windows,
           NEW d, NEW p, windows[s] = <<d, p>>
    PROVE  Under(d, p)' = s
<1> DEFINE there == {i \in DOMAIN stack' : windows[stack'[i]] = <<d, p>>}
           n == Len(w) + 1
<1>1. n \in there /\ \A j \in there : j <= n /\ j \in Nat
  OBVIOUS
<1>2. stack'[n] = s
  OBVIOUS
<1>3. Under(d, p)' = IF there = {} THEN Invalid ELSE stack'[CHOOSE i \in there : \A j \in there : j <= i]
  BY DEF Under
<1> HIDE DEF there
<1>4. n \in Nat
  OBVIOUS
<1> HIDE DEF n
<1>5. (CHOOSE i \in there : \A j \in there : j <= i) = n
  <2>1. \A i \in there : (\A j \in there : j <= i) => i = n
    BY <1>1, <1>4
  <2> QED BY <1>1, <2>1
<1> QED BY <1>1, <1>2, <1>3, <1>5

-----------------------------------------------------------------------------
(* The pointer moves to a display.                                         *)
LEMMA ClampedIn ==
    ASSUME NEW x \in Int, NEW area \in SUBSET Int
    PROVE  Clamped(x, area) \in Int /\ (area # {} => Clamped(x, area) \in area)
<1>1. CASE area = {}
  BY <1>1 DEF Clamped
<1>2. CASE area # {}
  <2> DEFINE Far(q) == Distance(q, x)
  <2>1. \A q \in area : Far(q) \in Nat
    BY DEF Distance
  <2> HIDE DEF Far
  <2> DEFINE T == {Far(q) : q \in area}
  <2>2. T \subseteq Nat /\ T # {}
    BY <1>2, <2>1
  <2>3. PICK n \in T : \A m \in T : n <= m
    <3> HIDE DEF T
    <3> QED BY <2>2, LeastNat
  <2>4. \E p \in area : \A q \in area : Far(p) <= Far(q)
    BY <2>3
  <2>5. Clamped(x, area) = CHOOSE p \in area : \A q \in area : Far(p) <= Far(q)
    BY <1>2 DEF Clamped, Far
  <2> QED BY <2>4, <2>5
<1> QED BY <1>1, <1>2

LEMMA CastPlaced ==
    ASSUME ExhibitorOK, SessionAssumption, NEW p \in Pointer, p.area = pointer.area, NEW x \in Int, NEW r \in Cast(p, x)
    PROVE  r \in Pointer /\ PointerPlaced(r)
<1> DEFINE there == {d \in DOMAIN displays : x \in AreaOf(displays, d)}
           c == Clamped(x, p.area)
<1>1. p.area \in SUBSET Int
  BY DEF Pointer
<1>2. c \in Int /\ (p.area # {} => c \in p.area)
  BY <1>1, ClampedIn
<1>3. \A d \in DOMAIN displays : AreaOf(displays, d) \in SUBSET Int
  BY DEF AreaOf, Area, ExhibitorOK, Display, SessionAssumption
<1>4. Placed /\ displays # Empty => \E d \in DOMAIN displays : p.area = AreaOf(displays, d) /\ p.area # {}
  BY DEF ExhibitorOK, HoverCurrent
<1> HIDE DEF c
<1>5. CASE x \in p.area
  <2>1. r = [p EXCEPT !.position = x]
    BY <1>5 DEF Cast
  <2>2. r \in Pointer /\ r.area = p.area /\ r.position = x
    BY <2>1 DEF Pointer
  <2> QED BY <1>4, <1>5, <2>2 DEF PointerPlaced
<1>6. CASE x \notin p.area /\ there # {}
  <2>1. PICK d \in DOMAIN displays : x \in AreaOf(displays, d) /\ r = [p EXCEPT !.position = x, !.area = AreaOf(displays, d)]
    BY <1>6 DEF Cast
  <2>2. r \in Pointer /\ r.area = AreaOf(displays, d) /\ r.position = x
    BY <1>3, <2>1 DEF Pointer
  <2> QED BY <2>1, <2>2 DEF PointerPlaced
<1>7. CASE x \notin p.area /\ there = {}
  <2>1. r = [p EXCEPT !.position = c]
    BY <1>7 DEF Cast, c
  <2>2. r \in Pointer /\ r.area = p.area /\ r.position = c
    BY <1>2, <2>1 DEF Pointer
  <2> QED BY <1>2, <1>4, <2>2 DEF PointerPlaced
<1> QED BY <1>5, <1>6, <1>7

LEMMA Moves ==
    ASSUME ExhibitorOK, SessionAssumption, NEW x \in Int, NEW r \in MoveAndCast(x) \union UpdatePosition(x)
    PROVE  r \in Pointer /\ PointerPlaced(r)
<1>1. pointer \in Pointer
  BY DEF ExhibitorOK
<1>2. CASE r \in MoveAndCast(x)
  <2>1. pointer.position + x \in Int
    BY <1>1 DEF Pointer
  <2> QED BY <1>1, <1>2, <2>1, CastPlaced DEF MoveAndCast
<1>3. CASE r \in UpdatePosition(x)
  <2> DEFINE p == [pointer EXCEPT !.last = {x}]
             vector == IF pointer.last = {} THEN 0 ELSE x - CHOOSE l \in pointer.last : TRUE
  <2>1. p \in Pointer /\ p.area = pointer.area
    BY <1>1 DEF Pointer
  <2>2. pointer.last \in SUBSET Int /\ pointer.position \in Int
    BY <1>1 DEF Pointer
  <2>3. pointer.last # {} => (CHOOSE l \in pointer.last : TRUE) \in Int
    BY <2>2
  <2>4. vector \in Int
    BY <2>3
  <2>5. r \in Cast(p, pointer.position + vector)
    BY <1>3 DEF UpdatePosition
  <2> HIDE DEF p, vector
  <2>6. pointer.position + vector \in Int
    BY <2>2, <2>4
  <2> QED BY <2>1, <2>5, <2>6, CastPlaced
<1> QED BY <1>2, <1>3

LEMMA ChangedNow ==
    ASSUME ExhibitorOK, NEW p, Becomes(Changed([Now EXCEPT !.pointer = p]))
    PROVE  UNCHANGED <<displays, flips>> /\ behind' = DOMAIN displays /\ pointer' = p
BY DEF Becomes, Changed, Now

LEMMA TakeMove ==
    ASSUME SessionAssumption, IInv, NEW kind \in {"MOTION", "POSITION"}, Takes(kind),
           NEW x \in Int, OnMoved(MoveAndCast(x)) \/ OnMoved(UpdatePosition(x)), Pushes(<<Notify>>)
    PROVE  IInv'
<1>1. ExhibitorOK
  BY Parts
<1>2. PICK p \in MoveAndCast(x) \union UpdatePosition(x) :
            DragSurfaceIfNeeded(p) /\ Becomes(Changed([Now EXCEPT !.pointer = p])) /\ UNCHANGED kfsid
  BY DEF OnMoved
<1>3. p \in Pointer /\ PointerPlaced(p)
  BY <1>1, Moves
<1>4. UNCHANGED <<displays, flips>> /\ behind' = DOMAIN displays /\ pointer' = p
  BY <1>1, <1>2, ChangedNow
<1>5. dragger' \subseteq Dragged /\ (dragger' # {} => dragger # {})
  <2>1. dragger \subseteq Dragged /\ p.position \in Int
    BY <1>1, <1>3 DEF ExhibitorOK, Pointer
  <2>2. dragger' = {[g EXCEPT !.position = p.position] : g \in dragger}
    BY <1>2 DEF DragSurfaceIfNeeded
  <2>3. \A g \in Dragged : [g EXCEPT !.position = p.position] \in Dragged
    BY <2>1 DEF Dragged
  <2> QED BY <2>1, <2>2, <2>3
<1>6. DOMAIN windows' \subseteq Sids /\ stack' \in Seq(Sids)
  <2>1. DOMAIN windows \subseteq Sids /\ stack \in Seq(Sids)
    BY <1>1 DEF ExhibitorOK
  <2>2. CASE UNCHANGED <<windows, stack>>
    BY <2>1, <2>2
  <2>3. CASE \E g \in {h \in dragger : h.sid \in DOMAIN windows}, to \in DOMAIN displays :
                LET from   == windows[g.sid][1]
                    global == displays[from].frame + windows[g.sid][2] + p.position - g.position
                IN  /\ windows' = [windows EXCEPT ![g.sid] = <<to, global - displays[to].frame>>]
                    /\ stack' = IF to = from THEN stack ELSE Append(Without(g.sid), g.sid)
    <3>1. PICK s \in DOMAIN windows :
                DOMAIN windows' = DOMAIN windows /\ (stack' = stack \/ stack' = Append(Without(s), s))
      BY <2>3
    <3> QED BY <2>1, <3>1, WithoutTyped
  <2> QED BY <1>2, <2>2, <2>3 DEF DragSurfaceIfNeeded
<1>7. kfsid' \in Surface
  BY <1>1, <1>2 DEF ExhibitorOK
<1>8. inbox # <<>> /\ Head(inbox).kind = kind /\ <<Notify>> # <<>> /\ <<Notify>> \in {<<>>, <<Notify>>}
  BY DEF Takes
<1> QED BY <1>3, <1>4, <1>5, <1>6, <1>7, <1>8, TakeChange

LEMMA TakeLook ==
    ASSUME SessionAssumption, IInv, Takes("LOOK"), OnLookChanged, Pushes(<<>>)
    PROVE  IInv'
<1>1. ExhibitorOK
  BY Parts
<1>2. /\ UNCHANGED <<displays, flips, pointer, dragger, windows, stack, kfsid>>
      /\ behind' = DOMAIN displays
  BY DEF OnLookChanged, Becomes, Changed, Now
<1>3. pointer' \in Pointer /\ PointerPlaced(pointer')
  BY <1>1, <1>2, PointerStays
<1>4. inbox # <<>> /\ Head(inbox).kind = "LOOK"
  BY DEF Takes
<1>5. /\ DOMAIN windows' \subseteq Sids /\ stack' \in Seq(Sids)
      /\ dragger' \subseteq Dragged /\ (dragger' # {} => dragger # {}) /\ kfsid' \in Surface
  BY <1>1, <1>2 DEF ExhibitorOK
<1> QED BY <1>2, <1>3, <1>4, <1>5, TakeChange

LEMMA TakeWindow ==
    ASSUME SessionAssumption, IInv, inbox # <<>>, Pushes(<<Notify>>),
           \/ Head(inbox).kind = "SURFACE_READY" /\ Head(inbox).sid \in Sids /\ OnSurfaceReady(Head(inbox).sid)
           \/ Head(inbox).kind = "SURFACE_DESTROYED" /\ OnSurfaceDestroyed(Head(inbox).sid)
           \/ Head(inbox).kind = "COMMAND" /\ OnCommand
    PROVE  IInv'
<1>1. ExhibitorOK
  BY Parts
<1>2. UNCHANGED <<displays, flips, pointer, dragger>> /\ behind' = DOMAIN displays
  BY DEF OnSurfaceReady, OnSurfaceDestroyed, OnCommand, Becomes, Changed, Now
<1>3. pointer' \in Pointer /\ PointerPlaced(pointer')
  BY <1>1, <1>2, PointerStays
<1>4. DOMAIN windows \subseteq Sids /\ stack \in Seq(Sids) /\ kfsid \in Surface /\ Sids \subseteq Surface
  BY <1>1 DEF ExhibitorOK, Surface
<1>5. DOMAIN windows' \subseteq Sids /\ stack' \in Seq(Sids) /\ kfsid' \in Surface
  <2>1. CASE Head(inbox).sid \in Sids /\ OnSurfaceReady(Head(inbox).sid)
    BY <1>4, <2>1 DEF OnSurfaceReady
  <2>2. CASE OnSurfaceDestroyed(Head(inbox).sid)
    BY <1>4, <2>2, WithoutTyped DEF OnSurfaceDestroyed
  <2>3. CASE OnCommand
    <3>1. PICK s \in DOMAIN windows :
                /\ DOMAIN windows' = DOMAIN windows /\ stack' = Append(Without(s), s)
                /\ kfsid' \in {kfsid, s}
      BY <2>3 DEF OnCommand
    <3> QED BY <1>4, <3>1, WithoutTyped
  <2> QED BY <2>1, <2>2, <2>3
<1>6. dragger' \subseteq Dragged /\ (dragger' # {} => dragger # {})
  BY <1>1, <1>2 DEF ExhibitorOK
<1>7. <<Notify>> # <<>> /\ <<Notify>> \in {<<>>, <<Notify>>}
  OBVIOUS
<1> QED BY <1>2, <1>3, <1>5, <1>6, <1>7, TakeChange

-----------------------------------------------------------------------------
(* Neither displays nor the place of the pointer change, and what is under *)
(* the pointer stays on top.                                               *)
LEMMA ExhibitorRests ==
    ASSUME ExhibitorOK, UNCHANGED <<displays, flips, behind>>,
           pointer' \in Pointer, pointer'.area = pointer.area, pointer'.position = pointer.position,
           pointer'.pfsid = pointer.pfsid, DOMAIN windows' \subseteq Sids, stack' \in Seq(Sids),
           \A d, p : Under(d, p) = pointer.pfsid => Under(d, p)' = pointer.pfsid,
           dragger' \subseteq Dragged, kfsid' \in Surface, Returning' = Returning, Distinct'
    PROVE  ExhibitorOK'
<1>1. HoverCurrent'
  <2>1. Placed' <=> Placed
    BY DEF Placed
  <2> SUFFICES ASSUME Placed, displays # Empty
               PROVE  (\E d \in DOMAIN displays :
                        /\ pointer.area = AreaOf(displays, d) /\ pointer.position \in pointer.area
                        /\ d \notin behind => pointer.pfsid = Under(d, pointer.position - displays[d].position))'
    BY <2>1 DEF HoverCurrent
  <2>2. PICK d \in DOMAIN displays :
            /\ pointer.area = AreaOf(displays, d) /\ pointer.position \in pointer.area
            /\ d \notin behind => pointer.pfsid = Under(d, pointer.position - displays[d].position)
    BY DEF ExhibitorOK, HoverCurrent
  <2>3. d \notin behind' => pointer'.pfsid = Under(d, pointer.position - displays[d].position)'
    BY <2>2
  <2> QED BY <2>2, <2>3
<1>2. FlipsOnce'
  <2>1. Flipping(Now, Returning)'
    BY DEF ExhibitorOK, FlipsOnce, Flipping, Now
  <2> QED BY <2>1 DEF FlipsOnce, Distinct
<1>3. FirstStays'
  BY DEF ExhibitorOK, FirstStays
<1>4. /\ (\E n \in Nat : DOMAIN displays = 1..n)'
      /\ (displays \in [DOMAIN displays -> Display])'
      /\ flips' \subseteq DOMAIN displays' /\ behind' \subseteq DOMAIN displays'
      /\ Returning' \subseteq DOMAIN displays'
  BY DEF ExhibitorOK
<1> QED BY <1>1, <1>2, <1>3, <1>4 DEF ExhibitorOK

(* Signals whose handlers leave the stack alone.                           *)
LEMMA TakeTold ==
    ASSUME IInv, inbox # <<>>, Head(inbox).kind \notin {"NOTIFY", "PAGE_FLIP"}, Pushes(<<>>),
           UNCHANGED <<displays, flips, behind, windows, stack, kfsid>>,
           pointer' \in Pointer, pointer'.area = pointer.area, pointer'.position = pointer.position,
           pointer'.pfsid = pointer.pfsid, dragger' \subseteq Dragged,
           IF Head(inbox).kind = "MODE" THEN dragger' # {} => Head(inbox).active = TRUE
                                        ELSE dragger' # {} => dragger # {}
    PROVE  IInv'
<1>1. ExhibitorOK /\ Following /\ Distinct
  BY Parts, NowWell
<1>2. kfsid' \in Surface /\ DOMAIN windows' \subseteq Sids /\ stack' \in Seq(Sids)
  BY <1>1 DEF ExhibitorOK
<1>3. Returning' = Returning /\ Distinct'
  BY <1>1, <1>2, AfterTaking
<1>4. \A d, p : Under(d, p)' = Under(d, p)
  BY DEF Under
<1>5. ExhibitorOK'
  BY <1>1, <1>2, <1>3, <1>4, ExhibitorRests
<1> QED BY <1>2, <1>5, TakeStill

LEMMA TakeReset ==
    ASSUME IInv, Takes("RESET"), OnPositionReset, Pushes(<<>>)
    PROVE  IInv'
<1>1. pointer \in Pointer /\ dragger \subseteq Dragged
  BY Parts DEF ExhibitorOK
<1>2. pointer' = [pointer EXCEPT !.last = {}]
      /\ UNCHANGED <<displays, flips, behind, dragger, windows, stack, kfsid>>
  BY DEF OnPositionReset
<1>3. pointer' \in Pointer /\ pointer'.area = pointer.area /\ pointer'.position = pointer.position
      /\ pointer'.pfsid = pointer.pfsid
  BY <1>1, <1>2 DEF Pointer
<1> QED BY <1>1, <1>2, <1>3, TakeTold DEF Takes

LEMMA TakeFocus ==
    ASSUME IInv, Takes("FOCUS"), OnKeyboardFocusChanged(Head(inbox).sid), Pushes(<<>>)
    PROVE  IInv'
<1>1. pointer \in Pointer /\ dragger \subseteq Dragged /\ inbox \in Seq(Message)
  BY Parts DEF ExhibitorOK, Following
<1>2. inbox # <<>> /\ Head(inbox) \in Message /\ Head(inbox).kind = "FOCUS"
  BY <1>1 DEF Takes
<1>3. Head(inbox).sid \in Surface
  BY <1>2, MessageFields
<1>4. pointer' = [pointer EXCEPT !.kfsid = Head(inbox).sid]
      /\ UNCHANGED <<displays, flips, behind, dragger, windows, stack, kfsid>>
  BY DEF OnKeyboardFocusChanged
<1>5. pointer' \in Pointer /\ pointer'.area = pointer.area /\ pointer'.position = pointer.position
      /\ pointer'.pfsid = pointer.pfsid
  BY <1>1, <1>3, <1>4 DEF Pointer
<1> QED BY <1>1, <1>2, <1>4, <1>5, TakeTold

LEMMA TakeMode ==
    ASSUME IInv, Takes("MODE"), OnModeSwitched(Head(inbox).active), Pushes(<<>>)
    PROVE  IInv'
<1>1. pointer \in Pointer /\ dragger \subseteq Dragged /\ inbox \in Seq(Message)
  BY Parts DEF ExhibitorOK, Following
<1>2. inbox # <<>> /\ Head(inbox) \in Message /\ Head(inbox).kind = "MODE"
  BY <1>1 DEF Takes
<1>3. Head(inbox).active \in BOOLEAN
  BY <1>2, MessageFields
<1>4. UNCHANGED <<displays, flips, behind, pointer, windows, stack, kfsid>>
  BY DEF OnModeSwitched
<1>5. dragger' \subseteq Dragged /\ (dragger' # {} => Head(inbox).active = TRUE)
  <2>1. [sid |-> pointer.pfsid, position |-> pointer.position] \in Dragged
    BY <1>1 DEF Pointer, Dragged
  <2> QED BY <1>1, <1>3, <2>1 DEF OnModeSwitched
<1> QED BY <1>1, <1>2, <1>4, <1>5, TakeTold

LEMMA TakeNothing ==
    ASSUME IInv, inbox # <<>>, UNCHANGED exhibitor, Pushes(<<>>),
           Head(inbox).kind \in {"SUSPEND", "SURFACE_READY", "SURFACE_DESTROYED", "COMMAND"}
    PROVE  IInv'
<1>1. pointer \in Pointer /\ dragger \subseteq Dragged
  BY Parts DEF ExhibitorOK
<1>2. UNCHANGED <<displays, flips, behind, pointer, dragger, windows, stack, kfsid>>
  BY DEF exhibitor
<1> QED BY <1>1, <1>2, TakeTold

LEMMA TakeButton ==
    ASSUME SessionAssumption, IInv, Takes("BUTTON"), OnButton(Head(inbox).pressed), Pushes(<<>>)
    PROVE  IInv'
<1> DEFINE s == pointer.pfsid
<1>1. ExhibitorOK /\ Following /\ Distinct
  BY Parts, NowWell
<1>2. UNCHANGED <<displays, flips, behind, pointer, dragger, windows>>
  BY DEF OnButton
<1>3. pointer \in Pointer /\ dragger' \subseteq Dragged /\ DOMAIN windows' \subseteq Sids /\ stack \in Seq(Sids)
      /\ DOMAIN windows \subseteq Sids /\ kfsid \in Surface
  BY <1>1, <1>2 DEF ExhibitorOK
<1>4. inbox # <<>> /\ Head(inbox).kind = "BUTTON"
  BY DEF Takes
<1>5. CASE UNCHANGED <<stack, kfsid>>
  BY <1>2, <1>3, <1>4, <1>5, TakeTold
<1>6. CASE s \in DOMAIN windows /\ stack' = Append(Without(s), s) /\ kfsid' = s
  <2>1. s \in Sids /\ s # Invalid /\ kfsid' \in Surface
    BY <1>3, <1>6 DEF SessionAssumption, Surface
  <2>2. Without(s) \in Seq(Sids) /\ stack' \in Seq(Sids)
    BY <1>3, <1>6, <2>1, WithoutTyped
  <2>3. Returning' = Returning /\ Distinct'
    BY <1>1, <1>2, <1>4, <2>1, AfterTaking
  <2>4. ASSUME NEW d, NEW p, Under(d, p) = s PROVE Under(d, p)' = s
    <3>1. windows[s] = <<d, p>>
      BY <1>3, <2>1, <2>4, UnderSurface
    <3> QED BY <1>2, <1>6, <2>2, <3>1, TopUnder
  <2>5. ExhibitorOK'
    BY <1>1, <1>2, <1>3, <2>1, <2>2, <2>3, <2>4, ExhibitorRests
  <2> QED BY <1>2, <1>4, <2>1, <2>5, TakeStill
<1> QED BY <1>5, <1>6 DEF OnButton

-----------------------------------------------------------------------------
(* Steps of others than the exhibitor.                                     *)
LEMMA Aside ==
    ASSUME IInv, UNCHANGED exhibitor, Ready', Following', NEW q, Queues(0, q),
           \A i \in 1..Len(q) : q[i].kind # "PAGE_FLIP",
           terminal' = "active" => terminal = "active" \/ HasNotify'
    PROVE  IInv'
<1>1. ExhibitorOK /\ Following /\ BehindNotified /\ Distinct /\ inbox \in Seq(Message)
  BY Parts, NowWell DEF Following
<1>2. UNCHANGED <<displays, flips, behind, pointer, dragger, windows, stack, kfsid>>
  BY DEF exhibitor
<1>3. Returning' = Returning /\ Distinct'
  BY <1>1, NoneReturns
<1>4. dragger' \subseteq Dragged /\ kfsid' \in Surface
  BY <1>1, <1>2 DEF ExhibitorOK
<1>5. ExhibitorOK'
  BY <1>1, <1>2, <1>3, <1>4, ExhibitorSame
<1>6. HasNotify => HasNotify'
  BY <1>1, NotifyStays
<1>7. BehindNotified'
  BY <1>1, <1>2, <1>6 DEF BehindNotified, HasNotify, Alone
<1> QED BY <1>5, <1>7, PartsNext

LEMMA AsideQuiet ==
    ASSUME IInv, UNCHANGED exhibitor, UNCHANGED gears, NEW q, Queues(0, q),
           \A i \in 1..Len(q) : q[i].kind \in Quiet \ {"PAGE_FLIP"},
           terminal = "waking" => terminal' = "waking", terminal' = "active" => terminal = "active"
    PROVE  IInv'
<1>1. Following /\ Ready
  BY Parts
<1>2. active' = active /\ command' = command /\ dragger' = dragger
  BY DEF gears, exhibitor
<1>3. Following'
  BY <1>1, <1>2, QuietPushed
<1>4. Ready'
  BY <1>1, <1>2 DEF Ready, WorkspaceNamed
<1> QED BY <1>3, <1>4, Aside

LEMMA NothingPushed ==
    ASSUME inbox \in Seq(Message), inbox' = inbox
    PROVE  Queues(0, <<>>)
BY DEF Queues

LEMMA OnePushed ==
    ASSUME inbox \in Seq(Message), NEW m \in Message, inbox' = inbox \o <<m>> \/ inbox' = Append(inbox, m)
    PROVE  Queues(0, <<m>>)
<1>1. <<m>> \in Seq(Message)
  OBVIOUS
<1> QED BY <1>1, QueuePushed, QueueAppended

LEMMA KeyKept ==
    ASSUME IInv, NEW k, NEW pressed \in BOOLEAN, KeyEvent(k, pressed)
    PROVE  IInv'
<1> DEFINE c == Emitted(k, pressed)
<1>1. Ready /\ Following /\ inbox \in Seq(Message)
  BY Parts DEF Following
<1>2. Allowed(c)
  BY <1>1, Emission
<1>3. /\ active' = c.active /\ command' = c.command
      /\ UNCHANGED exhibitor /\ dragger' = dragger
      /\ inbox' = inbox \o Forwarded(c.out)
      /\ terminal' = terminal \/ (terminal = "active" /\ terminal' = "leaving")
  BY DEF KeyEvent, Manage, Push, exhibitor
<1> HIDE DEF c
<1>4. Ready'
  BY <1>2, <1>3 DEF Ready, Allowed, WorkspaceNamed
<1>5. \/ Forwarded(c.out) = <<>> /\ ("visual" \in active') = ("visual" \in active)
      \/ \E m \in Message :
            /\ Forwarded(c.out) = <<m>>
            /\ \/ m.kind = "BUTTON" /\ active' = active
               \/ m.kind = "COMMAND" /\ Whole(m.command) /\ active' = active
               \/ m = [kind |-> "MODE", active |-> "visual" \in active']
  <2>1. CASE c.out = <<>> /\ ("visual" \in c.active) = ("visual" \in active)
    BY <1>3, <2>1 DEF Forwarded
  <2>2. CASE \E m : c.out = <<m>> /\ m.kind = "KEY" /\ SameMode(c)
    <3>1. PICK m : c.out = <<m>> /\ m.kind = "KEY" /\ SameMode(c)
      BY <2>2
    <3>2. 1 \in DOMAIN c.out /\ c.out[1].kind = "KEY"
      BY <3>1
    <3> QED BY <1>3, <3>1, <3>2 DEF Forwarded, SameMode
  <2>3. CASE \E m \in Message : c.out = <<m>> /\ m.kind # "KEY"
                              /\ \/ m.kind = "BUTTON" /\ active' = active
                                 \/ m.kind = "COMMAND" /\ Whole(m.command) /\ active' = active
                                 \/ m = [kind |-> "MODE", active |-> "visual" \in active']
    <3>1. PICK m \in Message : /\ c.out = <<m>> /\ m.kind # "KEY"
                               /\ \/ m.kind = "BUTTON" /\ active' = active
                                  \/ m.kind = "COMMAND" /\ Whole(m.command) /\ active' = active
                                  \/ m = [kind |-> "MODE", active |-> "visual" \in active']
      BY <2>3
    <3>2. \A i \in DOMAIN c.out : c.out[i].kind # "KEY"
      BY <3>1
    <3>3. Forwarded(c.out) = <<m>>
      BY <3>1, <3>2 DEF Forwarded
    <3> QED BY <3>1, <3>3
  <2>4. ASSUME NEW b \in BOOLEAN, c.out = <<[kind |-> "BUTTON", pressed |-> b]>>, SameMode(c)
        PROVE  \E m \in Message : c.out = <<m>> /\ m.kind = "BUTTON" /\ active' = active
    <3>1. [kind |-> "BUTTON", pressed |-> b] \in Message
      BY Messages
    <3> QED BY <1>3, <2>4, <3>1 DEF SameMode
  <2>5. ASSUME c.out = <<[kind |-> "COMMAND", command |-> c.command]>>, Whole(c.command), SameMode(c)
        PROVE  \E m \in Message : c.out = <<m>> /\ m.kind = "COMMAND" /\ Whole(m.command) /\ active' = active
    <3>1. [kind |-> "COMMAND", command |-> c.command] \in Message
      BY <1>2, Messages DEF Allowed
    <3> QED BY <1>3, <2>5, <3>1 DEF SameMode
  <2>6. ASSUME c.out = <<[kind |-> "MODE", active |-> "visual" \in c.active]>>
        PROVE  \E m \in Message : /\ c.out = <<m>> /\ m.kind = "MODE"
                                  /\ m = [kind |-> "MODE", active |-> "visual" \in active']
    <3>1. [kind |-> "MODE", active |-> "visual" \in c.active] \in Message
      BY DEF Message
    <3> QED BY <1>3, <2>6, <3>1
  <2>7. CASE \E b \in BOOLEAN : c.out = <<[kind |-> "BUTTON", pressed |-> b]>> /\ SameMode(c)
    <3>1. \E m \in Message : c.out = <<m>> /\ m.kind = "BUTTON" /\ active' = active
      BY <2>4, <2>7
    <3>2. PICK m \in Message : c.out = <<m>> /\ m.kind = "BUTTON" /\ active' = active
      BY <3>1
    <3> QED BY <2>3, <3>2
  <2>8. CASE c.out = <<[kind |-> "COMMAND", command |-> c.command]>> /\ Whole(c.command) /\ SameMode(c)
    <3>1. PICK m \in Message : c.out = <<m>> /\ m.kind = "COMMAND" /\ Whole(m.command) /\ active' = active
      BY <2>5, <2>8
    <3> QED BY <2>3, <3>1
  <2>9. CASE c.out = <<[kind |-> "MODE", active |-> "visual" \in c.active]>>
    <3>1. PICK m \in Message : /\ c.out = <<m>> /\ m.kind = "MODE"
                               /\ m = [kind |-> "MODE", active |-> "visual" \in active']
      BY <2>6, <2>9
    <3> QED BY <2>3, <3>1
  <2> QED BY <1>2, <2>1, <2>2, <2>7, <2>8, <2>9 DEF Allowed
<1>6. CASE Forwarded(c.out) = <<>> /\ ("visual" \in active') = ("visual" \in active)
  <2>1. Queues(0, <<>>)
    BY <1>1, <1>3, <1>6, NothingPushed
  <2>2. Following'
    <3>1. ModeComes'
      BY <1>1, <1>3, <1>6, <2>1, ModeKept DEF Following
    <3>2. CommandsWhole'
      BY <1>1, <2>1, CommandsKept DEF Following
    <3>3. NotifyFollows'
      BY <1>1, <1>3, <2>1, FollowKept DEF Following
    <3> QED BY <2>1, <3>1, <3>2, <3>3 DEF Following, Queues
  <2> QED BY <1>3, <1>4, <2>1, <2>2, Aside
<1>7. ASSUME NEW m \in Message, Forwarded(c.out) = <<m>>,
             \/ m.kind = "BUTTON" /\ active' = active
             \/ m.kind = "COMMAND" /\ Whole(m.command) /\ active' = active
             \/ m = [kind |-> "MODE", active |-> "visual" \in active']
      PROVE  IInv'
  <2>1. Queues(0, <<m>>)
    BY <1>1, <1>3, <1>7, OnePushed
  <2>2. \A i \in 1..Len(<<m>>) : <<m>>[i] = m
    OBVIOUS
  <2>3. m.kind \in {"BUTTON", "COMMAND", "MODE"} /\ (m.kind = "COMMAND" => Whole(m.command))
    BY <1>7
  <2>4. ModeComes'
    <3>1. CASE m.kind # "MODE"
      BY <1>1, <1>3, <1>7, <2>1, <2>2, <3>1, ModeKept DEF Following
    <3>2. CASE m = [kind |-> "MODE", active |-> "visual" \in active']
      BY <1>1, <2>1, <3>2, ModePushed DEF Following
    <3> QED BY <1>7, <3>1, <3>2
  <2>5. CommandsWhole'
    BY <1>1, <2>1, <2>2, <2>3, CommandsKept DEF Following
  <2>6. NotifyFollows'
    BY <1>1, <1>3, <2>1, <2>2, <2>3, FollowKept DEF Following
  <2>7. Following'
    BY <2>1, <2>4, <2>5, <2>6 DEF Following, Queues
  <2> QED BY <1>3, <1>4, <2>1, <2>2, <2>3, <2>7, Aside
<1> QED BY <1>5, <1>6, <1>7

LEMMA PointerKept ==
    ASSUME SessionAssumption, IInv, PointerEvent
    PROVE  IInv'
<1>1. inbox \in Seq(Message) /\ UNCHANGED exhibitor /\ UNCHANGED gears /\ terminal' = terminal
  BY Parts DEF Following, PointerEvent
<1>2. Steps \subseteq Int /\ Width \in Nat
  BY DEF SessionAssumption
<1>3. PICK m \in Message : inbox' = inbox \o <<m>> /\ m.kind \in {"MOTION", "POSITION", "RESET"}
  <2>1. CASE \E v \in Steps \union {-s : s \in Steps} : Push(<<[kind |-> "MOTION", vector |-> v]>>)
    <3>1. PICK v \in Steps \union {-s : s \in Steps} : Push(<<[kind |-> "MOTION", vector |-> v]>>)
      BY <2>1
    <3>2. inbox' = inbox \o <<[kind |-> "MOTION", vector |-> v]>>
      BY <3>1 DEF Push
    <3>3. v \in Int
      BY <1>2
    <3>4. [kind |-> "MOTION", vector |-> v] \in Message
      BY <3>3, Messages
    <3> QED BY <3>2, <3>4
  <2>2. CASE \E x \in Area(0) : Push(<<[kind |-> "POSITION", position |-> x]>>)
    <3>1. PICK x \in Area(0) : inbox' = inbox \o <<[kind |-> "POSITION", position |-> x]>>
      BY <2>2 DEF Push
    <3>2. x \in Int
      BY <1>2 DEF Area
    <3>3. [kind |-> "POSITION", position |-> x] \in Message
      BY <3>2, Messages
    <3> QED BY <3>1, <3>3
  <2>3. CASE Push(<<Signal("RESET")>>)
    <3>1. Signal("RESET") \in Message /\ Signal("RESET").kind = "RESET"
      BY Messages DEF Signal
    <3> QED BY <2>3, <3>1 DEF Push
  <2> QED BY <2>1, <2>2, <2>3 DEF PointerEvent
<1>4. Queues(0, <<m>>)
  BY <1>1, <1>3, OnePushed
<1>5. \A i \in 1..Len(<<m>>) : <<m>>[i].kind \in Quiet \ {"PAGE_FLIP"}
  BY <1>3 DEF Quiet
<1> QED BY <1>1, <1>4, <1>5, AsideQuiet

LEMMA PageFlipKept ==
    ASSUME IInv, NEW d \in DOMAIN displays, PageFlip(d)
    PROVE  IInv'
<1> DEFINE m == [kind |-> "PAGE_FLIP", id |-> d]
           x == [Now EXCEPT !.flips = flips \ {d}]
<1>1. Ready /\ ExhibitorOK /\ Following /\ BehindNotified /\ inbox \in Seq(Message)
  BY Parts DEF Following
<1>2. /\ Now \in State(DOMAIN displays)
      /\ Now.displays = displays /\ Now.flips = flips /\ Now.behind = behind /\ Now.pointer = pointer
      /\ Well(Now, DOMAIN displays, Returning) /\ Distinct
  BY <1>1, NowWell
<1>3. PICK n \in Nat : DOMAIN displays = 1..n
  BY <1>1 DEF ExhibitorOK
<1>4. /\ d \in flips /\ flips' = flips \ {d} /\ inbox' = Append(inbox, m)
      /\ UNCHANGED <<displays, behind, pointer, dragger, windows, stack, kfsid, active, command, terminal>>
  BY DEF PageFlip, gears
<1>5. m \in Message /\ m.kind = "PAGE_FLIP"
  <2>1. d \in Nat
    BY <1>3
  <2> QED BY <2>1, Messages
<1>6. Queues(0, <<m>>)
  BY <1>1, <1>4, <1>5, OnePushed
<1>7. d \notin Returning
  BY <1>1, <1>2, <1>4 DEF ExhibitorOK, FlipsOnce, Flipping
<1>8. Returning' = Returning \union {d} /\ Distinct'
  BY <1>1, <1>2, <1>6, <1>7, OneReturns
<1>9. x \in State(DOMAIN displays)
      /\ x.displays = displays /\ x.flips = flips \ {d} /\ x.behind = behind /\ x.pointer = pointer
  BY <1>2 DEF State
<1> HIDE DEF x
<1>10. Well(x, 1..n, Returning \union {d})
  <2>1. Flipping(x, Returning \union {d})
    BY <1>2, <1>4, <1>7, <1>9 DEF Well, Flipping
  <2>2. Hovering(x)
    <3>1. Hovering(Now)
      BY <1>2 DEF Well
    <3> QED BY <1>2, <1>9, <3>1, HoverKept
  <2> QED BY <1>2, <1>3, <1>9, <2>1, <2>2 DEF Well
<1>11. Becomes(x)
  BY <1>4, <1>9 DEF Becomes
<1>12. ExhibitorOK'
  <2>1. dragger' \subseteq Dragged /\ kfsid' \in Surface /\ Returning \union {d} \subseteq 1..n
    BY <1>1, <1>3, <1>4 DEF ExhibitorOK
  <2> QED BY <1>1, <1>4, <1>8, <1>10, <1>11, <2>1, ExhibitorAfter
<1>13. \A i \in 1..Len(<<m>>) : <<m>>[i].kind \in Quiet
  BY DEF Quiet
<1>14. Following'
  BY <1>1, <1>4, <1>6, <1>13, QuietPushed
<1>15. Ready'
  BY <1>1, <1>4 DEF Ready, WorkspaceNamed
<1>16. HasNotify => HasNotify'
  BY <1>1, <1>6, NotifyStays
<1>17. BehindNotified'
  BY <1>1, <1>4, <1>16 DEF BehindNotified, HasNotify, Alone
<1> QED BY <1>12, <1>14, <1>15, <1>17, PartsNext

LEMMA SwitchKept ==
    ASSUME IInv, SwitchAway \/ SwitchBack
    PROVE  IInv'
<1>1. /\ UNCHANGED <<exhibitor, gears, inbox>>
      /\ terminal # "waking" /\ terminal' # "active"
  BY DEF SwitchAway, SwitchBack
<1>2. Queues(0, <<>>)
  BY <1>1, Parts, NothingPushed DEF Following
<1>3. \A i \in 1..Len(<<>>) : <<>>[i].kind \in Quiet \ {"PAGE_FLIP"}
  OBVIOUS
<1> QED BY <1>1, <1>2, <1>3, AsideQuiet

LEMMA DeactivationKept ==
    ASSUME IInv, HandleDeactivation
    PROVE  IInv'
<1> DEFINE m == Signal("SUSPEND")
<1>1. Ready /\ ExhibitorOK /\ Following /\ inbox \in Seq(Message)
  BY Parts DEF Following
<1>2. /\ terminal = "leaving" /\ terminal' = "away" /\ inbox' = Append(inbox, m)
      /\ behind' = DOMAIN displays
      /\ UNCHANGED <<displays, flips, pointer, dragger, windows, stack, kfsid, active, command>>
  BY DEF HandleDeactivation, gears
<1>3. m \in Message /\ m.kind = "SUSPEND"
  BY Messages DEF Signal
<1> HIDE DEF m
<1>4. Queues(0, <<m>>) /\ \A i \in 1..Len(<<m>>) : <<m>>[i].kind \in Quiet /\ <<m>>[i].kind # "PAGE_FLIP"
  BY <1>1, <1>2, <1>3, OnePushed DEF Quiet
<1>5. Following'
  BY <1>1, <1>2, <1>4, QuietPushed
<1>6. Returning' = Returning /\ Distinct'
  BY <1>1, <1>4, NoneReturns, NowWell
<1>7. ExhibitorOK'
  <2>1. pointer' \in Pointer /\ PointerPlaced(pointer')
    BY <1>1, <1>2, PointerStays
  <2>2. DOMAIN windows' \subseteq Sids /\ stack' \in Seq(Sids) /\ dragger' \subseteq Dragged /\ kfsid' \in Surface
    BY <1>1, <1>2 DEF ExhibitorOK
  <2> QED BY <1>1, <1>2, <1>6, <2>1, <2>2, ExhibitorChanged
<1>8. Ready' /\ BehindNotified'
  BY <1>1, <1>2 DEF Ready, WorkspaceNamed, BehindNotified
<1> QED BY <1>5, <1>7, <1>8, PartsNext

LEMMA ActivationKept ==
    ASSUME IInv, HandleActivation
    PROVE  IInv'
<1>1. Ready /\ Following /\ inbox \in Seq(Message)
  BY Parts DEF Following
<1>2. UNCHANGED exhibitor /\ UNCHANGED <<active, command, dragger>>
  BY DEF HandleActivation, gears, exhibitor
<1>3. PICK m \in Message :
        /\ inbox' = Append(inbox, m)
        /\ \/ terminal = "returning" /\ terminal' = "waking" /\ m.kind = "WAKEUP"
           \/ terminal = "waking" /\ terminal' = "active" /\ m.kind = "NOTIFY"
  <2>1. Signal("WAKEUP") \in Message /\ Signal("WAKEUP").kind = "WAKEUP"
    BY Messages DEF Signal
  <2>2. Notify \in Message /\ Notify.kind = "NOTIFY"
    BY Messages DEF Signal, Notify
  <2> QED BY <2>1, <2>2 DEF HandleActivation
<1>4. Queues(0, <<m>>)
  BY <1>1, <1>3, OnePushed
<1>5. 1 \in 1..Len(<<m>>) /\ \A i \in 1..Len(<<m>>) : <<m>>[i] = m
  OBVIOUS
<1>6. m.kind \in {"WAKEUP", "NOTIFY"}
  BY <1>3
<1>7. ModeComes'
  BY <1>1, <1>2, <1>4, <1>5, <1>6, ModeKept DEF Following
<1>8. CommandsWhole'
  BY <1>1, <1>4, <1>5, <1>6, CommandsKept DEF Following
<1>9. NotifyFollows'
  <2>1. \A i \in 1..Len(<<m>>) : ~(<<m>>[i].kind = "LOOK" \/ (<<m>>[i].kind = "WAKEUP" /\ terminal' # "waking"))
    BY <1>3, <1>5, <1>6
  <2>2. terminal = "waking" /\ terminal' # "waking" => \E j \in 1..Len(<<m>>) : <<m>>[j].kind = "NOTIFY"
    BY <1>3, <1>5
  <2> QED BY <1>1, <1>4, <2>1, <2>2, FollowKept DEF Following
<1>10. Following'
  BY <1>4, <1>7, <1>8, <1>9 DEF Following, Queues
<1>11. Ready'
  BY <1>1, <1>2 DEF Ready, WorkspaceNamed
<1>12. terminal' = "active" => HasNotify'
  <2> SUFFICES ASSUME terminal' = "active" PROVE HasNotify'
    OBVIOUS
  <2>1. <<m>>[1].kind = "NOTIFY"
    BY <1>3
  <2> QED BY <1>1, <1>4, <1>5, <2>1, NotifyComes
<1>13. \A i \in 1..Len(<<m>>) : <<m>>[i].kind # "PAGE_FLIP"
  BY <1>5, <1>6
<1> QED BY <1>2, <1>4, <1>10, <1>11, <1>12, <1>13, Aside

LEMMA OutputKept ==
    ASSUME IInv, NEW c \in Connectors, PublishOutput(c)
    PROVE  IInv'
<1> DEFINE m == [kind |-> "OUTPUT_FOUND", connector |-> c]
<1>1. inbox \in Seq(Message) /\ UNCHANGED exhibitor /\ UNCHANGED gears /\ terminal' = terminal
      /\ inbox' = inbox \o <<m>>
  BY Parts DEF Following, PublishOutput, Push
<1>2. m \in Message /\ m.kind = "OUTPUT_FOUND"
  BY Messages
<1> HIDE DEF m
<1>3. Queues(0, <<m>>)
  BY <1>1, <1>2, OnePushed
<1>4. \A i \in 1..Len(<<m>>) : <<m>>[i].kind \in Quiet \ {"PAGE_FLIP"}
  BY <1>2 DEF Quiet
<1> QED BY <1>1, <1>3, <1>4, AsideQuiet

LEMMA SurfaceKept ==
    ASSUME IInv, SurfaceSignal
    PROVE  IInv'
<1>1. /\ inbox \in Seq(Message) /\ UNCHANGED exhibitor /\ UNCHANGED gears /\ terminal' = terminal
      /\ Ready /\ Following
  BY Parts DEF Following, SurfaceSignal
<1>2. CASE \E s \in Sids : Push(<<[kind |-> IF s \in DOMAIN windows THEN "SURFACE_DESTROYED" ELSE "SURFACE_READY",
                                   sid |-> s]>>)
  <2>1. PICK s \in Sids, kind \in {"SURFACE_READY", "SURFACE_DESTROYED"} :
            inbox' = inbox \o <<[kind |-> kind, sid |-> s]>>
    BY <1>2 DEF Push
  <2> DEFINE m == [kind |-> kind, sid |-> s]
  <2>2. m \in Message /\ m.kind = kind
    BY Messages
  <2> HIDE DEF m
  <2>3. Queues(0, <<m>>)
    BY <1>1, <2>1, <2>2, OnePushed DEF m
  <2>4. \A i \in 1..Len(<<m>>) : <<m>>[i].kind \in Quiet \ {"PAGE_FLIP"}
    BY <2>2 DEF Quiet
  <2> QED BY <1>1, <2>3, <2>4, AsideQuiet
<1>3. CASE Push(<<Signal("LOOK"), Notify>>)
  <2> DEFINE q == <<Signal("LOOK"), Notify>>
  <2>1. /\ q \in Seq(Message) /\ Len(q) = 2
        /\ \A i \in 1..2 : q[i].kind \in {"LOOK", "NOTIFY"}
        /\ q[2].kind = "NOTIFY"
    <3>1. Signal("LOOK") \in Message /\ Signal("LOOK").kind = "LOOK"
      BY Messages DEF Signal
    <3>2. Notify \in Message /\ Notify.kind = "NOTIFY"
      BY Messages DEF Signal, Notify
    <3> QED BY <3>1, <3>2
  <2>2. inbox' = inbox \o q
    BY <1>3 DEF Push
  <2>3. q[1].kind = "LOOK"
    BY DEF Signal
  <2> HIDE DEF q
  <2>4. Queues(0, q)
    BY <1>1, <2>1, <2>2, QueuePushed
  <2>5. active' = active /\ command' = command /\ dragger' = dragger
    BY <1>1 DEF gears, exhibitor
  <2>6. ModeComes'
    BY <1>1, <2>1, <2>4, <2>5, ModeKept DEF Following
  <2>7. CommandsWhole'
    BY <1>1, <2>1, <2>4, CommandsKept DEF Following
  <2>8. NotifyFollows'
    <3>1. \A i \in 1..Len(q) : q[i].kind = "LOOK" \/ (q[i].kind = "WAKEUP" /\ terminal' # "waking") =>
                    \E j \in (i + 1)..Len(q) : q[j].kind = "NOTIFY"
      <4>1. \A i \in 1..Len(q) : i = 1 \/ i = 2
        BY <2>1
      <4>2. 2 \in (1 + 1)..Len(q)
        BY <2>1
      <4> QED BY <2>1, <4>1, <4>2
    <3> QED BY <1>1, <2>4, <3>1, FollowKept DEF Following
  <2>9. Following'
    BY <2>4, <2>6, <2>7, <2>8 DEF Following, Queues
  <2>10. Ready'
    BY <1>1, <2>5 DEF Ready, WorkspaceNamed
  <2>11. \A i \in 1..Len(q) : q[i].kind # "PAGE_FLIP"
    BY <2>1
  <2> QED BY <1>1, <2>4, <2>9, <2>10, <2>11, Aside
<1> QED BY <1>2, <1>3 DEF SurfaceSignal

-----------------------------------------------------------------------------
LEMMA Initially ==
    ASSUME Init
    PROVE  IInv
<1>1. Ready
  <2>1. NoCommand \in Command /\ NoCommand.direction # "Workspace"
    BY DEF NoCommand, Command, None
  <2> QED BY <2>1 DEF Init, GearsInit, Ready, WorkspaceNamed
<1>2. inbox = <<>> /\ inbox \in Seq(Message) /\ Len(inbox) = 0 /\ 1..Len(inbox) = {} /\ DOMAIN inbox = {}
  BY DEF Init
<1>3. Following
  BY <1>2 DEF Following, CommandsWhole, ModeComes, NotifyFollows, Init, DisplaysInit
<1>4. /\ displays = Empty /\ DOMAIN displays = {} /\ flips = {} /\ behind = {} /\ dragger = {}
      /\ windows = Empty /\ DOMAIN windows = {} /\ stack = <<>> /\ kfsid = Invalid
      /\ pointer = [position |-> 0, area |-> {}, last |-> {}, pfsid |-> Invalid, kfsid |-> Invalid]
  BY DEF Init, DisplaysInit, Empty
<1>5. Returning = {}
  BY <1>2 DEF Returning
<1>6. ExhibitorOK
  <2>1. 0 \in Nat /\ DOMAIN displays = 1..0
    BY <1>4
  <2>2. displays \in [DOMAIN displays -> Display]
    BY <1>4 DEF Empty
  <2>3. pointer \in Pointer /\ kfsid \in Surface
    BY <1>4 DEF Pointer, Surface
  <2>4. FlipsOnce
    BY <1>2, <1>4, <1>5 DEF FlipsOnce, Flipping, Now
  <2>5. FirstStays /\ HoverCurrent
    BY <1>4 DEF FirstStays, HoverCurrent
  <2> QED BY <1>4, <1>5, <2>1, <2>2, <2>3, <2>4, <2>5 DEF ExhibitorOK
<1>7. BehindNotified
  BY <1>4 DEF BehindNotified
<1> QED BY <1>1, <1>3, <1>6, <1>7 DEF IInv, TypeOK, Ready, ExhibitorOK, Following

LEMMA TakeKept ==
    ASSUME SessionAssumption, IInv, Take
    PROVE  IInv'
<1>1. inbox \in Seq(Message)
  BY Parts DEF Following
<1>2. ASSUME NEW kind, Takes(kind)
      PROVE  inbox # <<>> /\ Head(inbox) \in Message /\ Head(inbox).kind = kind
  BY <1>1, <1>2 DEF Takes
<1>3. CASE Takes("NOTIFY") /\ OnNotify(MayDraw) /\ Pushes(<<>>)
  BY <1>3, TakeAll DEF OnNotify
<1>4. CASE Takes("WAKEUP") /\ OnWakeup(MayDraw) /\ Pushes(<<>>)
  BY <1>4, TakeAll DEF OnWakeup
<1>5. CASE Takes("SUSPEND") /\ UNCHANGED exhibitor /\ Pushes(<<>>)
  BY <1>2, <1>5, TakeNothing
<1>6. CASE Takes("PAGE_FLIP") /\ OnPageflip(Head(inbox).id, MayDraw) /\ Pushes(<<>>)
  BY <1>6, TakePageFlip
<1>7. CASE Takes("OUTPUT_FOUND") /\ OnOutputFound(Head(inbox).connector, MayDraw) /\ Pushes(<<>>)
  BY <1>7, TakeOutput
<1>8. CASE Takes("MOTION") /\ OnMotion(Head(inbox).vector) /\ Pushes(<<Notify>>)
  <2>1. Head(inbox).vector \in Int
    BY <1>2, <1>8, MessageFields
  <2> QED BY <1>8, <2>1, TakeMove DEF OnMotion
<1>9. CASE Takes("POSITION") /\ OnPosition(Head(inbox).position) /\ Pushes(<<Notify>>)
  <2>1. Head(inbox).position \in Int
    BY <1>2, <1>9, MessageFields
  <2> QED BY <1>9, <2>1, TakeMove DEF OnPosition
<1>10. CASE Takes("RESET") /\ OnPositionReset /\ Pushes(<<>>)
  BY <1>10, TakeReset
<1>11. CASE Takes("BUTTON") /\ OnButton(Head(inbox).pressed) /\ Pushes(<<>>)
  BY <1>11, TakeButton
<1>12. CASE Takes("MODE") /\ OnModeSwitched(Head(inbox).active) /\ Pushes(<<>>)
  BY <1>12, TakeMode
<1>13. CASE Takes("FOCUS") /\ OnKeyboardFocusChanged(Head(inbox).sid) /\ Pushes(<<>>)
  BY <1>13, TakeFocus
<1>14. CASE Takes("LOOK") /\ OnLookChanged /\ Pushes(<<>>)
  BY <1>14, TakeLook
<1> QED BY <1>3, <1>4, <1>5, <1>6, <1>7, <1>8, <1>9, <1>10, <1>11, <1>12, <1>13, <1>14 DEF Take

LEMMA TakeSurfaceKept ==
    ASSUME SessionAssumption, IInv, TakeSurface
    PROVE  IInv'
<1>1. inbox \in Seq(Message)
  BY Parts DEF Following
<1>2. ASSUME NEW kind, Takes(kind)
      PROVE  inbox # <<>> /\ Head(inbox) \in Message /\ Head(inbox).kind = kind
  BY <1>1, <1>2 DEF Takes
<1>3. CASE Takes("SURFACE_READY") /\ OnSurfaceReady(Head(inbox).sid) /\ Pushes(<<Notify>>)
  <2>1. Head(inbox).sid \in Sids
    BY <1>2, <1>3, MessageFields
  <2> QED BY <1>2, <1>3, <2>1, TakeWindow
<1>4. CASE Takes("SURFACE_DESTROYED") /\ OnSurfaceDestroyed(Head(inbox).sid) /\ Pushes(<<Notify>>)
  BY <1>2, <1>4, TakeWindow
<1>5. CASE Takes("SURFACE_READY") /\ UNCHANGED exhibitor /\ Pushes(<<>>)
  BY <1>2, <1>5, TakeNothing
<1>6. CASE Takes("SURFACE_DESTROYED") /\ UNCHANGED exhibitor /\ Pushes(<<>>)
  BY <1>2, <1>6, TakeNothing
<1> QED BY <1>3, <1>4, <1>5, <1>6 DEF TakeSurface

LEMMA TakeCommandKept ==
    ASSUME SessionAssumption, IInv, TakeCommand
    PROVE  IInv'
<1>1. inbox # <<>> /\ Head(inbox).kind = "COMMAND"
  BY DEF TakeCommand, Takes
<1>2. CASE OnCommand /\ Pushes(<<Notify>>)
  BY <1>1, <1>2, TakeWindow
<1>3. CASE UNCHANGED exhibitor /\ Pushes(<<>>)
  BY <1>1, <1>3, TakeNothing
<1> QED BY <1>2, <1>3 DEF TakeCommand

LEMMA StutterKept ==
    ASSUME IInv, UNCHANGED session
    PROVE  IInv'
<1>1. UNCHANGED exhibitor /\ UNCHANGED gears /\ inbox' = inbox /\ terminal' = terminal
  BY DEF session
<1>2. Queues(0, <<>>)
  BY <1>1, Parts, NothingPushed DEF Following
<1>3. \A i \in 1..Len(<<>>) : <<>>[i].kind \in Quiet \ {"PAGE_FLIP"}
  OBVIOUS
<1> QED BY <1>1, <1>2, <1>3, AsideQuiet

-----------------------------------------------------------------------------
(* The invariant of the session: types, what is in the queue, and the      *)
(* state displays are in between redrawings.                               *)
THEOREM Invariant == Spec => []IInv
<1>1. Init => IInv
  BY Initially
<1>2. IInv /\ [Next]_session => IInv'
  <2> SUFFICES ASSUME IInv, [Next]_session PROVE IInv'
    OBVIOUS
  <2>0. SessionAssumption
    BY SessionAssumption
  <2>1. ASSUME NEW k \in Keys, NEW pressed \in BOOLEAN, KeyEvent(k, pressed) PROVE IInv'
    BY <2>1, KeyKept
  <2>2. CASE PointerEvent
    BY <2>0, <2>2, PointerKept
  <2>3. ASSUME NEW d \in DOMAIN displays, PageFlip(d) PROVE IInv'
    BY <2>3, PageFlipKept
  <2>4. CASE SwitchAway \/ SwitchBack
    BY <2>4, SwitchKept
  <2>5. CASE HandleDeactivation
    BY <2>5, DeactivationKept
  <2>6. CASE HandleActivation
    BY <2>6, ActivationKept
  <2>7. ASSUME NEW c \in Connectors, PublishOutput(c) PROVE IInv'
    BY <2>7, OutputKept
  <2>8. CASE SurfaceSignal
    BY <2>8, SurfaceKept
  <2>9. CASE Take
    BY <2>0, <2>9, TakeKept
  <2>10. CASE TakeSurface
    BY <2>0, <2>10, TakeSurfaceKept
  <2>11. CASE TakeCommand
    BY <2>0, <2>11, TakeCommandKept
  <2>12. CASE UNCHANGED session
    BY <2>12, StutterKept
  <2> QED BY <2>1, <2>2, <2>3, <2>4, <2>5, <2>6, <2>7, <2>8, <2>9, <2>10, <2>11, <2>12 DEF Next
<1> QED BY <1>1, <1>2, PTL DEF Spec

(* Commands are sent to the compositor whole, whatever was typed in which  *)
(* mode before: actions and directions wait for each other in the input    *)
(* manager, and what bindings set is never taken from them in between.     *)
THEOREM CommandsAlwaysWhole == Spec => []CommandsWhole
<1>1. IInv => CommandsWhole
  BY DEF IInv
<1> QED BY <1>1, Invariant, PTL

(* A surface is dragged only while visual mode is on in the input manager  *)
(* or the signal that it was left is still to be taken.                    *)
THEOREM DragAlwaysFollowsMode == Spec => []DragFollowsMode
<1>1. IInv => DragFollowsMode
  <2> SUFFICES ASSUME IInv, dragger # {}, "visual" \notin active
               PROVE  Queued([kind |-> "MODE", active |-> FALSE])
    BY DEF DragFollowsMode
  <2>1. ModeComes /\ inbox \in Seq(Message)
    BY DEF IInv, TypeOK
  <2> DEFINE T == {i \in 1..Len(inbox) : inbox[i].kind = "MODE"}
  <2>2. T # {} /\ T \subseteq 0..Len(inbox) /\ Len(inbox) \in Nat
    BY <2>1 DEF ModeComes
  <2>3. PICK i \in T : \A j \in T : j <= i
    <3> HIDE DEF T
    <3> QED BY <2>2, GreatestNat
  <2>4. i \in 1..Len(inbox) /\ inbox[i].kind = "MODE" /\ \A j \in (i + 1)..Len(inbox) : inbox[j].kind # "MODE"
    BY <2>1, <2>3
  <2>5. inbox[i].active = ("visual" \in active)
    BY <2>1, <2>4 DEF ModeComes
  <2>6. inbox[i] \in Message /\ i \in DOMAIN inbox
    BY <2>1, <2>4
  <2>7. inbox[i].active = FALSE
    BY <2>4, <2>5, <2>6, MessageFields
  <2>8. inbox[i] = [kind |-> "MODE", active |-> FALSE]
    BY <2>4, <2>6, <2>7, MessageFields
  <2> QED BY <2>6, <2>8 DEF Queued
<1> QED BY <1>1, Invariant, PTL

(* No notification is lost: a display alone on its output that does not    *)
(* show what it was notified of is going to, however notifications, page   *)
(* flips and switches of the terminal interleave.                          *)
THEOREM NotifiedAlwaysShown == Spec => []NotifiedIsShown
<1>1. IInv => NotifiedIsShown
  <2> SUFFICES ASSUME IInv, terminal = "active", NEW d \in behind, Alone(d), ~Queued(Notify)
               PROVE  displays[d].needed /\ (d \in flips \/ Queued([kind |-> "PAGE_FLIP", id |-> d]))
    BY DEF NotifiedIsShown
  <2>1. /\ inbox \in Seq(Message) /\ d \in DOMAIN displays /\ BehindNotified /\ Flipping(Now, Returning)
        /\ Now.displays = displays /\ Now.flips = flips
    BY DEF IInv, TypeOK, FlipsOnce, Now
  <2>2. ASSUME NEW i \in 1..Len(inbox) PROVE inbox[i] \in Message /\ i \in DOMAIN inbox
    BY <2>1
  <2>3. \A i \in 1..Len(inbox) : inbox[i].kind # "NOTIFY"
    BY <2>2, MessageFields DEF Queued
  <2>4. displays[d].needed
    BY <2>1, <2>3 DEF BehindNotified
  <2>5. d \in flips \/ d \in Returning
    BY <2>1, <2>4 DEF Flipping
  <2>6. ASSUME d \in Returning PROVE Queued([kind |-> "PAGE_FLIP", id |-> d])
    <3>1. PICK i \in 1..Len(inbox) : inbox[i].kind = "PAGE_FLIP" /\ inbox[i].id = d
      BY <2>6 DEF Returning
    <3>2. inbox[i] = [kind |-> "PAGE_FLIP", id |-> d]
      BY <2>2, <3>1, MessageFields
    <3> QED BY <2>2, <3>2 DEF Queued
  <2> QED BY <2>4, <2>5, <2>6
<1> QED BY <1>1, Invariant, PTL

(* The pointer is on a display, and its focus is the surface under it as   *)
(* soon as the display shows the scene, wherever windows and the pointer   *)
(* were moved, as long as displays are where they were placed.             *)
THEOREM HoverAlwaysCurrent == Spec => []HoverCurrent
<1>1. IInv => HoverCurrent
  BY DEF IInv
<1> QED BY <1>1, Invariant, PTL

=============================================================================
