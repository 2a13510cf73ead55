----------------------------- MODULE ProgramProofs -----------------------------
(***************************************************************************)
(* Proofs about the threads of the program, for any number of outside      *)
(* events: no wakeup is lost, and which threads can wait for each other.   *)
(***************************************************************************)
EXTENDS Program, SequenceTheorems, TLAPS

(* An operation thread t may have to do: the coordinator's lock is the     *)
(* only one taken by a step of its own, under the lock of a dispatcher     *)
(* handlers are added, deleted and processed only, and only main and the   *)
(* service process handlers, each of its own dispatcher.                   *)
OpOK(t, o) ==
    /\ o \in Ops
    /\ o.do \in {"emit", "subscribe"} => o.arg \in Signals
    /\ o.do = "send" => o.arg \in Customs
    /\ o.do \in {"add", "delete", "process", "accept"} => o.arg \in Handlers
    /\ o.do \in {"send", "subscribe", "register"} => t \in Loops
    /\ o.do = "lock" => o.arg = "inner" /\ o.under = "inner"
    /\ o.do = "unlock" => o.arg \in Locks /\ o.under = Free
    /\ o.do = "poll" => t = "wayland"
    /\ o.do = "process" =>
        /\ o.under = DispatcherOf(o.arg)
        /\ o.under = "dispatcher" => t = Main
    /\ o.under = "dispatcher" => o.do \in {"add", "delete", "process"}
    /\ o.under = "local" => t = "wayland"

(* At i the dispatcher is used by a thread that then unlocks the           *)
(* coordinator.                                                            *)
DispatcherUse(s, i) ==
    /\ i + 1 <= Len(s)
    /\ s[i].do \in {"add", "delete"} /\ s[i].under = "dispatcher"
    /\ s[i + 1] = Op("unlock", "inner")

Waiting == {"poll", "process"}

NeverWaits(s) == \A i \in 1..Len(s) : s[i].do \notin Waiting

(* What a thread may have to do.                                           *)
Duty(t, s) ==
    /\ s \in Seq(Ops)
    /\ \A i \in 1..Len(s) :
        /\ OpOK(t, s[i])
        /\ s[i].do = "lock" => DispatcherUse(s, i + 1)
        /\ s[i].do \in Waiting => i = Len(s)

(* What who holds the coordinator's lock has still to do.                  *)
CoordinatorDuty(s) ==
    /\ s # <<>>
    /\ s[1] = Op("unlock", "inner") \/ DispatcherUse(s, 1)

(* What who holds the lock k of a dispatcher has still to do.              *)
HandlerDuty(k, s) ==
    /\ s # <<>> /\ s[Len(s)] = Op("unlock", k)
    /\ NeverWaits(s)
    /\ \A i \in 1..Len(s) : s[i].under # k

DispatcherLocks == {"dispatcher", "local"}

Duties == \A t \in Threads : Duty(t, todo[t])

Held ==
    /\ holder["dispatcher"] \in {Free, Main} /\ holder["local"] \in {Free, "wayland"}
    /\ \A t \in Threads :
        /\ holder["inner"] = t => CoordinatorDuty(todo[t])
        /\ \A k \in DispatcherLocks : holder[k] = t => HandlerDuty(k, todo[t])

(* Who waits for a message has nothing else to do.                         *)
Rested == \A l \in Loops : mode[l] \in {"asleep", "woken"} => todo[l] = <<>>

IInv == TypeOK /\ Duties /\ Held /\ Rested /\ NobodySleepsOnWork

HoldsNothing(t) == \A k \in Locks : holder[k] # t

-----------------------------------------------------------------------------
(* Sequences of operations.                                                *)
LEMMA ExtendedSeq ==
    ASSUME NEW S, NEW s \in Seq(S), NEW e \in S, NEW r, r = s \o <<e>>
    PROVE  /\ r \in Seq(S) /\ Len(r) = Len(s) + 1
           /\ \A i \in 1..Len(s) : r[i] = s[i]
           /\ r[Len(s) + 1] = e
<1>1. r = Append(s, e)
  BY AppendIsConcat
<1>2. /\ Append(s, e) \in Seq(S) /\ Len(Append(s, e)) = Len(s) + 1
      /\ \A i \in 1..Len(s) : Append(s, e)[i] = s[i]
      /\ Append(s, e)[Len(s) + 1] = e
  BY AppendProperties
<1> QED BY <1>1, <1>2, Zenon

LEMMA ThreeInSeq ==
    ASSUME NEW S, NEW a \in S, NEW b \in S, NEW c \in S, NEW r, NEW s,
           r = <<a>> \o <<b>>, s = r \o <<c>>
    PROVE  s \in Seq(S) /\ Len(s) = 3 /\ s[1] = a /\ s[2] = b /\ s[3] = c
<1>1. <<a>> \in Seq(S) /\ Len(<<a>>) = 1 /\ <<a>>[1] = a
  OBVIOUS
<1>2. r \in Seq(S) /\ Len(r) = 2 /\ r[1] = a /\ r[2] = b
  <2>1. /\ r \in Seq(S) /\ Len(r) = Len(<<a>>) + 1
        /\ \A i \in 1..Len(<<a>>) : r[i] = <<a>>[i]
        /\ r[Len(<<a>>) + 1] = b
    BY <1>1, ExtendedSeq
  <2> QED BY <2>1, <1>1
<1>3. /\ s \in Seq(S) /\ Len(s) = Len(r) + 1
      /\ \A i \in 1..Len(r) : s[i] = r[i]
      /\ s[Len(r) + 1] = c
  BY <1>2, ExtendedSeq
<1> QED BY <1>2, <1>3

LEMMA DutyTail ==
    ASSUME NEW t, NEW s, Duty(t, s), s # <<>>
    PROVE  /\ Duty(t, Tail(s))
           /\ Len(s) \in Nat \ {0} /\ Len(Tail(s)) = Len(s) - 1
           /\ \A i \in 1..Len(Tail(s)) : Tail(s)[i] = s[i + 1]
           /\ OpOK(t, s[1]) /\ Head(s) = s[1]
<1>1. s \in Seq(Ops) /\ Len(s) \in Nat \ {0}
  BY EmptySeq DEF Duty
<1>2. /\ Tail(s) \in Seq(Ops) /\ Len(Tail(s)) = Len(s) - 1
      /\ \A i \in 1..Len(Tail(s)) : Tail(s)[i] = s[i + 1]
  BY <1>1, HeadTailProperties
<1>3. ASSUME NEW i \in 1..Len(Tail(s))
      PROVE  /\ OpOK(t, Tail(s)[i])
             /\ Tail(s)[i].do = "lock" => DispatcherUse(Tail(s), i + 1)
             /\ Tail(s)[i].do \in Waiting => i = Len(Tail(s))
  <2>1. i + 1 \in 1..Len(s) /\ Tail(s)[i] = s[i + 1]
    BY <1>1, <1>2
  <2>2. /\ OpOK(t, s[i + 1])
        /\ s[i + 1].do = "lock" => DispatcherUse(s, i + 1 + 1)
        /\ s[i + 1].do \in Waiting => i + 1 = Len(s)
    BY <2>1 DEF Duty
  <2>3. ASSUME DispatcherUse(s, i + 1 + 1)
        PROVE  DispatcherUse(Tail(s), i + 1)
    <3>1. i + 1 \in 1..Len(Tail(s)) /\ i + 2 \in 1..Len(Tail(s))
      BY <2>3, <1>1, <1>2 DEF DispatcherUse
    <3>2. Tail(s)[i + 1] = s[i + 1 + 1] /\ Tail(s)[i + 1 + 1] = s[i + 1 + 1 + 1]
      BY <3>1, <1>1, <1>2
    <3> QED BY <3>1, <3>2, <2>3 DEF DispatcherUse
  <2>4. i + 1 = Len(s) <=> i = Len(Tail(s))
    <3> DEFINE m == Len(s)
               n == Len(Tail(s))
    <3>1. m \in Nat \ {0} /\ n = m - 1 /\ i \in 1..n
      BY <1>1, <1>2
    <3> HIDE DEF m, n
    <3>2. i + 1 = m <=> i = n
      BY <3>1
    <3> QED BY <3>2 DEF m, n
  <2>5. s[i + 1].do \in Waiting => i = Len(Tail(s))
    BY <2>2, <2>4, Zenon
  <2> QED BY <2>1, <2>2, <2>3, <2>5
<1>4. OpOK(t, s[1]) /\ Head(s) = s[1]
  BY <1>1 DEF Duty
<1> QED BY <1>1, <1>2, <1>3, <1>4 DEF Duty

LEMMA DutyConcat ==
    ASSUME NEW t, NEW r, NEW s, Duty(t, r), NeverWaits(r), Duty(t, s)
    PROVE  /\ Duty(t, r \o s)
           /\ NeverWaits(s) => NeverWaits(r \o s)
<1> DEFINE c == r \o s
<1>1. /\ c \in Seq(Ops) /\ Len(c) = Len(r) + Len(s) /\ Len(r) \in Nat /\ Len(s) \in Nat
      /\ \A i \in 1..Len(r) : c[i] = r[i]
      /\ \A i \in 1..Len(s) : c[Len(r) + i] = s[i]
  BY ConcatProperties, LenProperties DEF Duty
<1> HIDE DEF c
<1>2. ASSUME NEW i \in 1..Len(r)
      PROVE  /\ OpOK(t, c[i])
             /\ c[i].do = "lock" => DispatcherUse(c, i + 1)
             /\ c[i].do \notin Waiting
  <2>1. c[i] = r[i] /\ OpOK(t, r[i]) /\ r[i].do \notin Waiting
    BY <1>1 DEF Duty, NeverWaits
  <2>2. ASSUME r[i].do = "lock" PROVE DispatcherUse(c, i + 1)
    <3>1. DispatcherUse(r, i + 1)
      BY <2>2 DEF Duty
    <3>2. i + 1 \in 1..Len(r) /\ i + 1 + 1 \in 1..Len(r)
      BY <3>1, <1>1 DEF DispatcherUse
    <3>3. c[i + 1] = r[i + 1] /\ c[i + 1 + 1] = r[i + 1 + 1] /\ i + 1 + 1 <= Len(c)
      BY <3>2, <1>1
    <3> QED BY <3>1, <3>3 DEF DispatcherUse
  <2> QED BY <2>1, <2>2
<1>3. ASSUME NEW i \in 1..Len(s)
      PROVE  /\ OpOK(t, c[Len(r) + i])
             /\ c[Len(r) + i].do = "lock" => DispatcherUse(c, Len(r) + i + 1)
             /\ c[Len(r) + i].do \in Waiting => Len(r) + i = Len(c)
             /\ NeverWaits(s) => c[Len(r) + i].do \notin Waiting
  <2>1. c[Len(r) + i] = s[i] /\ OpOK(t, s[i]) /\ (s[i].do \in Waiting => i = Len(s))
    BY <1>1 DEF Duty
  <2>2. ASSUME s[i].do = "lock" PROVE DispatcherUse(c, Len(r) + i + 1)
    <3>1. DispatcherUse(s, i + 1)
      BY <2>2 DEF Duty
    <3>2. i + 1 \in 1..Len(s) /\ i + 1 + 1 \in 1..Len(s)
      BY <3>1, <1>1 DEF DispatcherUse
    <3>3. /\ c[Len(r) + (i + 1)] = s[i + 1] /\ c[Len(r) + (i + 1 + 1)] = s[i + 1 + 1]
          /\ Len(r) + i + 1 + 1 <= Len(c)
          /\ Len(r) + (i + 1) = Len(r) + i + 1 /\ Len(r) + (i + 1 + 1) = Len(r) + i + 1 + 1
      BY <3>2, <1>1
    <3> QED BY <3>1, <3>3 DEF DispatcherUse
  <2> QED BY <2>1, <2>2, <1>1 DEF NeverWaits
<1>4. ASSUME NEW i \in 1..Len(c)
      PROVE  i \in 1..Len(r) \/ \E j \in 1..Len(s) : i = Len(r) + j
  <2>1. CASE i <= Len(r)
    BY <2>1, <1>1
  <2>2. CASE i > Len(r)
    <3>1. i - Len(r) \in 1..Len(s) /\ i = Len(r) + (i - Len(r))
      BY <2>2, <1>1
    <3> QED BY <3>1
  <2> QED BY <2>1, <2>2, <1>1
<1>5. ASSUME NEW i \in 1..Len(c)
      PROVE  /\ OpOK(t, c[i])
             /\ c[i].do = "lock" => DispatcherUse(c, i + 1)
             /\ c[i].do \in Waiting => i = Len(c)
             /\ NeverWaits(s) => c[i].do \notin Waiting
  BY <1>2, <1>3, <1>4
<1>6. Duty(t, c) /\ (NeverWaits(s) => NeverWaits(c))
  BY <1>5, <1>1 DEF Duty, NeverWaits
<1> QED BY <1>6 DEF c

LEMMA DutyEmpty ==
    ASSUME NEW t
    PROVE  Duty(t, <<>>) /\ NeverWaits(<<>>)
BY EmptySeq DEF Duty, NeverWaits

LEMMA DutySingle ==
    ASSUME NEW t, NEW o, OpOK(t, o), o.do # "lock"
    PROVE  /\ Duty(t, <<o>>)
           /\ o.do \notin Waiting => NeverWaits(<<o>>)
BY DEF Duty, NeverWaits, OpOK

-----------------------------------------------------------------------------
(* What the threads of perceptia have to do.                               *)
LEMMA NotifiedDuty ==
    ASSUME NEW t, NEW signal \in Signals
    PROVE  Duty(t, Notified(signal)) /\ NeverWaits(Notified(signal))
<1>1. OpOK(t, OpUnder("inner", "emit", signal)) /\ OpUnder("inner", "emit", signal).do = "emit"
  BY ProgramAssumption, ThreadsAssumption
  DEF OpOK, OpUnder, Ops, Args, Deeds, Free, Threads
<1> QED BY <1>1, DutySingle DEF Notified, Waiting

LEMMA WithCoordinatorDuty ==
    ASSUME NEW t, NEW h \in Handlers, NEW do \in {"add", "delete"}
    PROVE  /\ Duty(t, WithCoordinator(<<OpUnder("dispatcher", do, h)>>))
           /\ NeverWaits(WithCoordinator(<<OpUnder("dispatcher", do, h)>>))
<1> DEFINE a == OpUnder("inner", "lock", "inner")
           b == OpUnder("dispatcher", do, h)
           c == Op("unlock", "inner")
           s == WithCoordinator(<<b>>)
<1>1. OpOK(t, a) /\ OpOK(t, b) /\ OpOK(t, c)
  BY ProgramAssumption, ThreadsAssumption
  DEF OpOK, OpUnder, Op, Ops, Args, Deeds, Free, Threads
<1>2. a.do = "lock" /\ b.do = do /\ b.under = "dispatcher" /\ c.do = "unlock"
  BY DEF OpUnder, Op
<1>3. a \in Ops /\ b \in Ops /\ c \in Ops
  BY <1>1 DEF OpOK
<1> DEFINE ab == <<a>> \o <<b>>
<1>4. ab = <<a>> \o <<b>> /\ s = ab \o <<c>>
  BY DEF WithCoordinator
<1> HIDE DEF a, b, c, ab, s
<1>5. s \in Seq(Ops) /\ Len(s) = 3 /\ s[1] = a /\ s[2] = b /\ s[3] = c
  BY <1>3, <1>4, ThreeInSeq
<1>6. ASSUME NEW i \in 1..3
      PROVE  /\ OpOK(t, s[i]) /\ s[i].do \notin Waiting
             /\ s[i].do = "lock" => DispatcherUse(s, i + 1)
  <2>1. CASE i = 1
    BY <2>1, <1>1, <1>2, <1>5 DEF DispatcherUse, Waiting, c
  <2>2. CASE i = 2
    BY <2>2, <1>1, <1>2, <1>5 DEF Waiting
  <2>3. CASE i = 3
    BY <2>3, <1>1, <1>2, <1>5 DEF Waiting
  <2> QED BY <2>1, <2>2, <2>3
<1>7. Duty(t, s) /\ NeverWaits(s)
  BY <1>5, <1>6 DEF Duty, NeverWaits
<1> QED BY <1>7 DEF s, b

LEMMA SimpleDuty ==
    ASSUME NEW t, NEW s \in Seq(Ops),
           \A i \in 1..Len(s) : OpOK(t, s[i]) /\ s[i].do \notin Waiting \union {"lock"}
    PROVE  Duty(t, s) /\ NeverWaits(s)
BY DEF Duty, NeverWaits

LEMMA SubscribeDuty ==
    ASSUME NEW l \in Loops, NEW signals \in Seq(Signals)
    PROVE  Duty(l, SubscribeOps(l, signals)) /\ NeverWaits(SubscribeOps(l, signals))
<1> DEFINE n == Len(signals)
           s == [i \in 1..n |-> Op("subscribe", signals[i])]
           o == Op("register", l)
<1>1. n \in Nat /\ DOMAIN signals = 1..n /\ \A i \in 1..n : signals[i] \in Signals
  BY ElementOfSeq, LenProperties
<1>2. ASSUME NEW i \in 1..n
      PROVE  OpOK(l, Op("subscribe", signals[i])) /\ Op("subscribe", signals[i]).do = "subscribe"
  BY <1>1, ProgramAssumption, ThreadsAssumption
  DEF OpOK, OpUnder, Op, Ops, Args, Deeds, Free, Threads
<1>3. s \in Seq(Ops) /\ Len(s) = n /\ \A i \in 1..n : s[i] = Op("subscribe", signals[i])
  <2>1. \A i \in 1..n : Op("subscribe", signals[i]) \in Ops
    BY <1>2 DEF OpOK
  <2> QED BY <2>1, <1>1
<1>4. Duty(l, s) /\ NeverWaits(s)
  BY <1>2, <1>3, SimpleDuty DEF Waiting
<1>5. OpOK(l, o) /\ o.do = "register"
  BY ProgramAssumption, ThreadsAssumption
  DEF OpOK, OpUnder, Op, Ops, Args, Deeds, Free, Threads, Loops
<1>6. Duty(l, <<o>>) /\ NeverWaits(<<o>>)
  BY <1>5, DutySingle DEF Waiting
<1>7. SubscribeOps(l, signals) = <<o>> \o s
  BY <1>1 DEF SubscribeOps
<1> HIDE DEF s, o
<1> QED BY <1>4, <1>6, <1>7, DutyConcat

(* The reactions of modules hold no lock of a dispatcher for long, and     *)
(* wait for nothing but locks.                                             *)
LEMMA ReactionDuty ==
    ASSUME NEW l \in Loops, NEW m, NEW r \in Reaction(l, m)
    PROVE  Duty(l, r) /\ NeverWaits(r)
<1>1. l \in {"utils", "exhibitor", "wayland"}
  BY ProgramAssumption DEF Loops
<1>2. {"NOTIFY", "DISPLAY_CREATED", "SURFACE_FRAME"} \subseteq Signals /\ "device" \in Handlers
  BY ProgramAssumption
<1>3. Duty(l, <<>>) /\ NeverWaits(<<>>)
  BY DutyEmpty
<1>4. CASE l = "utils"
  <2>1. r \in {Notified("NOTIFY"), RemoveEventHandler("device"), <<>>}
    BY <1>4 DEF Reaction, UtilsReaction
  <2>2. /\ Duty(l, RemoveEventHandler("device")) /\ NeverWaits(RemoveEventHandler("device"))
        /\ Duty(l, Notified("NOTIFY")) /\ NeverWaits(Notified("NOTIFY"))
    BY <1>2, WithCoordinatorDuty, NotifiedDuty DEF RemoveEventHandler
  <2> QED BY <2>1, <2>2, <1>3
<1>5. CASE l = "exhibitor"
  <2>1. r \in {Notified("DISPLAY_CREATED"), Notified("SURFACE_FRAME"), <<>>}
    BY <1>5 DEF Reaction, ExhibitorReaction, Drawn
  <2> QED BY <2>1, <1>2, <1>3, NotifiedDuty
<1>6. CASE l = "wayland"
  <2> DEFINE a == Op("accept", "display")
             b == OpUnder("local", "add", "client")
  <2>1. r \in {<<a, b>>, <<>>}
    BY <1>6 DEF Reaction, WaylandReaction
  <2>2. OpOK(l, a) /\ OpOK(l, b) /\ a.do = "accept" /\ b.do = "add"
    BY <1>6, ProgramAssumption, ThreadsAssumption
    DEF OpOK, OpUnder, Op, Ops, Args, Deeds, Free, Threads
  <2>3. a \in Ops /\ b \in Ops
    BY <2>2 DEF OpOK
  <2> HIDE DEF a, b
  <2>4. <<a, b>> \in Seq(Ops) /\ Len(<<a, b>>) = 2 /\ <<a, b>>[1] = a /\ <<a, b>>[2] = b
    BY <2>3
  <2>5. \A i \in 1..2 : OpOK(l, <<a, b>>[i]) /\ <<a, b>>[i].do \notin Waiting \union {"lock"}
    <3>1. \A i \in 1..2 : i = 1 \/ i = 2
      OBVIOUS
    <3>2. a.do \notin Waiting \union {"lock"} /\ b.do \notin Waiting \union {"lock"}
      BY <2>2 DEF Waiting
    <3> QED BY <3>1, <3>2, <2>2, <2>4, Zenon
  <2> QED BY <2>1, <2>4, <2>5, <1>3, SimpleDuty
<1> QED BY <1>1, <1>4, <1>5, <1>6

(* What handlers do they do without the lock of a dispatcher.              *)
LEMMA HandlerOpsDuty ==
    ASSUME NEW t \in Threads, NEW h \in Handlers, h = "display" => t \in Loops
    PROVE  /\ Duty(t, HandlerOps(h)) /\ NeverWaits(HandlerOps(h))
           /\ \A i \in 1..Len(HandlerOps(h)) : HandlerOps(h)[i].under \notin DispatcherLocks
<1>1. \/ HandlerOps(h) = <<>>
      \/ h = "display" /\ HandlerOps(h) = <<Op("send", "HANDLE_NEW_CLIENT")>>
      \/ HandlerOps(h) \in {<<Op("terminate", Main)>>, <<Op("emit", "NOTIFY")>>,
                            Notified("PAGE_FLIP"), Notified("INPUTS_CHANGED")}
  BY DEF HandlerOps
<1>2. CASE HandlerOps(h) = <<>>
  BY <1>2, DutyEmpty
<1>3. ASSUME NEW o, OpOK(t, o), o.do \notin Waiting \union {"lock"},
             o.under \notin DispatcherLocks, HandlerOps(h) = <<o>>
      PROVE  /\ Duty(t, HandlerOps(h)) /\ NeverWaits(HandlerOps(h))
             /\ \A i \in 1..Len(HandlerOps(h)) : HandlerOps(h)[i].under \notin DispatcherLocks
  BY <1>3, DutySingle
<1>4. CASE h = "display" /\ HandlerOps(h) = <<Op("send", "HANDLE_NEW_CLIENT")>>
  <2>1. OpOK(t, Op("send", "HANDLE_NEW_CLIENT")) /\ Op("send", "HANDLE_NEW_CLIENT").do = "send"
        /\ Op("send", "HANDLE_NEW_CLIENT").under = Free
    BY <1>4, ProgramAssumption, ThreadsAssumption
    DEF OpOK, OpUnder, Op, Ops, Args, Deeds, Free, Threads
  <2> QED BY <2>1, <1>3, <1>4 DEF Waiting, DispatcherLocks, Free
<1>5. CASE HandlerOps(h) = <<Op("terminate", Main)>>
  <2>1. OpOK(t, Op("terminate", Main)) /\ Op("terminate", Main).do = "terminate"
        /\ Op("terminate", Main).under = Free
    BY ProgramAssumption, ThreadsAssumption
    DEF OpOK, OpUnder, Op, Ops, Args, Deeds, Free, Threads
  <2> QED BY <2>1, <1>3, <1>5 DEF Waiting, DispatcherLocks, Free
<1>6. CASE HandlerOps(h) = <<Op("emit", "NOTIFY")>>
  <2>1. OpOK(t, Op("emit", "NOTIFY")) /\ Op("emit", "NOTIFY").do = "emit"
        /\ Op("emit", "NOTIFY").under = Free
    BY ProgramAssumption, ThreadsAssumption
    DEF OpOK, OpUnder, Op, Ops, Args, Deeds, Free, Threads
  <2> QED BY <2>1, <1>3, <1>6 DEF Waiting, DispatcherLocks, Free
<1>7. ASSUME NEW signal \in Signals, HandlerOps(h) = Notified(signal)
      PROVE  /\ Duty(t, HandlerOps(h)) /\ NeverWaits(HandlerOps(h))
             /\ \A i \in 1..Len(HandlerOps(h)) : HandlerOps(h)[i].under \notin DispatcherLocks
  <2> DEFINE o == OpUnder("inner", "emit", signal)
  <2>1. OpOK(t, o) /\ o.do = "emit" /\ o.under = "inner"
    BY ProgramAssumption, ThreadsAssumption
    DEF OpOK, OpUnder, Ops, Args, Deeds, Free, Threads
  <2>2. HandlerOps(h) = <<o>>
    BY <1>7 DEF Notified
  <2> HIDE DEF o
  <2> QED BY <2>1, <2>2, <1>3 DEF Waiting, DispatcherLocks
<1> QED BY <1>1, <1>2, <1>4, <1>5, <1>6, <1>7, ProgramAssumption

-----------------------------------------------------------------------------
(* The initial states.                                                     *)
LEMMA StartDuty ==
    /\ Duty("utils", UtilsStart) /\ Duty("exhibitor", ExhibitorStart)
    /\ Duty("wayland", WaylandStart) /\ Duty(Main, <<Op("run", Main)>>)
<1>1. /\ {"OUTPUT_FOUND", "DISPLAY_CREATED", "INPUTS_CHANGED", "NOTIFY", "PAGE_FLIP",
          "SURFACE_FRAME"} \subseteq Signals
      /\ {"pageflip", "monitor", "display"} \subseteq Handlers
      /\ {"utils", "exhibitor", "wayland"} \subseteq Loops
  BY ProgramAssumption DEF Loops
<1>2. Duty("utils", UtilsStart)
  <2> DEFINE n == Notified("OUTPUT_FOUND")
             p == AddEventHandler("pageflip")
             m == AddEventHandler("monitor")
             s == SubscribeOps("utils", <<"DISPLAY_CREATED", "INPUTS_CHANGED">>)
  <2>1. /\ Duty("utils", n) /\ NeverWaits(n)
        /\ Duty("utils", p) /\ NeverWaits(p)
        /\ Duty("utils", m) /\ NeverWaits(m)
    BY <1>1, NotifiedDuty, WithCoordinatorDuty DEF AddEventHandler
  <2>2. Duty("utils", s)
    <3>1. <<"DISPLAY_CREATED", "INPUTS_CHANGED">> \in Seq(Signals)
      BY <1>1
    <3> QED BY <1>1, <3>1, SubscribeDuty
  <2>3. UtilsStart = ((n \o p) \o m) \o s
    BY DEF UtilsStart
  <2> HIDE DEF n, p, m, s
  <2>4. Duty("utils", n \o p) /\ NeverWaits(n \o p)
    BY <2>1, DutyConcat
  <2>5. Duty("utils", (n \o p) \o m) /\ NeverWaits((n \o p) \o m)
    BY <2>1, <2>4, DutyConcat
  <2> QED BY <2>2, <2>3, <2>5, DutyConcat
<1>3. Duty("exhibitor", ExhibitorStart)
  <2>1. <<"NOTIFY", "PAGE_FLIP", "OUTPUT_FOUND">> \in Seq(Signals)
    BY <1>1
  <2> QED BY <1>1, <2>1, SubscribeDuty DEF ExhibitorStart
<1>4. Duty("wayland", WaylandStart)
  <2> DEFINE s == SubscribeOps("wayland", <<"SURFACE_FRAME">>)
             o == OpUnder("local", "add", "display")
  <2>1. Duty("wayland", s) /\ NeverWaits(s)
    <3>1. <<"SURFACE_FRAME">> \in Seq(Signals)
      BY <1>1
    <3> QED BY <1>1, <3>1, SubscribeDuty
  <2>2. OpOK("wayland", o) /\ o.do = "add"
    BY <1>1, ProgramAssumption, ThreadsAssumption
    DEF OpOK, OpUnder, Ops, Args, Deeds, Free, Threads
  <2>3. Duty("wayland", <<o>>)
    BY <2>2, DutySingle
  <2>4. WaylandStart = s \o <<o>>
    BY DEF WaylandStart
  <2> HIDE DEF s, o
  <2> QED BY <2>1, <2>3, <2>4, DutyConcat
<1>5. Duty(Main, <<Op("run", Main)>>)
  <2>1. OpOK(Main, Op("run", Main)) /\ Op("run", Main).do = "run"
    BY ThreadsAssumption DEF OpOK, OpUnder, Op, Ops, Args, Deeds, Free, Threads
  <2> QED BY <2>1, DutySingle
<1> QED BY <1>2, <1>3, <1>4, <1>5

LEMMA InitIInv == Init => IInv
<1> SUFFICES ASSUME Init PROVE IInv
  OBVIOUS
<1>1. Threads = {"utils", "exhibitor", "wayland", "main"} /\ Main = "main"
  BY ProgramAssumption DEF Threads, Loops
<1>2. Duties
  <2>1. ASSUME NEW t \in Threads
        PROVE  \/ t = "utils" /\ todo[t] = UtilsStart
               \/ t = "exhibitor" /\ todo[t] = ExhibitorStart
               \/ t = "wayland" /\ todo[t] = WaylandStart
               \/ t = Main /\ todo[t] = <<Op("run", Main)>>
    BY <1>1 DEF Init
  <2> QED BY <2>1, StartDuty DEF Duties
<1>3. TypeOK
  <2>1. todo \in [Threads -> Seq(Ops)]
    <3>1. \A t \in Threads : todo[t] \in Seq(Ops)
      BY <1>2 DEF Duties, Duty
    <3>2. DOMAIN todo = Threads /\ todo = [t \in Threads |-> todo[t]]
      BY DEF Init
    <3> QED BY <3>1, <3>2
  <2>2. queue \in [Loops -> Seq(Messages)]
    BY DEF Init
  <2>3. mode \in [Loops -> {"busy", "asleep", "woken", "ended"}]
    BY DEF Init
  <2>4. subscribers \in [Signals -> SUBSET Loops] /\ registry \subseteq Loops
    BY DEF Init
  <2>5. holder \in [Locks -> Threads \union {Free}]
    BY DEF Init
  <2>6. handlers \subseteq Handlers /\ ready \subseteq Handlers /\ hungup \subseteq Handlers
    BY ProgramAssumption DEF Init
  <2>7. run \in BOOLEAN /\ events \in 0..MaxEvents
    <3>1. MaxEvents \in Nat
      BY ProgramAssumption
    <3>2. run = FALSE /\ events = 0
      BY DEF Init
    <3>3. run \in BOOLEAN
      BY <3>2
    <3>4. events \in 0..MaxEvents
      BY <3>1, <3>2
    <3> QED BY <3>3, <3>4
  <2> QED BY <2>1, <2>2, <2>3, <2>4, <2>5, <2>6, <2>7 DEF TypeOK
<1>4. Held
  BY <1>1, ProgramAssumption, ThreadsAssumption DEF Init, Held, DispatcherLocks
<1>5. Rested /\ NobodySleepsOnWork
  BY DEF Init, Rested, NobodySleepsOnWork
<1> QED BY <1>2, <1>3, <1>4, <1>5 DEF IInv

-----------------------------------------------------------------------------
(* Steps.                                                                  *)

(* Nobody else's duties change.                                            *)
Assigned(t, s) == todo' = [todo EXCEPT ![t] = s]

(* A thread that holds no lock may be given anything to do.                *)
LEMMA AssignedKeepsHeld ==
    ASSUME IInv, NEW t \in Threads, NEW s, Assigned(t, s), Duty(t, s), HoldsNothing(t),
           UNCHANGED holder
    PROVE  Duties' /\ Held' /\ todo' \in [Threads -> Seq(Ops)]
<1>1. /\ todo \in [Threads -> Seq(Ops)] /\ s \in Seq(Ops)
      /\ todo'[t] = s /\ \A u \in Threads \ {t} : todo'[u] = todo[u]
  BY DEF IInv, TypeOK, Assigned, Duty
<1>2. todo' \in [Threads -> Seq(Ops)]
  BY <1>1 DEF Assigned
<1>3. Duties'
  BY <1>1 DEF IInv, Duties
<1>4. Held'
  <2>1. ASSUME NEW u \in Threads
        PROVE  /\ holder["inner"] = u => CoordinatorDuty(todo'[u])
               /\ \A k \in DispatcherLocks : holder[k] = u => HandlerDuty(k, todo'[u])
    <3>1. CASE u = t
      BY <3>1, ProgramAssumption DEF HoldsNothing, DispatcherLocks
    <3>2. CASE u # t
      BY <3>2, <1>1 DEF IInv, Held
    <3> QED BY <3>1, <3>2
  <2> QED BY <2>1 DEF Held, IInv
<1> QED BY <1>2, <1>3, <1>4

(* A thread with nothing to do holds no lock, and neither does one that is *)
(* about to wait.                                                          *)
LEMMA IdleHoldsNothing ==
    ASSUME IInv, NEW t \in Threads,
           todo[t] = <<>> \/ (todo[t] # <<>> /\ Head(todo[t]).do \in Waiting)
    PROVE  HoldsNothing(t)
<1>1. CASE todo[t] = <<>>
  BY <1>1, ProgramAssumption
  DEF IInv, Held, HoldsNothing, CoordinatorDuty, HandlerDuty, DispatcherLocks
<1>2. CASE todo[t] # <<>> /\ Head(todo[t]).do \in Waiting
  <2>1. Duty(t, todo[t])
    BY DEF IInv, Duties
  <2>2. Head(todo[t]) = todo[t][1] /\ Len(todo[t]) \in Nat \ {0}
    BY <1>2, <2>1, DutyTail
  <2>3. ~NeverWaits(todo[t])
    BY <1>2, <2>2 DEF NeverWaits
  <2>4. ~CoordinatorDuty(todo[t])
    BY <1>2, <2>2 DEF CoordinatorDuty, DispatcherUse, Waiting, Op, OpUnder
  <2> QED BY <2>3, <2>4, ProgramAssumption
      DEF IInv, Held, HoldsNothing, HandlerDuty, DispatcherLocks
<1> QED BY <1>1, <1>2

(* What a thread still has to do after an operation that is neither        *)
(* locking nor waiting; only unlocking ends what holding a lock demands.   *)
LEMMA TailDuties ==
    ASSUME NEW t, NEW s, Duty(t, s), s # <<>>
    PROVE  /\ CoordinatorDuty(s) /\ s[1].do # "unlock" => CoordinatorDuty(Tail(s))
           /\ \A k \in Locks : HandlerDuty(k, s) /\ s[1] # Op("unlock", k)
                                => HandlerDuty(k, Tail(s))
<1>1. /\ Len(s) \in Nat \ {0} /\ Len(Tail(s)) = Len(s) - 1 /\ Tail(s) \in Seq(Ops)
      /\ \A i \in 1..Len(Tail(s)) : Tail(s)[i] = s[i + 1]
  BY DutyTail DEF Duty
<1> DEFINE r == Tail(s)
<1>0. Len(r) = Len(s) - 1 /\ r \in Seq(Ops) /\ \A i \in 1..Len(r) : r[i] = s[i + 1]
  BY <1>1
<1> HIDE DEF r
<1>2. ASSUME CoordinatorDuty(s), s[1].do # "unlock"
      PROVE  CoordinatorDuty(r)
  <2>1. Len(s) >= 2 /\ s[1 + 1] = Op("unlock", "inner")
    BY <1>1, <1>0, <1>2 DEF CoordinatorDuty, DispatcherUse, Op, OpUnder
  <2>2. 1 \in 1..Len(r) /\ r # <<>>
    BY <2>1, <1>1, <1>0
  <2> QED BY <2>1, <2>2, <1>1, <1>0 DEF CoordinatorDuty
<1>3. ASSUME NEW k \in Locks, HandlerDuty(k, s), s[1] # Op("unlock", k)
      PROVE  HandlerDuty(k, r)
  <2>1. Len(s) >= 2
    BY <1>1, <1>0, <1>3 DEF HandlerDuty
  <2>2. r # <<>> /\ Len(r) \in 1..Len(r) /\ Len(r) + 1 = Len(s)
    BY <2>1, <1>1, <1>0
  <2>3. r[Len(r)] = Op("unlock", k)
    BY <2>2, <1>1, <1>0, <1>3 DEF HandlerDuty
  <2>4. ASSUME NEW i \in 1..Len(r)
        PROVE  r[i].do \notin Waiting /\ r[i].under # k
    <3>1. i + 1 \in 1..Len(s) /\ r[i] = s[i + 1]
      BY <1>1, <1>0
    <3> QED BY <3>1, <1>3 DEF HandlerDuty, NeverWaits
  <2> QED BY <2>2, <2>3, <2>4 DEF HandlerDuty, NeverWaits
<1> QED BY <1>2, <1>3 DEF r

(* A thread did an operation, locking and waiting apart.                   *)
LEMMA DoneKeepsHeld ==
    ASSUME IInv, NEW t \in Threads, todo[t] # <<>>, Done(t),
           Head(todo[t]).do \notin Waiting \union {"lock", "unlock"}, UNCHANGED holder
    PROVE  Duties' /\ Held' /\ todo' \in [Threads -> Seq(Ops)]
<1> DEFINE s == todo[t]
<1>1. /\ todo \in [Threads -> Seq(Ops)] /\ Duty(t, s)
      /\ Duty(t, Tail(s)) /\ Tail(s) \in Seq(Ops) /\ Head(s) = s[1] /\ OpOK(t, s[1])
  <2>1. Duty(t, s)
    BY DEF IInv, Duties
  <2> QED BY <2>1, DutyTail DEF IInv, TypeOK, Duty
<1>2. /\ todo'[t] = Tail(s) /\ \A u \in Threads \ {t} : todo'[u] = todo[u]
      /\ todo' \in [Threads -> Seq(Ops)]
  BY <1>1 DEF Done
<1>3. Duties'
  BY <1>1, <1>2 DEF IInv, Duties
<1>4. Held'
  <2>1. ASSUME NEW u \in Threads
        PROVE  /\ holder["inner"] = u => CoordinatorDuty(todo'[u])
               /\ \A k \in DispatcherLocks : holder[k] = u => HandlerDuty(k, todo'[u])
    <3>1. CASE u = t
      <4>1. s[1].do # "unlock" /\ \A k \in Locks : s[1] # Op("unlock", k)
        BY <1>1 DEF Op, OpUnder
      <4>2. /\ holder["inner"] = t => CoordinatorDuty(s)
            /\ \A k \in DispatcherLocks : holder[k] = t => HandlerDuty(k, s)
        BY DEF IInv, Held
      <4> QED BY <3>1, <4>1, <4>2, <1>1, <1>2, TailDuties, ProgramAssumption
          DEF DispatcherLocks
    <3>2. CASE u # t
      BY <3>2, <1>2 DEF IInv, Held
    <3> QED BY <3>1, <3>2
  <2> QED BY <2>1 DEF Held, IInv
<1> QED BY <1>2, <1>3, <1>4

(* Notifying wakes who waits, so that nobody sleeps on what is pushed.     *)
LEMMA WorkingKeepsRest ==
    ASSUME IInv, NEW t \in Threads, todo[t] # <<>>,
           \A u \in Threads \ {t} : todo'[u] = todo[u],
           UnchangedQueues \/ \E ls \in SUBSET Loops, m \in Messages : Push(ls, m)
    PROVE  /\ Rested' /\ NobodySleepsOnWork'
           /\ queue' \in [Loops -> Seq(Messages)]
           /\ mode' \in [Loops -> {"busy", "asleep", "woken", "ended"}]
<1>1. /\ queue \in [Loops -> Seq(Messages)]
      /\ mode \in [Loops -> {"busy", "asleep", "woken", "ended"}]
      /\ Loops \subseteq Threads
  BY DEF IInv, TypeOK, Threads
<1>2. /\ queue' \in [Loops -> Seq(Messages)]
      /\ mode' \in [Loops -> {"busy", "asleep", "woken", "ended"}]
      /\ \A l \in Loops : /\ mode'[l] = "asleep" => mode[l] = "asleep" /\ queue'[l] = queue[l]
                          /\ mode'[l] = "woken" => mode[l] \in {"asleep", "woken"}
  <2>1. CASE UnchangedQueues
    BY <2>1, <1>1 DEF UnchangedQueues
  <2>2. ASSUME NEW ls \in SUBSET Loops, NEW m \in Messages, Push(ls, m)
        PROVE  <1>2!1 /\ <1>2!2 /\ <1>2!3
    <3>1. queue' \in [Loops -> Seq(Messages)]
      <4>1. \A l \in Loops : Append(queue[l], m) \in Seq(Messages)
        BY <1>1
      <4> QED BY <4>1, <1>1, <2>2 DEF Push
    <3>2. mode' \in [Loops -> {"busy", "asleep", "woken", "ended"}]
      BY <2>2, <1>1 DEF Push, Woken
    <3>3. ASSUME NEW l \in Loops
          PROVE  /\ mode'[l] = "asleep" => mode[l] = "asleep" /\ queue'[l] = queue[l]
                 /\ mode'[l] = "woken" => mode[l] \in {"asleep", "woken"}
      BY <2>2, <1>1 DEF Push, Woken
    <3> QED BY <3>1, <3>2, <3>3
  <2> QED BY <2>1, <2>2
<1>3. \A l \in Loops : mode[l] \in {"asleep", "woken"} => l # t /\ todo[l] = <<>>
  BY DEF IInv, Rested
<1>4. Rested'
  BY <1>1, <1>2, <1>3 DEF Rested
<1>5. NobodySleepsOnWork'
  BY <1>1, <1>2, <1>3 DEF IInv, NobodySleepsOnWork
<1> QED BY <1>2, <1>4, <1>5

LEMMA HeadOK ==
    ASSUME IInv, NEW t \in Threads, todo[t] # <<>>
    PROVE  /\ OpOK(t, Head(todo[t])) /\ Duty(t, todo[t]) /\ Duty(t, Tail(todo[t]))
           /\ Head(todo[t]) = todo[t][1] /\ Len(todo[t]) \in Nat \ {0}
<1>1. Duty(t, todo[t])
  BY DEF IInv, Duties
<1>2. OpOK(t, todo[t][1]) /\ Head(todo[t]) = todo[t][1]
  BY <1>1, DutyTail
<1> QED BY <1>1, <1>2, DutyTail

OthersTyped ==
    /\ subscribers \in [Signals -> SUBSET Loops]
    /\ registry \subseteq Loops
    /\ handlers \subseteq Handlers
    /\ ready \subseteq Handlers /\ hungup \subseteq Handlers
    /\ run \in BOOLEAN
    /\ events \in 0..MaxEvents

(* An operation that is neither locking nor waiting.                       *)
LEMMA SimpleStep ==
    ASSUME IInv, NEW t \in Threads, todo[t] # <<>>, Done(t),
           Head(todo[t]).do \notin Waiting \union {"lock", "unlock"}, UNCHANGED holder,
           UnchangedQueues \/ \E ls \in SUBSET Loops, m \in Messages : Push(ls, m),
           OthersTyped'
    PROVE  IInv'
<1>1. Duties' /\ Held' /\ todo' \in [Threads -> Seq(Ops)]
  BY DoneKeepsHeld
<1>2. \A u \in Threads \ {t} : todo'[u] = todo[u]
  BY DEF IInv, TypeOK, Done
<1>3. /\ Rested' /\ NobodySleepsOnWork'
      /\ queue' \in [Loops -> Seq(Messages)]
      /\ mode' \in [Loops -> {"busy", "asleep", "woken", "ended"}]
  BY <1>2, WorkingKeepsRest
<1>4. holder' \in [Locks -> Threads \union {Free}]
  BY DEF IInv, TypeOK
<1> QED BY <1>1, <1>3, <1>4 DEF IInv, TypeOK, OthersTyped

LEMMA StepIInv ==
    ASSUME IInv, NEW t \in Threads, Step(t), UNCHANGED events,
           ~Lock(t), ~Unlock(t), ~Poll(t)
    PROVE  IInv'
<1>1. OthersTyped
  BY DEF IInv, TypeOK, OthersTyped
<1>2. ASSUME todo[t] # <<>>
      PROVE  OpOK(t, Head(todo[t]))
  BY <1>2, HeadOK
<1>3. CASE Emit(t)
  <2>1. todo[t] # <<>> /\ Head(todo[t]).do = "emit" /\ Arg(t) \in Signals
    BY <1>2, <1>3 DEF Emit, Doing, OpOK, Arg
  <2>2. subscribers[Arg(t)] \in SUBSET Loops /\ Arg(t) \in Messages
    BY <1>1, <2>1 DEF OthersTyped, Messages
  <2>3. OthersTyped'
    BY <1>1, <1>3 DEF OthersTyped, Emit
  <2> QED BY <2>1, <2>2, <2>3, <1>3, SimpleStep DEF Emit, Waiting
<1>4. CASE Send(t)
  <2>1. todo[t] # <<>> /\ Head(todo[t]).do = "send" /\ Arg(t) \in Customs /\ t \in Loops
    BY <1>2, <1>4 DEF Send, Doing, OpOK, Arg
  <2>2. {t} \in SUBSET Loops /\ Arg(t) \in Messages
    BY <2>1 DEF Messages
  <2>3. OthersTyped'
    BY <1>1, <1>4 DEF OthersTyped, Send
  <2> QED BY <2>1, <2>2, <2>3, <1>4, SimpleStep DEF Send, Waiting
<1>5. CASE Subscribe(t)
  <2>1. todo[t] # <<>> /\ Head(todo[t]).do = "subscribe" /\ Arg(t) \in Signals /\ t \in Loops
    BY <1>2, <1>5 DEF Subscribe, Doing, OpOK, Arg
  <2>2. OthersTyped'
    BY <2>1, <1>1, <1>5 DEF OthersTyped, Subscribe
  <2> QED BY <2>1, <2>2, <1>5, SimpleStep DEF Subscribe, Waiting
<1>6. CASE Register(t)
  <2>1. todo[t] # <<>> /\ Head(todo[t]).do = "register" /\ t \in Loops
    BY <1>2, <1>6 DEF Register, Doing, OpOK
  <2>2. OthersTyped'
    BY <2>1, <1>1, <1>6 DEF OthersTyped, Register
  <2> QED BY <2>1, <2>2, <1>6, SimpleStep DEF Register, Waiting
<1>7. CASE Terminate(t)
  <2>1. todo[t] # <<>> /\ Head(todo[t]).do = "terminate"
    BY <1>7 DEF Terminate, Doing
  <2>2. registry \in SUBSET Loops /\ "Terminate" \in Messages
    BY <1>1 DEF OthersTyped, Messages
  <2>3. OthersTyped'
    BY <1>1, <1>7 DEF OthersTyped, Terminate
  <2> QED BY <2>1, <2>2, <2>3, <1>7, SimpleStep DEF Terminate, Waiting
<1>8. CASE AddSource(t)
  <2>1. todo[t] # <<>> /\ Head(todo[t]).do = "add" /\ Arg(t) \in Handlers
    BY <1>2, <1>8 DEF AddSource, Doing, OpOK, Arg
  <2>2. OthersTyped'
    BY <2>1, <1>1, <1>8 DEF OthersTyped, AddSource
  <2> QED BY <2>1, <2>2, <1>8, SimpleStep DEF AddSource, Waiting
<1>9. CASE DeleteSource(t)
  <2>1. todo[t] # <<>> /\ Head(todo[t]).do = "delete"
    BY <1>9 DEF DeleteSource, Doing
  <2>2. OthersTyped'
    BY <1>1, <1>9 DEF OthersTyped, DeleteSource
  <2> QED BY <2>1, <2>2, <1>9, SimpleStep DEF DeleteSource, Waiting
<1>10. CASE Accept(t)
  <2>1. todo[t] # <<>> /\ Head(todo[t]).do = "accept"
    BY <1>10 DEF Accept, Doing
  <2>2. OthersTyped'
    BY <1>1, <1>10 DEF OthersTyped, Accept
  <2> QED BY <2>1, <2>2, <1>10, SimpleStep DEF Accept, Waiting
<1> QED BY <1>3, <1>4, <1>5, <1>6, <1>7, <1>8, <1>9, <1>10 DEF Step

LEMMA LockIInv ==
    ASSUME IInv, NEW t \in Threads, Lock(t), UNCHANGED events
    PROVE  IInv'
<1> DEFINE s == todo[t]
           r == Tail(s)
<1>1. /\ s # <<>> /\ Head(s) = s[1] /\ s[1].do = "lock" /\ Arg(t) = "inner"
      /\ Duty(t, s) /\ Duty(t, r)
  BY HeadOK DEF Lock, Doing, OpOK, Arg
<1>2. /\ todo \in [Threads -> Seq(Ops)] /\ r \in Seq(Ops)
      /\ todo'[t] = r /\ \A u \in Threads \ {t} : todo'[u] = todo[u]
      /\ todo' \in [Threads -> Seq(Ops)]
  BY <1>1 DEF IInv, TypeOK, Lock, Done, Duty
<1>3. /\ holder' \in [Locks -> Threads \union {Free}]
      /\ holder'["inner"] = t
      /\ \A k \in DispatcherLocks : holder'[k] = holder[k]
  BY <1>1, ProgramAssumption DEF Lock, IInv, TypeOK, DispatcherLocks
<1>4. CoordinatorDuty(r)
  <2>1. Len(s) \in Nat \ {0}
    BY <1>1, HeadOK
  <2>2. DispatcherUse(s, 1 + 1)
    BY <1>1, <2>1 DEF Duty
  <2>3. Len(r) = Len(s) - 1 /\ \A i \in 1..Len(r) : r[i] = s[i + 1]
    BY <1>1, DutyTail
  <2> HIDE DEF r, s
  <2>4. r # <<>> /\ 1 \in 1..Len(r) /\ 1 + 1 \in 1..Len(r)
    BY <1>2, <2>1, <2>2, <2>3 DEF DispatcherUse
  <2>5. r[1] = s[1 + 1] /\ r[1 + 1] = s[1 + 1 + 1]
    BY <2>3, <2>4
  <2>6. DispatcherUse(r, 1)
    BY <2>1, <2>2, <2>3, <2>4, <2>5 DEF DispatcherUse
  <2> QED BY <2>4, <2>6 DEF CoordinatorDuty
<1>5. Duties'
  BY <1>1, <1>2 DEF IInv, Duties
<1>6. Held'
  <2>1. ASSUME NEW u \in Threads
        PROVE  /\ holder'["inner"] = u => CoordinatorDuty(todo'[u])
               /\ \A k \in DispatcherLocks : holder'[k] = u => HandlerDuty(k, todo'[u])
    <3>1. CASE u = t
      <4>1. \A k \in DispatcherLocks : s[1] # Op("unlock", k) /\ k \in Locks
        BY <1>1, ProgramAssumption DEF Op, OpUnder, DispatcherLocks
      <4>2. \A k \in DispatcherLocks : holder[k] = t => HandlerDuty(k, s)
        BY DEF IInv, Held
      <4>3. \A k \in DispatcherLocks : holder[k] = t => HandlerDuty(k, r)
        BY <4>1, <4>2, <1>1, TailDuties
      <4> QED BY <3>1, <4>3, <1>2, <1>3, <1>4
    <3>2. CASE u # t
      BY <3>2, <1>2, <1>3 DEF IInv, Held
    <3> QED BY <3>1, <3>2
  <2>2. holder'["dispatcher"] \in {Free, Main} /\ holder'["local"] \in {Free, "wayland"}
    BY <1>3 DEF IInv, Held, DispatcherLocks
  <2> QED BY <2>1, <2>2 DEF Held
<1>7. /\ Rested' /\ NobodySleepsOnWork'
      /\ queue' \in [Loops -> Seq(Messages)]
      /\ mode' \in [Loops -> {"busy", "asleep", "woken", "ended"}]
  BY <1>1, <1>2, WorkingKeepsRest DEF Lock
<1>8. OthersTyped'
  BY DEF IInv, TypeOK, OthersTyped, Lock
<1> QED BY <1>2, <1>3, <1>5, <1>6, <1>7, <1>8 DEF IInv, TypeOK, OthersTyped

LEMMA UnlockIInv ==
    ASSUME IInv, NEW t \in Threads, Unlock(t), UNCHANGED events
    PROVE  IInv'
<1> DEFINE s == todo[t]
           r == Tail(s)
           k0 == Arg(t)
<1>1. /\ s # <<>> /\ Head(s) = s[1] /\ s[1].do = "unlock" /\ s[1].arg = k0 /\ k0 \in Locks
      /\ Duty(t, s) /\ Duty(t, r)
  BY HeadOK DEF Unlock, Doing, OpOK, Arg
<1>2. /\ todo \in [Threads -> Seq(Ops)] /\ r \in Seq(Ops)
      /\ todo'[t] = r /\ \A u \in Threads \ {t} : todo'[u] = todo[u]
      /\ todo' \in [Threads -> Seq(Ops)]
  BY <1>1 DEF IInv, TypeOK, Unlock, Done, Duty
<1>3. /\ holder' \in [Locks -> Threads \union {Free}]
      /\ holder'[k0] = Free
      /\ \A k \in Locks \ {k0} : holder'[k] = holder[k]
  BY <1>1 DEF Unlock, IInv, TypeOK
<1>4. Free \notin Threads /\ DispatcherLocks \subseteq Locks /\ "inner" \in Locks
  BY ThreadsAssumption, ProgramAssumption DEF DispatcherLocks
<1>5. Duties'
  BY <1>1, <1>2 DEF IInv, Duties
<1>6. Held'
  <2>1. ASSUME NEW u \in Threads, holder'["inner"] = u
        PROVE  CoordinatorDuty(todo'[u])
    <3>1. k0 # "inner" /\ holder["inner"] = u
      BY <2>1, <1>3, <1>4
    <3>2. u # t
      <4>1. s[1] # Op("unlock", "inner") /\ s[1].do \notin {"add", "delete"}
        BY <3>1, <1>1 DEF Op, OpUnder
      <4>2. ~CoordinatorDuty(s)
        BY <4>1 DEF CoordinatorDuty, DispatcherUse
      <4> QED BY <4>2, <3>1 DEF IInv, Held
    <3> QED BY <3>1, <3>2, <1>2 DEF IInv, Held
  <2>2. ASSUME NEW u \in Threads, NEW k \in DispatcherLocks, holder'[k] = u
        PROVE  HandlerDuty(k, todo'[u])
    <3>1. k # k0 /\ holder[k] = u /\ HandlerDuty(k, todo[u])
      BY <2>2, <1>3, <1>4 DEF IInv, Held
    <3>2. CASE u = t
      <4>1. s[1] # Op("unlock", k)
        BY <3>1, <1>1 DEF Op, OpUnder
      <4> QED BY <4>1, <3>1, <3>2, <1>1, <1>2, <1>4, TailDuties
    <3>3. CASE u # t
      BY <3>1, <3>3, <1>2
    <3> QED BY <3>2, <3>3
  <2>3. holder'["dispatcher"] \in {Free, Main} /\ holder'["local"] \in {Free, "wayland"}
    BY <1>3, <1>4 DEF IInv, Held, DispatcherLocks
  <2> QED BY <2>1, <2>2, <2>3 DEF Held
<1>7. /\ Rested' /\ NobodySleepsOnWork'
      /\ queue' \in [Loops -> Seq(Messages)]
      /\ mode' \in [Loops -> {"busy", "asleep", "woken", "ended"}]
  BY <1>1, <1>2, WorkingKeepsRest DEF Unlock
<1>8. OthersTyped'
  BY DEF IInv, TypeOK, OthersTyped, Unlock
<1> QED BY <1>2, <1>3, <1>5, <1>6, <1>7, <1>8 DEF IInv, TypeOK, OthersTyped

NoneUnder(s) == \A i \in 1..Len(s) : s[i].under \notin DispatcherLocks

LEMMA NoneUnderConcat ==
    ASSUME NEW r \in Seq(Ops), NEW s \in Seq(Ops), NoneUnder(r), NoneUnder(s)
    PROVE  NoneUnder(r \o s)
<1> DEFINE c == r \o s
<1>1. /\ Len(c) = Len(r) + Len(s) /\ Len(r) \in Nat /\ Len(s) \in Nat
      /\ \A i \in 1..(Len(r) + Len(s)) : c[i] = IF i <= Len(r) THEN r[i] ELSE s[i - Len(r)]
  BY ConcatProperties, LenProperties
<1> HIDE DEF c
<1>2. ASSUME NEW i \in 1..Len(c)
      PROVE  c[i].under \notin DispatcherLocks
  <2>1. CASE i <= Len(r)
    BY <2>1, <1>1 DEF NoneUnder
  <2>2. CASE i > Len(r)
    <3>1. i - Len(r) \in 1..Len(s) /\ c[i] = s[i - Len(r)]
      BY <2>2, <1>1
    <3> QED BY <3>1 DEF NoneUnder
  <2> QED BY <2>1, <2>2, <1>1
<1>3. NoneUnder(c)
  BY <1>2 DEF NoneUnder
<1> QED BY <1>3 DEF c

(* What is done with an event ends with the dispatcher being unlocked.     *)
LEMMA ProcessedDuty ==
    ASSUME NEW t \in Threads, NEW k \in DispatcherLocks, NEW ops, NEW s,
           Duty(t, ops), NeverWaits(ops), NoneUnder(ops),
           s = ops \o <<Op("unlock", k)>>
    PROVE  Duty(t, s) /\ HandlerDuty(k, s)
<1> DEFINE o == Op("unlock", k)
<1>1. OpOK(t, o) /\ o \in Ops /\ o.do = "unlock" /\ o.under = Free /\ Free \notin DispatcherLocks
  BY ProgramAssumption, ThreadsAssumption
  DEF OpOK, OpUnder, Op, Ops, Args, Deeds, Free, Threads, DispatcherLocks
<1>2. Duty(t, <<o>>) /\ NeverWaits(<<o>>)
  BY <1>1, DutySingle DEF Waiting
<1>3. ops \in Seq(Ops) /\ Len(ops) \in Nat /\ s = ops \o <<o>>
  BY LenProperties DEF Duty
<1> HIDE DEF o
<1>4. Duty(t, s) /\ NeverWaits(s)
  BY <1>2, <1>3, DutyConcat
<1>5. /\ s \in Seq(Ops) /\ Len(s) = Len(ops) + 1
      /\ \A i \in 1..Len(ops) : s[i] = ops[i]
      /\ s[Len(ops) + 1] = o
  BY <1>1, <1>3, ExtendedSeq
<1>6. s # <<>> /\ s[Len(s)] = Op("unlock", k)
  BY <1>3, <1>5 DEF o
<1>7. \A i \in 1..Len(s) : s[i].under # k
  <2>1. \A i \in 1..Len(s) : i \in 1..Len(ops) \/ i = Len(ops) + 1
    BY <1>3, <1>5
  <2> QED BY <2>1, <1>1, <1>3, <1>5 DEF NoneUnder
<1> QED BY <1>4, <1>6, <1>7 DEF HandlerDuty

LEMMA ProcessIInv ==
    ASSUME IInv, NEW t \in Threads, Doing(t, "process"),
           Process(t, Arg(t), HandlerOps(Arg(t)), {"display"}), UNCHANGED events
    PROVE  IInv'
<1> DEFINE h == Arg(t)
           k == DispatcherOf(h)
           ops == IF h \in handlers THEN HandlerOps(h) ELSE <<>>
           del == IF h \in ready THEN <<>> ELSE <<Op("delete", h)>>
           both == ops \o del
           s == both \o <<Op("unlock", k)>>
<1>1. /\ todo[t] # <<>> /\ Head(todo[t]).do = "process" /\ h \in Handlers
      /\ k \in DispatcherLocks /\ Head(todo[t]).under = k /\ holder[k] = Free
      /\ k = "dispatcher" => t = Main
      /\ k = "local" => t = "wayland"
  <2>1. todo[t] # <<>> /\ Head(todo[t]).do = "process" /\ OpOK(t, Head(todo[t]))
    BY HeadOK DEF Doing
  <2>2. k \in DispatcherLocks /\ k \in Locks
    BY ProgramAssumption DEF DispatcherOf, DispatcherLocks
  <2>3. h \in Handlers /\ Head(todo[t]).under = k
    BY <2>1 DEF OpOK, Arg
  <2>4. holder[k] = Free
    BY <2>2, <2>3 DEF Doing
  <2> QED BY <2>1, <2>2, <2>3, <2>4 DEF OpOK
<1>2. HoldsNothing(t)
  BY <1>1, IdleHoldsNothing DEF Waiting
<1>3. Tail(todo[t]) = <<>>
  <2>1. /\ Len(todo[t]) \in Nat \ {0} /\ todo[t][1].do \in Waiting
        /\ Duty(t, todo[t])
    BY <1>1, HeadOK DEF Waiting
  <2>2. 1 = Len(todo[t])
    <3>1. \A i \in 1..Len(todo[t]) : todo[t][i].do \in Waiting => i = Len(todo[t])
      BY <2>1 DEF Duty
    <3>2. 1 \in 1..Len(todo[t])
      BY <2>1
    <3> QED BY <2>1, <3>1, <3>2, Zenon
  <2>3. Len(Tail(todo[t])) = 0 /\ Tail(todo[t]) \in Seq(Ops)
    <3>1. Len(Tail(todo[t])) = Len(todo[t]) - 1 /\ Duty(t, Tail(todo[t]))
      BY <1>1, <2>1, DutyTail
    <3> QED BY <2>2, <3>1 DEF Duty
  <2> QED BY <2>3, EmptySeq
<1>4. Duty(t, ops) /\ NeverWaits(ops) /\ NoneUnder(ops)
  <2>1. h = "display" => t \in Loops
    BY <1>1, ProgramAssumption DEF DispatcherOf, Loops
  <2>2. CASE h \in handlers
    BY <2>1, <2>2, <1>1, HandlerOpsDuty DEF NoneUnder
  <2>3. CASE h \notin handlers
    BY <2>3, DutyEmpty DEF NoneUnder
  <2> QED BY <2>2, <2>3
<1>5. Duty(t, del) /\ NeverWaits(del) /\ NoneUnder(del)
  <2>1. CASE h \in ready
    BY <2>1, DutyEmpty DEF NoneUnder
  <2>2. CASE h \notin ready
    <3> DEFINE o == Op("delete", h)
    <3>1. OpOK(t, o) /\ o.do = "delete" /\ o.under \notin DispatcherLocks
      BY <1>1, ProgramAssumption, ThreadsAssumption
      DEF OpOK, OpUnder, Op, Ops, Args, Deeds, Free, Threads, DispatcherLocks
    <3>2. del = <<o>>
      BY <2>2
    <3> HIDE DEF o, del
    <3> QED BY <3>1, <3>2, DutySingle DEF NoneUnder, Waiting
  <2> QED BY <2>1, <2>2
<1>6. todo' = [todo EXCEPT ![t] = s \o Tail(todo[t])]
  BY DEF Process, DoneThen
<1> HIDE DEF ops, del
<1>7. Duty(t, both) /\ NeverWaits(both) /\ NoneUnder(both)
  BY <1>4, <1>5, DutyConcat, NoneUnderConcat DEF Duty
<1> HIDE DEF both
<1>8. Duty(t, s) /\ HandlerDuty(k, s)
  BY <1>1, <1>7, ProcessedDuty
<1>9. s \o Tail(todo[t]) = s
  BY <1>3, <1>8, ConcatEmptySeq DEF Duty
<1> HIDE DEF s
<1>10. /\ todo \in [Threads -> Seq(Ops)] /\ s \in Seq(Ops)
       /\ todo'[t] = s /\ \A u \in Threads \ {t} : todo'[u] = todo[u]
       /\ todo' \in [Threads -> Seq(Ops)]
  BY <1>6, <1>8, <1>9 DEF IInv, TypeOK, Duty
<1>11. Duties'
  BY <1>8, <1>10 DEF IInv, Duties
<1>12. /\ holder' \in [Locks -> Threads \union {Free}]
       /\ holder'[k] = t
       /\ \A j \in Locks \ {k} : holder'[j] = holder[j]
  BY <1>1, ProgramAssumption DEF Process, IInv, TypeOK, DispatcherLocks
<1> HIDE DEF k, h
<1>13. Held'
  <2>1. /\ "inner" \in Locks \ DispatcherLocks /\ DispatcherLocks \subseteq Locks
    BY ProgramAssumption DEF DispatcherLocks
  <2>2. ASSUME NEW u \in Threads, holder'["inner"] = u
        PROVE  CoordinatorDuty(todo'[u])
    <3>1. holder["inner"] = u /\ u # t
      BY <2>1, <2>2, <1>1, <1>2, <1>12 DEF HoldsNothing
    <3> QED BY <3>1, <1>10 DEF IInv, Held
  <2>3. ASSUME NEW u \in Threads, NEW j \in DispatcherLocks, holder'[j] = u
        PROVE  HandlerDuty(j, todo'[u])
    <3>1. CASE j = k
      BY <3>1, <2>3, <1>8, <1>10, <1>12
    <3>2. CASE j # k
      <4>1. holder[j] = u /\ u # t
        BY <3>2, <2>1, <2>3, <1>2, <1>12 DEF HoldsNothing
      <4> QED BY <4>1, <1>10 DEF IInv, Held
    <3> QED BY <3>1, <3>2
  <2>4. holder'["dispatcher"] \in {Free, Main} /\ holder'["local"] \in {Free, "wayland"}
    BY <1>1, <1>12, <2>1 DEF IInv, Held, DispatcherLocks
  <2> QED BY <2>2, <2>3, <2>4 DEF Held
<1>14. /\ Rested' /\ NobodySleepsOnWork'
       /\ queue' \in [Loops -> Seq(Messages)]
       /\ mode' \in [Loops -> {"busy", "asleep", "woken", "ended"}]
  BY <1>1, <1>10, WorkingKeepsRest DEF Process
<1>15. OthersTyped'
  BY DEF IInv, TypeOK, OthersTyped, Process
<1> QED BY <1>10, <1>11, <1>12, <1>13, <1>14, <1>15 DEF IInv, TypeOK, OthersTyped

LEMMA EventDuty ==
    ASSUME NEW t \in Threads, NEW h \in Handlers,
           DispatcherOf(h) = "dispatcher" => t = Main,
           DispatcherOf(h) = "local" => t = "wayland"
    PROVE  Duty(t, EventOps(h))
<1> DEFINE o == OpUnder(DispatcherOf(h), "process", h)
<1>1. OpOK(t, o) /\ o.do = "process"
  BY ProgramAssumption, ThreadsAssumption
  DEF OpOK, OpUnder, Ops, Args, Deeds, Free, Threads, DispatcherOf
<1> HIDE DEF o
<1>2. Duty(t, <<o>>)
  BY <1>1, DutySingle
<1> QED BY <1>2 DEF EventOps, o

(* A thread without locks is given something to do, and who rests was and  *)
(* stays without.                                                          *)
LEMMA AssignedIInv ==
    ASSUME IInv, NEW t \in Threads, NEW s, Assigned(t, s), Duty(t, s), HoldsNothing(t),
           UNCHANGED holder, OthersTyped',
           queue' \in [Loops -> Seq(Messages)],
           mode' \in [Loops -> {"busy", "asleep", "woken", "ended"}],
           \A l \in Loops \ {t} : mode'[l] = mode[l] /\ queue'[l] = queue[l],
           t \in Loops => mode'[t] \notin {"asleep", "woken"}
    PROVE  IInv'
<1>1. Duties' /\ Held' /\ todo' \in [Threads -> Seq(Ops)]
  BY AssignedKeepsHeld
<1>2. \A u \in Threads \ {t} : todo'[u] = todo[u]
  BY DEF Assigned, IInv, TypeOK
<1>3. Rested' /\ NobodySleepsOnWork'
  <2>1. \A l \in Loops : mode'[l] \in {"asleep", "woken"} =>
            l \in Threads \ {t} /\ mode'[l] = mode[l] /\ queue'[l] = queue[l]
    BY DEF Threads
  <2> QED BY <2>1, <1>2 DEF IInv, Rested, NobodySleepsOnWork
<1>4. holder' \in [Locks -> Threads \union {Free}]
  BY DEF IInv, TypeOK
<1> QED BY <1>1, <1>3, <1>4 DEF IInv, TypeOK, OthersTyped

LEMMA PollIInv ==
    ASSUME IInv, NEW t \in Threads, Poll(t), UNCHANGED events
    PROVE  IInv'
<1>1. /\ todo[t] # <<>> /\ Head(todo[t]).do = "poll" /\ OpOK(t, Head(todo[t]))
      /\ todo[t][1].do \in Waiting /\ Duty(t, todo[t]) /\ Duty(t, Tail(todo[t]))
      /\ Len(todo[t]) \in Nat \ {0}
  BY HeadOK DEF Poll, Doing, Waiting
<1>2. HoldsNothing(t) /\ t = "wayland" /\ t \in Loops
  BY <1>1, IdleHoldsNothing, ProgramAssumption DEF Waiting, OpOK, Loops
<1>3. Tail(todo[t]) = <<>>
  <2>1. 1 = Len(todo[t])
    <3>1. \A i \in 1..Len(todo[t]) : todo[t][i].do \in Waiting => i = Len(todo[t])
      BY <1>1 DEF Duty
    <3>2. 1 \in 1..Len(todo[t])
      BY <1>1
    <3> QED BY <1>1, <3>1, <3>2, Zenon
  <2>2. Len(Tail(todo[t])) = 0 /\ Tail(todo[t]) \in Seq(Ops)
    <3>1. Len(Tail(todo[t])) = Len(todo[t]) - 1 /\ Duty(t, Tail(todo[t]))
      BY <1>1, DutyTail
    <3> QED BY <2>1, <3>1 DEF Duty
  <2> QED BY <2>2, EmptySeq
<1>4. \E s : Assigned(t, s) /\ Duty(t, s)
  <2>1. ASSUME NEW h \in Handlers, DispatcherOf(h) = "local", DoneThen(t, EventOps(h))
        PROVE  \E s : Assigned(t, s) /\ Duty(t, s)
    <3>1. Duty(t, EventOps(h))
      BY <2>1, <1>2, EventDuty
    <3>2. EventOps(h) \o Tail(todo[t]) = EventOps(h)
      BY <1>3, <3>1, ConcatEmptySeq DEF Duty
    <3>3. Assigned(t, EventOps(h))
      BY <2>1, <3>2 DEF DoneThen, Assigned
    <3> QED BY <3>1, <3>3
  <2>2. ASSUME Done(t)
        PROVE  \E s : Assigned(t, s) /\ Duty(t, s)
    BY <2>2, <1>1 DEF Done, Assigned
  <2> QED BY <2>1, <2>2 DEF Poll
<1>5. mode[t] \notin {"asleep", "woken"}
  BY <1>1, <1>2 DEF IInv, Rested
<1>6. OthersTyped'
  BY DEF IInv, TypeOK, OthersTyped, Poll
<1>7. UNCHANGED <<holder, queue, mode>>
  BY DEF Poll, UnchangedQueues
<1> QED BY <1>2, <1>4, <1>5, <1>6, <1>7, AssignedIInv DEF IInv, TypeOK

LEMMA ThreadStepIInv ==
    ASSUME IInv, NEW t \in Threads, ThreadStep(t)
    PROVE  IInv'
BY LockIInv, UnlockIInv, PollIInv, StepIInv, ProcessIInv DEF ThreadStep

LEMMA MainStepIInv ==
    ASSUME IInv, MainStep
    PROVE  IInv'
<1>1. Main \in Threads /\ Main \notin Loops
  BY ThreadsAssumption DEF Threads
<1>2. CASE Run
  <2>1. todo[Main] # <<>> /\ Head(todo[Main]).do = "run"
    BY <1>2 DEF Run, Doing
  <2>2. OthersTyped'
    BY <1>2 DEF IInv, TypeOK, OthersTyped, Run, MainStep
  <2> QED BY <1>1, <1>2, <2>1, <2>2, SimpleStep DEF Run, Waiting
<1>3. ASSUME NEW h \in Handlers, WaitAndProcess(h)
      PROVE  IInv'
  <2>1. todo[Main] = <<>> /\ DispatcherOf(h) = "dispatcher" /\ Assigned(Main, EventOps(h))
    BY <1>3 DEF WaitAndProcess, Assigned
  <2>2. HoldsNothing(Main) /\ Duty(Main, EventOps(h))
    BY <1>1, <2>1, IdleHoldsNothing, EventDuty
  <2>3. OthersTyped' /\ UNCHANGED <<holder, queue, mode>>
    BY <1>3 DEF IInv, TypeOK, OthersTyped, WaitAndProcess, MainStep, UnchangedQueues
  <2> QED BY <1>1, <2>1, <2>2, <2>3, AssignedIInv DEF IInv, TypeOK
<1> QED BY <1>2, <1>3 DEF MainStep

(* A loop takes a message, goes to sleep, or wakes up.                     *)
LEMMA ReceiveIInv ==
    ASSUME IInv, NEW l \in Loops, Receive(l)
    PROVE  IInv'
<1>1. /\ l \in Threads /\ queue \in [Loops -> Seq(Messages)]
      /\ mode \in [Loops -> {"busy", "asleep", "woken", "ended"}]
  BY DEF IInv, TypeOK, Threads
<1>2. Duty(l, Next_(l)) /\ Duty(l, <<>>)
  <2>1. Duty(l, <<Op("poll", l)>>) \/ l \notin Services
    <3>1. l = "wayland" => OpOK(l, Op("poll", l)) /\ Op("poll", l).do = "poll"
      BY <1>1, ProgramAssumption, ThreadsAssumption
      DEF OpOK, OpUnder, Op, Ops, Args, Deeds, Free, Threads
    <3> QED BY <3>1, DutySingle, ProgramAssumption
  <2> QED BY <2>1, DutyEmpty DEF Next_
<1>3. ASSUME queue[l] # <<>>, NEW r \in Reaction(l, Head(queue[l])), Take(l, r),
             UNCHANGED events
      PROVE  IInv'
  <2>1. Duty(l, r \o Next_(l))
    BY <1>2, ReactionDuty, DutyConcat
  <2>2. HoldsNothing(l)
    BY <1>1, <1>3, IdleHoldsNothing DEF Take
  <2>3. PICK s \in {<<>>, r \o Next_(l)} : Assigned(l, s)
    BY <1>3 DEF Take, Assigned
  <2>4. Duty(l, s)
    BY <1>2, <2>1, <2>3
  <2>5. /\ queue' \in [Loops -> Seq(Messages)]
        /\ \A k \in Loops \ {l} : queue'[k] = queue[k]
    <3>1. Tail(queue[l]) \in Seq(Messages)
      BY <1>1, <1>3, HeadTailProperties
    <3> QED BY <1>1, <1>3, <3>1 DEF Take
  <2>6. /\ mode' \in [Loops -> {"busy", "asleep", "woken", "ended"}]
        /\ mode'[l] \in {"busy", "ended"}
        /\ \A k \in Loops \ {l} : mode'[k] = mode[k]
    BY <1>1, <1>3 DEF Take
  <2>7. OthersTyped' /\ UNCHANGED holder
    BY <1>3 DEF IInv, TypeOK, OthersTyped, Take
  <2> QED BY <1>1, <2>2, <2>3, <2>4, <2>5, <2>6, <2>7, AssignedIInv
<1>4. CASE Sleep(l) /\ UNCHANGED events
  <2>1. /\ mode' \in [Loops -> {"busy", "asleep", "woken", "ended"}]
        /\ todo[l] = <<>> /\ queue[l] = <<>>
        /\ \A k \in Loops \ {l} : mode'[k] = mode[k]
        /\ UNCHANGED <<queue, todo, subscribers, registry, holder, handlers, ready, hungup, run>>
    BY <1>1, <1>4 DEF Sleep
  <2>2. TypeOK' /\ Duties' /\ Held'
    BY <1>4, <2>1 DEF IInv, TypeOK, Duties, Held
  <2>3. Rested' /\ NobodySleepsOnWork'
    BY <2>1 DEF IInv, Rested, NobodySleepsOnWork
  <2> QED BY <2>2, <2>3 DEF IInv
<1>5. CASE Fail(l) /\ UNCHANGED events
  <2>1. /\ mode' \in [Loops -> {"busy", "asleep", "woken", "ended"}] /\ mode'[l] = "ended"
        /\ \A k \in Loops \ {l} : mode'[k] = mode[k]
        /\ UNCHANGED <<queue, todo, subscribers, registry, holder, handlers, ready, hungup, run>>
    BY <1>1, <1>5 DEF Fail
  <2>2. TypeOK' /\ Duties' /\ Held'
    BY <1>5, <2>1 DEF IInv, TypeOK, Duties, Held
  <2>3. Rested' /\ NobodySleepsOnWork'
    BY <2>1 DEF IInv, Rested, NobodySleepsOnWork
  <2> QED BY <2>2, <2>3 DEF IInv
<1>6. CASE TimeOut(l) /\ UNCHANGED events
  <2>1. HoldsNothing(l)
    BY <1>1, <1>6, IdleHoldsNothing DEF TimeOut, IInv, Rested
  <2>2. Assigned(l, Next_(l)) /\ UNCHANGED <<queue, holder>>
    BY <1>6 DEF TimeOut, Assigned
  <2>3. /\ mode' \in [Loops -> {"busy", "asleep", "woken", "ended"}] /\ mode'[l] = "busy"
        /\ \A k \in Loops \ {l} : mode'[k] = mode[k]
    BY <1>1, <1>6 DEF TimeOut
  <2>4. OthersTyped'
    BY <1>6 DEF IInv, TypeOK, OthersTyped, TimeOut
  <2> QED BY <1>1, <1>2, <2>1, <2>2, <2>3, <2>4, AssignedIInv
<1> QED BY <1>3, <1>4, <1>5, <1>6 DEF Receive

LEMMA SpuriousIInv ==
    ASSUME IInv, NEW l \in Loops, Spurious(l)
    PROVE  IInv'
<1>1. mode \in [Loops -> {"busy", "asleep", "woken", "ended"}] /\ events \in 0..MaxEvents
  BY DEF IInv, TypeOK
<1>2. /\ mode' \in [Loops -> {"busy", "asleep", "woken", "ended"}]
      /\ mode[l] = "asleep" /\ mode'[l] = "woken"
      /\ \A k \in Loops \ {l} : mode'[k] = mode[k]
      /\ UNCHANGED <<queue, todo, subscribers, registry, holder, handlers, ready, hungup, run>>
  BY <1>1 DEF Spurious, WakeSpuriously
<1>3. events' \in 0..MaxEvents
  BY <1>1, ProgramAssumption DEF Spurious
<1>4. TypeOK' /\ Duties' /\ Held'
  BY <1>2, <1>3 DEF IInv, TypeOK, Duties, Held
<1>5. Rested' /\ NobodySleepsOnWork'
  BY <1>2 DEF IInv, Rested, NobodySleepsOnWork
<1> QED BY <1>4, <1>5 DEF IInv

(* What happens outside changes nothing that threads look at but           *)
(* descriptors.                                                            *)
LEMMA OutsideIInv ==
    ASSUME IInv, Unplug \/ \E h \in Handlers : Outside(h)
    PROVE  IInv'
<1>1. /\ ready' \subseteq Handlers /\ hungup' \subseteq Handlers
      /\ UNCHANGED <<queue, mode, todo, subscribers, registry, holder, handlers, run>>
  BY ProgramAssumption DEF IInv, TypeOK, Unplug, Outside
<1>2. events' \in 0..MaxEvents
  <2>1. events \in 0..MaxEvents /\ MaxEvents \in Nat
    BY ProgramAssumption DEF IInv, TypeOK
  <2>2. events' = events \/ (events < MaxEvents /\ events' = events + 1)
    BY DEF Unplug, Outside
  <2> QED BY <2>1, <2>2
<1>3. TypeOK' /\ Duties' /\ Held'
  BY <1>1, <1>2 DEF IInv, TypeOK, Duties, Held
<1>4. Rested' /\ NobodySleepsOnWork'
  BY <1>1 DEF IInv, Rested, NobodySleepsOnWork
<1> QED BY <1>3, <1>4 DEF IInv

LEMMA NextIInv == IInv /\ [Next]_program => IInv'
<1> SUFFICES ASSUME IInv, [Next]_program PROVE IInv'
  OBVIOUS
<1>1. CASE \E t \in Threads : ThreadStep(t)
  BY <1>1, ThreadStepIInv
<1>2. CASE MainStep
  BY <1>2, MainStepIInv
<1>3. CASE \E l \in Loops : Receive(l) \/ Spurious(l)
  BY <1>3, ReceiveIInv, SpuriousIInv
<1>4. CASE (\E h \in Handlers : Outside(h)) \/ Unplug
  BY <1>4, OutsideIInv
<1>5. CASE UNCHANGED program
  BY <1>5 DEF program, IInv, TypeOK, Duties, Held, Rested, NobodySleepsOnWork
<1> QED BY <1>1, <1>2, <1>3, <1>4, <1>5 DEF Next

THEOREM Invariant == Spec => []IInv
<1>1. Spec => Init /\ [][Next]_program
  BY DEF Spec
<1> QED BY <1>1, InitIInv, NextIInv, PTL

(* Every thread always has operations of the right kind to do, however     *)
(* many events come from outside.                                          *)
THEOREM Typing == Spec => []TypeOK
<1>1. IInv => TypeOK
  BY DEF IInv
<1> QED BY <1>1, Invariant, PTL

(* push pushes and then notifies, receive looks at the queue and then      *)
(* waits, both with the queue locked: no wakeup is ever lost, spurious     *)
(* ones included.                                                          *)
THEOREM NoLostWakeup == Spec => []NobodySleepsOnWork
<1>1. IInv => NobodySleepsOnWork
  BY DEF IInv
<1> QED BY <1>1, Invariant, PTL

(* Who waits for whom follows from what the holder of a lock still has to  *)
(* do: who holds the coordinator's lock waits for the dispatcher's only,   *)
(* and that is held by main only, in a handler.                            *)
LEMMA CyclesOfIInv == IInv => OnlyHandlersDeadlock
<1> SUFFICES ASSUME IInv PROVE OnlyHandlersDeadlock
  OBVIOUS
<1>1. ASSUME NEW t \in Threads, NEW u \in Threads, WaitsFor(t, u)
      PROVE  \/ /\ Head(todo[t]).under = "inner" /\ holder["inner"] = u
                /\ CoordinatorDuty(todo[u]) /\ Head(todo[u]) = todo[u][1]
             \/ /\ Head(todo[t]).under = "dispatcher" /\ holder["dispatcher"] = u /\ u = Main
                /\ t # u
             \/ /\ Head(todo[t]).under = "local" /\ t = "wayland" /\ u = "wayland"
                /\ t # u
  <2>1. /\ OpOK(t, Head(todo[t])) /\ Head(todo[t]) = todo[t][1]
        /\ Len(todo[t]) \in Nat \ {0}
        /\ holder[Head(todo[t]).under] = u /\ Head(todo[t]).under \in Locks
    <3>1. OpOK(t, Head(todo[t])) /\ Head(todo[t]) = todo[t][1] /\ Len(todo[t]) \in Nat \ {0}
      BY <1>1, HeadOK DEF WaitsFor
    <3>2. Head(todo[t]).under \in Locks \union {Free}
      BY <3>1 DEF OpOK, Ops
    <3> QED BY <1>1, <3>1, <3>2 DEF WaitsFor
  <2>2. CASE Head(todo[t]).under = "inner"
    <3>1. holder["inner"] = u /\ CoordinatorDuty(todo[u])
      BY <2>1, <2>2 DEF IInv, Held
    <3>2. Head(todo[u]) = todo[u][1]
      BY <3>1, HeadOK DEF CoordinatorDuty
    <3> QED BY <2>2, <3>1, <3>2
  <2>3. ASSUME NEW k \in DispatcherLocks, Head(todo[t]).under = k
        PROVE  t # u /\ holder[k] = u
    <3>1. holder[k] = u /\ HandlerDuty(k, todo[u])
      BY <2>1, <2>3 DEF IInv, Held
    <3>2. 1 \in 1..Len(todo[t])
      BY <2>1
    <3>3. ~HandlerDuty(k, todo[t])
      BY <2>1, <2>3, <3>2 DEF HandlerDuty
    <3> QED BY <3>1, <3>3
  <2>4. CASE Head(todo[t]).under = "dispatcher"
    <3>1. u = Main
      BY <2>3, <2>4, ThreadsAssumption DEF IInv, Held, DispatcherLocks
    <3> QED BY <2>3, <2>4, <3>1 DEF DispatcherLocks
  <2>5. CASE Head(todo[t]).under = "local"
    <3>1. u = "wayland"
      BY <2>3, <2>5, ThreadsAssumption DEF IInv, Held, DispatcherLocks
    <3>2. t = "wayland"
      BY <2>1, <2>5 DEF OpOK
    <3> QED BY <2>3, <2>5, <3>1, <3>2 DEF DispatcherLocks
  <2> QED BY <2>1, <2>2, <2>4, <2>5, ProgramAssumption
<1>2. ASSUME NEW t \in Threads, NEW u \in Threads, WaitsFor(t, u),
             Head(todo[t]).under = "inner"
      PROVE  /\ Head(todo[u]).under \in {Free, "dispatcher"}
             /\ Head(todo[u]).under = "dispatcher" => Head(todo[u]).do \in {"add", "delete"}
  <2>1. CoordinatorDuty(todo[u]) /\ Head(todo[u]) = todo[u][1]
    BY <1>1, <1>2
  <2>2. CASE todo[u][1] = Op("unlock", "inner")
    <3>1. Head(todo[u]).under = Free
      BY <2>1, <2>2 DEF Op, OpUnder
    <3> QED BY <3>1 DEF Free
  <2>3. CASE DispatcherUse(todo[u], 1)
    BY <2>1, <2>3 DEF DispatcherUse
  <2> QED BY <2>1, <2>2, <2>3 DEF CoordinatorDuty
<1>3. ASSUME NEW t \in Threads, WaitsFor(t, t)
      PROVE  FALSE
  <2>1. Head(todo[t]).under = "inner"
    BY <1>1, <1>3
  <2> QED BY <1>2, <1>3, <2>1 DEF Free
<1>4. ASSUME NEW t \in Threads, NEW u \in Threads, WaitsFor(t, u), WaitsFor(u, t)
      PROVE  \E a, b \in {t, u} :
                a = Main /\ Head(todo[a]).under = "inner" /\ Head(todo[b]).do \in {"add", "delete"}
  <2>1. t # u /\ Head(todo[t]).under # Free /\ Head(todo[u]).under # Free
    BY <1>3, <1>4 DEF WaitsFor
  <2>2. CASE Head(todo[t]).under = "inner"
    <3>1. Head(todo[u]).under = "dispatcher" /\ Head(todo[u]).do \in {"add", "delete"}
      BY <1>2, <1>4, <2>1, <2>2
    <3>2. t = Main
      BY <1>1, <1>4, <3>1
    <3> QED BY <2>2, <3>1, <3>2
  <2>3. CASE Head(todo[u]).under = "inner"
    <3>1. Head(todo[t]).under = "dispatcher" /\ Head(todo[t]).do \in {"add", "delete"}
      BY <1>2, <1>4, <2>1, <2>3
    <3>2. u = Main
      BY <1>1, <1>4, <3>1
    <3> QED BY <2>3, <3>1, <3>2
  <2>4. CASE Head(todo[t]).under # "inner" /\ Head(todo[u]).under # "inner"
    BY <1>1, <1>4, <2>1, <2>4
  <2> QED BY <2>2, <2>3, <2>4
<1> QED BY <1>3, <1>4 DEF OnlyHandlersDeadlock

(* The lock order of the coordinator and the dispatcher is violated by     *)
(* handlers that call the coordinator, and nowhere else, however many      *)
(* events come from outside.                                               *)
THEOREM LockOrder == Spec => []OnlyHandlersDeadlock
BY Invariant, CyclesOfIInv, PTL
================================================================================
