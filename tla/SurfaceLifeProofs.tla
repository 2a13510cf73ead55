--------------------------- MODULE SurfaceLifeProofs ---------------------------
(***************************************************************************)
(* Proofs about the life of surfaces, for any number of surfaces and any   *)
(* length of the signal queue.                                             *)
(***************************************************************************)
EXTENDS SurfaceLife, TLAPS

(* Relations only name IDs that were given out: without this a surface     *)
(* could be created into a relation that was there before it.              *)
RelationsKnown ==
    \A s \in Stored :
        surfaces[s].parent \in Known \union {Invalid} /\ surfaces[s].satellites \subseteq Known

(* The relations are those of before.                                      *)
SameRelations ==
    /\ Stored' = Stored /\ lastSurface' = lastSurface
    /\ \A t \in Stored : /\ surfaces'[t].parent = surfaces[t].parent
                         /\ surfaces'[t].satellites = surfaces[t].satellites

(* Requests that leave the relations alone.                                *)
ContentRequest(s) ==
    \/ Attach(s) \/ Commit(s)
    \/ ShowSurface(s, "in_shell") \/ HideSurface(s, "in_shell")
    \/ DetachSurface(s)

LEMMA EmitTyped ==
    ASSUME NEW kind \in {"ready", "destroyed"}, NEW s \in Known, TypeOK,
           Emit(kind, s), lastSurface' = lastSurface
    PROVE  signals' \in Seq(Signal) /\ \A i \in DOMAIN signals' : signals'[i].sid \in Known'
<1> DEFINE e == [kind |-> kind, sid |-> s]
<1>1. e \in Signal /\ e.sid = s
  BY BoundsAssumption DEF TypeOK, Signal, Known, Sids
<1>2. signals' = Append(signals, e) /\ signals \in Seq(Signal) /\ Known' = Known
  BY DEF Emit, TypeOK, Known
<1>3. signals' \in Seq(Signal)
  BY <1>1, <1>2
<1>4. ASSUME NEW i \in DOMAIN signals' PROVE signals'[i].sid \in Known
  <2>1. i \in 1..(Len(signals) + 1)
    BY <1>1, <1>2
  <2>2. CASE i = Len(signals) + 1
    BY <1>1, <1>2, <2>2
  <2>3. CASE i \in 1..Len(signals)
    BY <1>1, <1>2, <2>3 DEF TypeOK
  <2> QED BY <2>1, <2>2, <2>3, <1>2
<1> QED BY <1>2, <1>3, <1>4

(* Replacing one stored surface by another record keeps the map typed.     *)
LEMMA UpdateTyped ==
    ASSUME TypeOK, NEW s \in Stored, NEW surface \in Surface, Update(s, surface),
           lastSurface' = lastSurface
    PROVE  /\ Stored' = Stored /\ Known' = Known
           /\ surfaces' \in [Stored -> Surface]
           /\ surfaces'[s] = surface
           /\ \A t \in Stored : t # s => surfaces'[t] = surfaces[t]
<1>1. surfaces \in [Stored -> Surface] /\ s \in DOMAIN surfaces
  BY DEF TypeOK, Stored
<1> QED BY <1>1 DEF Update, Stored, Known

(* Showing adds reasons only; it signals when the last one was missing.    *)
LEMMA ShowEffect ==
    ASSUME TypeOK, NEW s \in Stored, NEW surface \in Surface, NEW reason \in Reasons,
           ShowAs(s, surface, reason)
    PROVE  /\ Update(s, Shown(surface, reason)) /\ Shown(surface, reason) \in Surface
           /\ lastSurface' = lastSurface
           /\ Shown(surface, reason).parent = surface.parent
           /\ Shown(surface, reason).satellites = surface.satellites
           /\ surface.reasons \subseteq Shown(surface, reason).reasons
           /\ "in_shell" \in Shown(surface, reason).reasons =>
                "in_shell" \in surface.reasons \/ surface.parent = Invalid
           /\ \/ Emit("ready", s) /\ Shown(surface, reason).reasons = Ready
              \/ UNCHANGED signals /\ (Shown(surface, reason).reasons = Ready => surface.reasons = Ready)
<1>1. CASE reason = "in_shell" /\ surface.parent # Invalid
  BY <1>1 DEF ShowAs, Shown
<1>2. CASE ~(reason = "in_shell" /\ surface.parent # Invalid)
  <2>1. Shown(surface, reason) = [surface EXCEPT !.reasons = surface.reasons \union {reason}]
    BY <1>2 DEF Shown
  <2>2. /\ Shown(surface, reason) \in Surface
        /\ Shown(surface, reason).parent = surface.parent
        /\ Shown(surface, reason).satellites = surface.satellites
        /\ Shown(surface, reason).reasons = surface.reasons \union {reason}
        /\ surface.reasons \subseteq Reasons
    BY <2>1 DEF Surface, Reasons
  <2>3. surface.reasons = Ready => Shown(surface, reason).reasons = Ready
    BY <2>2 DEF Ready
  <2>4. "in_shell" \in Shown(surface, reason).reasons =>
                "in_shell" \in surface.reasons \/ surface.parent = Invalid
    BY <1>2, <2>2
  <2> QED BY <2>2, <2>3, <2>4 DEF ShowAs
<1> QED BY <1>1, <1>2

(* What a request about s that is not about relations may do.              *)
ContentStep(s) ==
    /\ SameRelations /\ Known' = Known
    /\ surfaces' \in [Stored -> Surface]
    /\ \A t \in Stored : t # s => surfaces'[t].reasons = surfaces[t].reasons
    /\ s \in Stored => ("in_shell" \in surfaces'[s].reasons =>
                            "in_shell" \in surfaces[s].reasons \/ surfaces[s].parent = Invalid)
    /\ \/ /\ UNCHANGED signals
          /\ s \in Stored => (surfaces[s].reasons = Ready => surfaces'[s].reasons = Ready)
       \/ Emit("ready", s) /\ s \in Stored /\ surfaces'[s].reasons = Ready
       \/ Emit("destroyed", s)

LEMMA ShowStep ==
    ASSUME TypeOK, NEW s \in Stored, NEW surface \in Surface, NEW reason \in Reasons,
           surface.parent = surfaces[s].parent, surface.satellites = surfaces[s].satellites,
           surface.reasons = surfaces[s].reasons,
           ShowAs(s, surface, reason)
    PROVE  ContentStep(s)
<1> DEFINE shown == Shown(surface, reason)
<1>1. /\ Update(s, shown) /\ shown \in Surface /\ lastSurface' = lastSurface
      /\ shown.parent = surface.parent /\ shown.satellites = surface.satellites
      /\ "in_shell" \in shown.reasons => "in_shell" \in surface.reasons \/ surface.parent = Invalid
      /\ \/ Emit("ready", s) /\ shown.reasons = Ready
         \/ UNCHANGED signals
      /\ surface.reasons \subseteq shown.reasons
  BY ShowEffect
<1> HIDE DEF shown
<1>2. surface.reasons = Ready => shown.reasons = Ready
  BY <1>1 DEF Ready, Surface
<1>3. /\ Stored' = Stored /\ Known' = Known /\ surfaces' \in [Stored -> Surface]
      /\ surfaces'[s] = shown
      /\ \A t \in Stored : t # s => surfaces'[t] = surfaces[t]
  BY <1>1, UpdateTyped
<1> QED BY <1>1, <1>2, <1>3 DEF ContentStep, SameRelations

LEMMA ContentEffect ==
    ASSUME TypeOK, NEW s \in Known, ContentRequest(s)
    PROVE  ContentStep(s)
<1>1. surfaces \in [Stored -> Surface]
  BY DEF TypeOK
<1>2. CASE Attach(s)
  <2> DEFINE surface == [surfaces[s] EXCEPT !.pending = TRUE]
  <2>1. /\ s \in Stored /\ Update(s, surface)
        /\ lastSurface' = lastSurface /\ signals' = signals
    BY <1>2 DEF Attach
  <2>2. /\ surface \in Surface /\ surface.reasons = surfaces[s].reasons
        /\ surface.parent = surfaces[s].parent /\ surface.satellites = surfaces[s].satellites
    BY <1>1, <2>1 DEF Surface
  <2> HIDE DEF surface
  <2>3. /\ Stored' = Stored /\ Known' = Known /\ surfaces' \in [Stored -> Surface]
        /\ surfaces'[s] = surface
        /\ \A t \in Stored : t # s => surfaces'[t] = surfaces[t]
    BY <2>1, <2>2, UpdateTyped
  <2> QED BY <2>1, <2>2, <2>3 DEF ContentStep, SameRelations
<1>3. CASE Commit(s)
  <2> DEFINE surface == [surfaces[s] EXCEPT !.buffer = surfaces[s].pending]
  <2>1. s \in Stored
    BY <1>3 DEF Commit
  <2>2. /\ surface \in Surface /\ surface.reasons = surfaces[s].reasons
        /\ surface.parent = surfaces[s].parent /\ surface.satellites = surfaces[s].satellites
    BY <1>1, <2>1 DEF Surface
  <2>3. \/ Update(s, surface) /\ lastSurface' = lastSurface /\ signals' = signals
        \/ ShowAs(s, surface, "drawable")
    BY <1>3 DEF Commit
  <2> HIDE DEF surface
  <2>4. CASE Update(s, surface) /\ lastSurface' = lastSurface /\ signals' = signals
    <3>1. /\ Stored' = Stored /\ Known' = Known /\ surfaces' \in [Stored -> Surface]
          /\ surfaces'[s] = surface
          /\ \A t \in Stored : t # s => surfaces'[t] = surfaces[t]
      BY <2>1, <2>2, <2>4, UpdateTyped
    <3> QED BY <2>1, <2>2, <2>4, <3>1 DEF ContentStep, SameRelations
  <2>5. CASE ShowAs(s, surface, "drawable")
    <3>1. "drawable" \in Reasons
      BY DEF Reasons
    <3> QED BY <2>1, <2>2, <2>5, <3>1, ShowStep
  <2> QED BY <2>3, <2>4, <2>5
<1>4. CASE ShowSurface(s, "in_shell")
  <2>1. "in_shell" \in Reasons /\ s \in Stored /\ surfaces[s] \in Surface
    BY <1>1, <1>4 DEF Reasons, ShowSurface
  <2> QED BY <1>4, <2>1, ShowStep DEF ShowSurface
<1>5. CASE HideSurface(s, "in_shell")
  <2> DEFINE surface == [surfaces[s] EXCEPT !.reasons = surfaces[s].reasons \ {"in_shell"}]
  <2>1. /\ s \in Stored /\ Update(s, surface) /\ lastSurface' = lastSurface
        /\ \/ Emit("destroyed", s)
           \/ signals' = signals /\ (surfaces[s].reasons = Ready => surface.reasons = Ready)
    <3>1. surfaces[s].reasons \ {"in_shell"} # Ready
      BY DEF Ready, Reasons
    <3> QED BY <1>5, <3>1 DEF HideSurface
  <2>2. /\ surface \in Surface /\ "in_shell" \notin surface.reasons
        /\ surface.parent = surfaces[s].parent /\ surface.satellites = surfaces[s].satellites
    BY <1>1, <2>1 DEF Surface
  <2> HIDE DEF surface
  <2>3. /\ Stored' = Stored /\ Known' = Known /\ surfaces' \in [Stored -> Surface]
        /\ surfaces'[s] = surface
        /\ \A t \in Stored : t # s => surfaces'[t] = surfaces[t]
    BY <2>1, <2>2, UpdateTyped
  <2> QED BY <2>1, <2>2, <2>3 DEF ContentStep, SameRelations
<1>6. CASE DetachSurface(s)
  BY <1>1, <1>6 DEF DetachSurface, ContentStep, SameRelations, Stored, Known
<1> QED BY <1>2, <1>3, <1>4, <1>5, <1>6 DEF ContentRequest

(* Relating and unrelating exchange parents and satellites; of the reasons *)
(* only in_shell may go.                                                   *)
Related(s, p) ==
    /\ s \in Stored /\ Stored' = Stored /\ Known' = Known
    /\ lastSurface' = lastSurface /\ signals' = signals
    /\ surfaces' \in [Stored -> Surface]
    /\ \A t \in Stored :
        /\ surfaces'[t].parent = IF t = s THEN p ELSE surfaces[t].parent
        /\ surfaces'[t].satellites = IF t = p THEN surfaces[t].satellites \union {s}
                                      ELSE surfaces[t].satellites
        /\ surfaces'[t].reasons = IF t = s THEN surfaces[t].reasons \ {"in_shell"}
                                   ELSE surfaces[t].reasons

LEMMA RelateEffect ==
    ASSUME TypeOK, NEW s \in Known, NEW p \in Known, RelateSurfaces(s, p)
    PROVE  Related(s, p)
<1>1. surfaces \in [Stored -> Surface] /\ s \in Sids /\ p \in Sids
  BY BoundsAssumption DEF TypeOK, Known, Sids
<1>2. /\ s \in Stored /\ lastSurface' = lastSurface /\ signals' = signals
  BY DEF RelateSurfaces, Relation
<1> DEFINE related(t) ==
        LET surface ==
                IF t = s THEN [surfaces[s] EXCEPT !.parent = p, !.reasons = @ \ {"in_shell"}]
                ELSE surfaces[t]
        IN  IF t = p THEN AddSatellite(surface, s) ELSE surface
<1>3. surfaces' = [t \in Stored |-> related(t)]
  BY DEF RelateSurfaces, Relation
<1>4. ASSUME NEW t \in Stored
      PROVE  /\ related(t) \in Surface
             /\ related(t).parent = IF t = s THEN p ELSE surfaces[t].parent
             /\ related(t).satellites = IF t = p THEN surfaces[t].satellites \union {s}
                                         ELSE surfaces[t].satellites
             /\ related(t).reasons = IF t = s THEN surfaces[t].reasons \ {"in_shell"}
                                      ELSE surfaces[t].reasons
  <2> DEFINE surface ==
                IF t = s THEN [surfaces[s] EXCEPT !.parent = p, !.reasons = @ \ {"in_shell"}]
                ELSE surfaces[t]
  <2>1. /\ surface \in Surface
        /\ surface.parent = IF t = s THEN p ELSE surfaces[t].parent
        /\ surface.satellites = surfaces[t].satellites
        /\ surface.reasons = IF t = s THEN surfaces[t].reasons \ {"in_shell"}
                              ELSE surfaces[t].reasons
    BY <1>1 DEF Surface
  <2>2. related(t) = IF t = p THEN AddSatellite(surface, s) ELSE surface
    OBVIOUS
  <2> HIDE DEF surface
  <2> QED BY <1>1, <2>1, <2>2 DEF Surface, AddSatellite
<1> HIDE DEF related
<1>5. Stored' = Stored /\ Known' = Known
  BY <1>2, <1>3 DEF Stored, Known
<1> QED BY <1>2, <1>3, <1>4, <1>5 DEF Related

LEMMA UnrelateEffect ==
    ASSUME TypeOK, NEW s \in Known, UnrelateSurface(s)
    PROVE  /\ s \in Stored /\ Stored' = Stored /\ Known' = Known
           /\ lastSurface' = lastSurface /\ signals' = signals
           /\ surfaces' \in [Stored -> Surface]
           /\ \A t \in Stored :
                /\ surfaces'[t].parent = IF t = s THEN Invalid ELSE surfaces[t].parent
                /\ surfaces'[t].satellites =
                        IF t = surfaces[s].parent THEN surfaces[t].satellites \ {s}
                        ELSE surfaces[t].satellites
                /\ surfaces'[t].reasons = surfaces[t].reasons
<1>1. surfaces \in [Stored -> Surface]
  BY DEF TypeOK
<1>2. s \in Stored /\ lastSurface' = lastSurface /\ signals' = signals
  BY DEF UnrelateSurface, Unrelated
<1> DEFINE unrelated(t) ==
        LET surface == IF t = s THEN [surfaces[t] EXCEPT !.parent = Invalid] ELSE surfaces[t]
        IN  IF t = surfaces[s].parent THEN [surface EXCEPT !.satellites = @ \ {s}] ELSE surface
<1>3. surfaces' = [t \in Stored |-> unrelated(t)]
  BY DEF UnrelateSurface, Unrelated
<1>4. ASSUME NEW t \in Stored
      PROVE  /\ unrelated(t) \in Surface
             /\ unrelated(t).parent = IF t = s THEN Invalid ELSE surfaces[t].parent
             /\ unrelated(t).satellites =
                        IF t = surfaces[s].parent THEN surfaces[t].satellites \ {s}
                        ELSE surfaces[t].satellites
             /\ unrelated(t).reasons = surfaces[t].reasons
  BY <1>1 DEF Surface
<1> HIDE DEF unrelated
<1>5. Stored' = Stored /\ Known' = Known
  BY <1>2, <1>3 DEF Stored, Known
<1> QED BY <1>2, <1>3, <1>4, <1>5

LEMMA CreateEffect ==
    ASSUME TypeOK, CreateSurface
    PROVE  LET s == lastSurface + 1
           IN  /\ s \in Sids /\ s \notin Known /\ Known' = Known \union {s}
               /\ lastSurface' = s /\ lastSurface' \in 0..MaxSurfaces /\ signals' = signals
               /\ Stored' = Stored \union {s}
               /\ surfaces' \in [Stored' -> Surface]
               /\ surfaces'[s] = NewSurface(s)
               /\ \A t \in Stored : surfaces'[t] = surfaces[t]
<1> DEFINE s == lastSurface + 1
<1>1. surfaces \in [Stored -> Surface] /\ Stored \subseteq Known /\ lastSurface \in Nat
  BY DEF TypeOK
<1>2. s \in Sids /\ lastSurface' = s /\ signals' = signals
  BY DEF CreateSurface
<1>3. s \notin Known /\ Known' = Known \union {s} /\ lastSurface' \in 0..MaxSurfaces
  BY <1>1, <1>2, BoundsAssumption DEF Known, Sids
<1>4. surfaces' = [t \in Stored \union {s} |-> IF t = s THEN NewSurface(s) ELSE surfaces[t]]
  BY DEF CreateSurface
<1>5. NewSurface(s) \in Surface
  BY <1>2 DEF NewSurface, Surface
<1> HIDE DEF s
<1>6. Stored' = Stored \union {s} /\ surfaces' \in [Stored' -> Surface]
  BY <1>1, <1>4, <1>5 DEF Stored
<1>7. surfaces'[s] = NewSurface(s) /\ \A t \in Stored : surfaces'[t] = surfaces[t]
  BY <1>1, <1>3, <1>4
<1> QED BY <1>2, <1>3, <1>6, <1>7 DEF s

LEMMA DestroyEffect ==
    ASSUME TypeOK, NEW s \in Known, DestroySurface(s)
    PROVE  /\ Stored' = Stored \ {s} /\ Known' = Known /\ lastSurface' = lastSurface
           /\ Emit("destroyed", s)
           /\ surfaces' \in [Stored' -> Surface]
           /\ \A t \in Stored' : surfaces'[t] = surfaces[t]
  BY DEF DestroySurface, TypeOK, Stored, Known

(* Receiving a signal takes the first one off the queue.                   *)
LEMMA DeliverEffect ==
    ASSUME TypeOK, Deliver
    PROVE  /\ surfaces' = surfaces /\ lastSurface' = lastSurface
           /\ Stored' = Stored /\ Known' = Known
           /\ signals # <<>> /\ 1 \in DOMAIN signals /\ signals[1] = Received
           /\ Received \in Signal /\ Received.sid \in Known
           /\ signals' \in Seq(Signal)
           /\ DOMAIN signals' = 1..(Len(signals) - 1) /\ Len(signals) \in Nat
           /\ \A i \in DOMAIN signals' : i + 1 \in DOMAIN signals /\ signals'[i] = signals[i + 1]
<1>1. signals \in Seq(Signal) /\ signals # <<>> /\ signals' = Tail(signals)
  BY DEF TypeOK, Deliver
<1>2. 1 \in DOMAIN signals /\ signals[1] = Received
  BY <1>1 DEF Received
<1>3. Received \in Signal /\ Received.sid \in Known
  BY <1>1, <1>2 DEF TypeOK
<1>4. /\ signals' \in Seq(Signal) /\ Len(signals) \in Nat
      /\ DOMAIN signals' = 1..(Len(signals) - 1)
      /\ \A i \in DOMAIN signals' : i + 1 \in DOMAIN signals /\ signals'[i] = signals[i + 1]
  BY <1>1
<1> QED BY <1>1, <1>2, <1>3, <1>4 DEF Deliver, Stored, Known

(* Emitting puts a signal behind those that wait.                          *)
LEMMA EmitEffect ==
    ASSUME TypeOK, NEW kind, NEW s, Emit(kind, s)
    PROVE  /\ Len(signals) \in Nat /\ DOMAIN signals = 1..Len(signals)
           /\ DOMAIN signals' = 1..(Len(signals) + 1)
           /\ signals'[Len(signals) + 1] = [kind |-> kind, sid |-> s]
           /\ \A i \in DOMAIN signals : signals'[i] = signals[i]
<1> DEFINE e == [kind |-> kind, sid |-> s]
<1>1. signals \in Seq(Signal) /\ signals' = Append(signals, e)
  BY DEF TypeOK, Emit
<1> HIDE DEF e
<1>2. signals \in Seq(Signal \union {e}) /\ signals' \in Seq(Signal \union {e})
  BY <1>1
<1> QED BY <1>1, <1>2 DEF e

-----------------------------------------------------------------------------
(* Types.                                                                  *)
LEMMA TypeInit == Init => TypeOK
<1> SUFFICES ASSUME Init PROVE TypeOK
  OBVIOUS
<1>1. surfaces = <<>> /\ lastSurface = 0 /\ signals = <<>> /\ managed = {}
  BY DEF Init, SurfaceInit
<1>2. Stored = {} /\ surfaces \in [Stored -> Surface]
  BY <1>1 DEF Stored
<1>3. signals \in Seq(Signal) /\ DOMAIN signals = {}
  BY <1>1
<1> QED BY <1>1, <1>2, <1>3, BoundsAssumption DEF TypeOK

LEMMA TypeStep == TypeOK /\ [Next]_life => TypeOK'
<1> SUFFICES ASSUME TypeOK, [Next]_life PROVE TypeOK'
  OBVIOUS
<1> USE DEF TypeOK
<1>1. CASE CreateSurface /\ UNCHANGED managed
  <2> DEFINE s == lastSurface + 1
  <2>1. /\ Known' = Known \union {s} /\ lastSurface' \in 0..MaxSurfaces
        /\ signals' = signals /\ Stored' = Stored \union {s} /\ surfaces' \in [Stored' -> Surface]
    BY <1>1, CreateEffect
  <2> QED BY <1>1, <2>1
<1>2. ASSUME NEW s \in Known, ContentRequest(s), UNCHANGED managed PROVE TypeOK'
  <2>1. ContentStep(s)
    BY <1>2, ContentEffect
  <2>2. signals' \in Seq(Signal) /\ \A i \in DOMAIN signals' : signals'[i].sid \in Known'
    <3>1. CASE UNCHANGED signals
      BY <2>1, <3>1 DEF ContentStep
    <3>2. ASSUME NEW kind \in {"ready", "destroyed"}, Emit(kind, s)
          PROVE signals' \in Seq(Signal) /\ \A i \in DOMAIN signals' : signals'[i].sid \in Known'
      BY <2>1, <3>2, EmitTyped DEF ContentStep, SameRelations
    <3> QED BY <2>1, <3>1, <3>2 DEF ContentStep
  <2> QED BY <1>2, <2>1, <2>2 DEF ContentStep, SameRelations
<1>3. ASSUME NEW s \in Known, DestroySurface(s), UNCHANGED managed PROVE TypeOK'
  <2>1. /\ Stored' = Stored \ {s} /\ Known' = Known /\ lastSurface' = lastSurface
        /\ Emit("destroyed", s) /\ surfaces' \in [Stored' -> Surface]
    BY <1>3, DestroyEffect
  <2>2. signals' \in Seq(Signal) /\ \A i \in DOMAIN signals' : signals'[i].sid \in Known'
    BY <2>1, EmitTyped
  <2> QED BY <1>3, <2>1, <2>2
<1>4. ASSUME NEW s \in Known, UnrelateSurface(s), UNCHANGED managed PROVE TypeOK'
  <2>1. /\ Stored' = Stored /\ Known' = Known /\ lastSurface' = lastSurface /\ signals' = signals
        /\ surfaces' \in [Stored -> Surface]
    BY <1>4, UnrelateEffect
  <2> QED BY <1>4, <2>1
<1>5. ASSUME NEW s \in Known, NEW p \in Known, RelateSurfaces(s, p), UNCHANGED managed
      PROVE TypeOK'
  <2>1. /\ Stored' = Stored /\ Known' = Known /\ lastSurface' = lastSurface /\ signals' = signals
        /\ surfaces' \in [Stored -> Surface]
    BY <1>5, RelateEffect DEF Related
  <2> QED BY <1>5, <2>1
<1>6. CASE Deliver
  <2>1. /\ surfaces' = surfaces /\ lastSurface' = lastSurface /\ Stored' = Stored /\ Known' = Known
        /\ Received.sid \in Known /\ signals' \in Seq(Signal)
        /\ \A i \in DOMAIN signals' : i + 1 \in DOMAIN signals /\ signals'[i] = signals[i + 1]
    BY <1>6, DeliverEffect
  <2>2. managed' \subseteq Known
    BY <1>6, <2>1 DEF Deliver
  <2> QED BY <2>1, <2>2
<1>7. CASE UNCHANGED life
  BY <1>7 DEF life, Stored, Known
<1> QED BY <1>1, <1>2, <1>3, <1>4, <1>5, <1>6, <1>7 DEF Next, Request, ContentRequest

-----------------------------------------------------------------------------
(* Relations and the shell, whatever clients do.                           *)
RelationInv ==
    TypeOK /\ RelationsKnown /\ ParentsDrawSatellites /\ NoSatelliteInShell

LEMMA RelationInit == Init => RelationInv
<1> SUFFICES ASSUME Init PROVE RelationInv
  OBVIOUS
<1>1. Stored = {}
  BY DEF Init, SurfaceInit, Stored
<1> QED BY <1>1, TypeInit DEF RelationInv, RelationsKnown, ParentsDrawSatellites, NoSatelliteInShell

LEMMA RelationStep == RelationInv /\ [Next]_life => RelationInv'
<1> SUFFICES ASSUME RelationInv, [Next]_life PROVE RelationInv'
  OBVIOUS
<1>0. TypeOK /\ TypeOK' /\ RelationsKnown /\ ParentsDrawSatellites /\ NoSatelliteInShell
  BY TypeStep DEF RelationInv
<1> DEFINE Goal == RelationsKnown' /\ ParentsDrawSatellites' /\ NoSatelliteInShell'
<1>1. ASSUME CreateSurface PROVE Goal
  <2> DEFINE s == lastSurface + 1
  <2>1. /\ s \in Sids /\ s \notin Known /\ Known' = Known \union {s}
        /\ Stored' = Stored \union {s} /\ surfaces'[s] = NewSurface(s)
        /\ \A t \in Stored : surfaces'[t] = surfaces[t]
    BY <1>0, <1>1, CreateEffect
  <2> HIDE DEF s
  <2>2. /\ surfaces'[s].parent = Invalid /\ surfaces'[s].satellites = {s}
        /\ surfaces'[s].reasons = {}
    BY <2>1 DEF NewSurface
  <2>3. Invalid \notin Known /\ Invalid # s /\ Stored \subseteq Known
    BY <1>0, <2>1 DEF TypeOK, Known, Sids, Invalid
  <2>4. RelationsKnown'
    BY <1>0, <2>1, <2>2 DEF RelationsKnown
  <2>5. ParentsDrawSatellites'
    BY <1>0, <2>1, <2>2, <2>3 DEF RelationsKnown, ParentsDrawSatellites
  <2>6. NoSatelliteInShell'
    BY <1>0, <2>1, <2>2 DEF NoSatelliteInShell
  <2> QED BY <2>4, <2>5, <2>6
<1>2. ASSUME NEW s \in Known, ContentRequest(s) PROVE Goal
  <2>1. ContentStep(s)
    BY <1>0, <1>2, ContentEffect
  <2> QED BY <1>0, <2>1 DEF ContentStep, SameRelations, RelationsKnown, ParentsDrawSatellites,
                            NoSatelliteInShell
<1>3. ASSUME NEW s \in Known, DestroySurface(s) PROVE Goal
  <2>1. /\ Stored' = Stored \ {s} /\ Known' = Known
        /\ \A t \in Stored' : surfaces'[t] = surfaces[t]
    BY <1>0, <1>3, DestroyEffect
  <2> QED BY <1>0, <2>1 DEF RelationsKnown, ParentsDrawSatellites, NoSatelliteInShell
<1>4. ASSUME NEW s \in Known, UnrelateSurface(s) PROVE Goal
  <2>1. /\ s \in Stored /\ Stored' = Stored /\ Known' = Known
        /\ \A t \in Stored :
                /\ surfaces'[t].parent = IF t = s THEN Invalid ELSE surfaces[t].parent
                /\ surfaces'[t].satellites =
                        IF t = surfaces[s].parent THEN surfaces[t].satellites \ {s}
                        ELSE surfaces[t].satellites
                /\ surfaces'[t].reasons = surfaces[t].reasons
    BY <1>0, <1>4, UnrelateEffect
  <2>2. Invalid \notin Stored
    BY <1>0 DEF TypeOK, Known, Invalid
  <2>3. ParentsDrawSatellites'
    BY <1>0, <2>1, <2>2 DEF ParentsDrawSatellites
  <2> QED BY <1>0, <2>1, <2>3 DEF RelationsKnown, NoSatelliteInShell
<1>5. ASSUME NEW s \in Known, NEW p \in Known, RelateSurfaces(s, p) PROVE Goal
  <2>1. /\ s \in Stored /\ Stored' = Stored /\ Known' = Known
        /\ \A t \in Stored :
                /\ surfaces'[t].parent = IF t = s THEN p ELSE surfaces[t].parent
                /\ surfaces'[t].satellites = IF t = p THEN surfaces[t].satellites \union {s}
                                              ELSE surfaces[t].satellites
                /\ surfaces'[t].reasons = IF t = s THEN surfaces[t].reasons \ {"in_shell"}
                                           ELSE surfaces[t].reasons
    BY <1>0, <1>5, RelateEffect DEF Related
  <2>2. RelationsKnown'
    <3>1. ASSUME NEW t \in Stored
          PROVE  surfaces'[t].parent \in Known \union {Invalid}
      BY <1>0, <1>5, <2>1, <3>1 DEF RelationsKnown
    <3>2. ASSUME NEW t \in Stored
          PROVE  surfaces'[t].satellites \subseteq Known
      <4>1. surfaces[t].satellites \subseteq Known
        BY <1>0 DEF RelationsKnown
      <4>2. CASE t = p
        BY <2>1, <4>1, <4>2
      <4>3. CASE t # p
        BY <2>1, <4>1, <4>3
      <4> QED BY <4>2, <4>3
    <3> QED BY <2>1, <3>1, <3>2 DEF RelationsKnown
  <2>3. ParentsDrawSatellites'
    BY <1>0, <1>5, <2>1 DEF ParentsDrawSatellites
  <2>4. NoSatelliteInShell'
    BY <1>0, <1>5, <2>1 DEF NoSatelliteInShell
  <2> QED BY <2>2, <2>3, <2>4
<1>6. ASSUME Deliver PROVE Goal
  <2>1. surfaces' = surfaces /\ Stored' = Stored /\ Known' = Known
    BY <1>0, <1>6, DeliverEffect
  <2> QED BY <1>0, <2>1 DEF RelationsKnown, ParentsDrawSatellites, NoSatelliteInShell
<1>7. ASSUME UNCHANGED life PROVE Goal
  <2>1. surfaces' = surfaces /\ Stored' = Stored /\ Known' = Known
    BY <1>7 DEF life, Stored, Known
  <2> QED BY <1>0, <2>1 DEF RelationsKnown, ParentsDrawSatellites, NoSatelliteInShell
<1>8. Goal
  <2> HIDE DEF Goal
  <2> QED BY <1>1, <1>2, <1>3, <1>4, <1>5, <1>6, <1>7 DEF Next, Request, ContentRequest
<1> QED BY <1>0, <1>8 DEF RelationInv

(* A stored parent always draws its satellite, and no satellite is in the  *)
(* shell, whatever clients ask for in whatever order.                      *)
THEOREM RelationsSound ==
    Spec => [](TypeOK /\ ParentsDrawSatellites /\ NoSatelliteInShell)
<1>1. RelationInv => TypeOK /\ ParentsDrawSatellites /\ NoSatelliteInShell
  BY DEF RelationInv
<1> QED BY <1>1, RelationInit, RelationStep, PTL DEF Spec

(* Surfaces and signals keep their types: relations name surfaces only,    *)
(* IDs are never given out twice, whatever clients ask for.                *)
THEOREM TypesKept == Spec => []TypeOK
<1>1. RelationInv => TypeOK
  BY DEF RelationInv
<1> QED BY <1>1, RelationInit, RelationStep, PTL DEF Spec

(* A surface that is drawn with a stored parent is never a window of its   *)
(* own, whatever clients ask for in whatever order.                        *)
THEOREM SatellitesNoWindows == Spec => []NoSatelliteInShell
<1>1. RelationInv => NoSatelliteInShell
  BY DEF RelationInv
<1> QED BY <1>1, RelationInit, RelationStep, PTL DEF Spec

-----------------------------------------------------------------------------
(* Ghosts.                                                                 *)
LEMMA GhostStep == TypeOK /\ NoGhost /\ [Next]_life => NoGhost'
<1> SUFFICES ASSUME TypeOK, NoGhost, [Next]_life,
                    NEW t \in managed' \ Stored'
             PROVE  \E i \in DOMAIN signals' : signals'[i] = [kind |-> "destroyed", sid |-> t]
  BY DEF NoGhost
<1> DEFINE Gone == [kind |-> "destroyed", sid |-> t]
           Queued == \E i \in DOMAIN signals : signals[i] = Gone
           Goal == \E i \in DOMAIN signals' : signals'[i] = Gone
<1>1. ASSUME Queued, NEW kind, NEW s, Emit(kind, s) PROVE Goal
  <2>1. PICK i \in DOMAIN signals : signals[i] = Gone
    BY <1>1
  <2>2. /\ Len(signals) \in Nat /\ DOMAIN signals = 1..Len(signals)
        /\ DOMAIN signals' = 1..(Len(signals) + 1) /\ signals'[i] = signals[i]
    BY <1>1, <2>1, EmitEffect
  <2>3. i \in DOMAIN signals'
    BY <2>1, <2>2
  <2> QED BY <2>1, <2>2, <2>3
<1>2. ASSUME t \in managed, Stored \subseteq Stored', signals' = signals PROVE Goal
  BY <1>2 DEF NoGhost
<1>3. CASE CreateSurface /\ UNCHANGED managed
  BY <1>2, <1>3, CreateEffect
<1>4. ASSUME NEW s \in Known, ContentRequest(s), UNCHANGED managed PROVE Goal
  <2>1. ContentStep(s)
    BY <1>4, ContentEffect
  <2>2. Queued /\ Stored' = Stored
    BY <1>4, <2>1 DEF NoGhost, ContentStep, SameRelations
  <2> QED BY <1>1, <2>1, <2>2 DEF ContentStep
<1>5. ASSUME NEW s \in Known, DestroySurface(s), UNCHANGED managed PROVE Goal
  <2>1. Stored' = Stored \ {s} /\ Emit("destroyed", s)
    BY <1>5, DestroyEffect
  <2>2. CASE t = s
    <3>1. /\ Len(signals) + 1 \in DOMAIN signals'
          /\ signals'[Len(signals) + 1] = [kind |-> "destroyed", sid |-> s]
      BY <2>1, EmitEffect
    <3> QED BY <2>2, <3>1
  <2>3. CASE t # s
    <3>1. Queued
      BY <1>5, <2>1, <2>3 DEF NoGhost
    <3> QED BY <1>1, <2>1, <3>1
  <2> QED BY <2>2, <2>3
<1>6. ASSUME NEW s \in Known, UnrelateSurface(s), UNCHANGED managed PROVE Goal
  BY <1>2, <1>6, UnrelateEffect
<1>7. ASSUME NEW s \in Known, NEW p \in Known, RelateSurfaces(s, p), UNCHANGED managed PROVE Goal
  BY <1>2, <1>7, RelateEffect DEF Related
<1>8. CASE Deliver
  <2>1. /\ Stored' = Stored /\ signals[1] = Received /\ Len(signals) \in Nat
        /\ DOMAIN signals' = 1..(Len(signals) - 1)
        /\ \A i \in DOMAIN signals' : signals'[i] = signals[i + 1]
    BY <1>8, DeliverEffect
  <2>2. t \in managed /\ Received # Gone
    <3>1. t \notin Stored
      BY <2>1
    <3> QED BY <1>8, <3>1 DEF Deliver
  <2>3. PICK i \in DOMAIN signals : signals[i] = Gone
    BY <2>1, <2>2 DEF NoGhost
  <2>4. i - 1 \in DOMAIN signals' /\ (i - 1) + 1 = i
    <3>1. DOMAIN signals = 1..Len(signals)
      BY DEF TypeOK
    <3> QED BY <2>1, <2>2, <2>3, <3>1
  <2> QED BY <2>1, <2>3, <2>4
<1>9. CASE UNCHANGED life
  BY <1>2, <1>9 DEF life, Stored
<1> QED BY <1>3, <1>4, <1>5, <1>6, <1>7, <1>8, <1>9 DEF Next, Request, ContentRequest

(* Whatever the order in which clients destroy surfaces and the exhibitor  *)
(* receives signals, a frame without a surface is about to be removed.     *)
THEOREM NoGhosts == Spec => []NoGhost
<1>1. Init => NoGhost
  BY DEF Init, NoGhost
<1>2. TypeOK /\ [Next]_life => TypeOK'
  BY TypeStep
<1> QED BY <1>1, <1>2, TypeInit, GhostStep, PTL DEF Spec

-----------------------------------------------------------------------------
(* Careful clients.                                                        *)
LEMMA CarefulIsNext == [CarefulNext]_life => [Next]_life
  BY DEF CarefulNext, Next, CarefulRelate

(* A surface that is its own parent would take itself out of its drawing.  *)
CarefulInv ==
    /\ RelationInv /\ DrawnWithParentOnly
    /\ \A s \in Stored : surfaces[s].parent # s

(* The relation of the parents, seen from the other side.                  *)
LEMMA CarefulStep == CarefulInv /\ [CarefulNext]_life => CarefulInv'
<1> SUFFICES ASSUME CarefulInv, [CarefulNext]_life PROVE CarefulInv'
  OBVIOUS
<1>0. /\ TypeOK /\ RelationInv /\ RelationsKnown /\ ParentsDrawSatellites /\ DrawnWithParentOnly
      /\ RelationInv' /\ \A s \in Stored : surfaces[s].parent # s
  BY CarefulIsNext, RelationStep DEF CarefulInv, RelationInv
<1> DEFINE Goal == DrawnWithParentOnly' /\ \A s \in Stored' : surfaces'[s].parent # s
<1>1. ASSUME CreateSurface PROVE Goal
  <2> DEFINE s == lastSurface + 1
  <2>1. /\ s \in Sids /\ s \notin Known
        /\ Stored' = Stored \union {s} /\ surfaces'[s] = NewSurface(s)
        /\ \A t \in Stored : surfaces'[t] = surfaces[t]
    BY <1>0, <1>1, CreateEffect
  <2> HIDE DEF s
  <2>2. surfaces'[s].parent = Invalid /\ surfaces'[s].satellites = {s} /\ Invalid # s
    BY <2>1 DEF NewSurface, Sids, Invalid
  <2>3. DrawnWithParentOnly'
    <3>1. ASSUME NEW x \in Stored' PROVE x \in surfaces'[x].satellites
      BY <1>0, <2>1, <2>2, <3>1 DEF DrawnWithParentOnly
    <3>2. ASSUME NEW x \in Stored', NEW t \in DrawnWith(x)' PROVE surfaces'[t].parent = x
      <4>1. t \in surfaces'[x].satellites /\ t \in Stored' /\ t # x
        BY <3>2 DEF DrawnWith
      <4>2. x \in Stored
        BY <2>1, <2>2, <4>1
      <4>3. t \in DrawnWith(x)
        BY <1>0, <2>1, <4>1, <4>2 DEF DrawnWith, RelationsKnown
      <4>4. t \in Stored /\ surfaces[t].parent = x
        BY <1>0, <4>2, <4>3 DEF DrawnWithParentOnly, DrawnWith
      <4> QED BY <2>1, <4>4
    <3> QED BY <3>1, <3>2 DEF DrawnWithParentOnly
  <2>4. \A t \in Stored' : surfaces'[t].parent # t
    BY <1>0, <2>1, <2>2
  <2> QED BY <2>3, <2>4
<1>2. ASSUME SameRelations PROVE Goal
  BY <1>0, <1>2 DEF SameRelations, DrawnWithParentOnly, DrawnWith
<1>3. ASSUME NEW s \in Known, ContentRequest(s) PROVE Goal
  <2>1. SameRelations
    BY <1>0, <1>3, ContentEffect DEF ContentStep
  <2> QED BY <1>2, <2>1
<1>4. ASSUME NEW s \in Known, DestroySurface(s) PROVE Goal
  <2>1. Stored' = Stored \ {s} /\ \A t \in Stored' : surfaces'[t] = surfaces[t]
    BY <1>0, <1>4, DestroyEffect
  <2> QED BY <1>0, <2>1 DEF DrawnWithParentOnly, DrawnWith
<1>5. ASSUME NEW s \in Known, UnrelateSurface(s) PROVE Goal
  <2>1. /\ s \in Stored /\ Stored' = Stored
        /\ \A t \in Stored :
                /\ surfaces'[t].parent = IF t = s THEN Invalid ELSE surfaces[t].parent
                /\ surfaces'[t].satellites =
                        IF t = surfaces[s].parent THEN surfaces[t].satellites \ {s}
                        ELSE surfaces[t].satellites
    BY <1>0, <1>5, UnrelateEffect
  <2>2. Invalid \notin Stored
    BY <1>0 DEF TypeOK, Known, Invalid
  <2>3. ASSUME NEW x \in Stored PROVE x \in surfaces'[x].satellites
    BY <1>0, <2>1, <2>3 DEF DrawnWithParentOnly
  <2>4. ASSUME NEW x \in Stored, NEW t \in DrawnWith(x)' PROVE surfaces'[t].parent = x
    <3>1. t \in surfaces'[x].satellites /\ t \in Stored /\ t # x
      BY <2>1, <2>4 DEF DrawnWith
    <3>2. t \in DrawnWith(x)
      BY <2>1, <3>1 DEF DrawnWith
    <3>3. surfaces[t].parent = x
      BY <1>0, <3>2 DEF DrawnWithParentOnly
    <3>4. t # s
      BY <2>1, <3>1, <3>3
    <3> QED BY <2>1, <3>1, <3>3, <3>4
  <2>5. DrawnWithParentOnly'
    BY <2>1, <2>3, <2>4 DEF DrawnWithParentOnly
  <2> QED BY <1>0, <2>1, <2>2, <2>5
<1>6. ASSUME NEW s \in Known, NEW p \in Known, CarefulRelate(s, p) PROVE Goal
  <2>1. /\ s \in Stored /\ Stored' = Stored
        /\ \A t \in Stored :
                /\ surfaces'[t].parent = IF t = s THEN p ELSE surfaces[t].parent
                /\ surfaces'[t].satellites = IF t = p THEN surfaces[t].satellites \union {s}
                                              ELSE surfaces[t].satellites
    <3>1. RelateSurfaces(s, p)
      BY <1>6 DEF CarefulRelate
    <3>2. Related(s, p)
      BY <1>0, <3>1, RelateEffect
    <3> QED BY <3>2 DEF Related
  <2>2. surfaces[s].parent \notin Stored /\ s # p
    BY <1>6 DEF CarefulRelate, NotAbove
  <2>3. ASSUME NEW x \in Stored PROVE x \in surfaces'[x].satellites
    BY <1>0, <2>1, <2>3 DEF DrawnWithParentOnly
  <2>4. ASSUME NEW x \in Stored, NEW t \in DrawnWith(x)' PROVE surfaces'[t].parent = x
    <3>1. t \in surfaces'[x].satellites /\ t \in Stored /\ t # x
      BY <2>1, <2>4 DEF DrawnWith
    <3>2. CASE t \in surfaces[x].satellites
      <4>1. surfaces[t].parent = x
        BY <1>0, <3>1, <3>2 DEF DrawnWithParentOnly, DrawnWith
      <4>2. t # s
        BY <2>2, <4>1
      <4> QED BY <2>1, <3>1, <4>1, <4>2
    <3>3. CASE t \notin surfaces[x].satellites
      <4>1. t = s /\ x = p
        BY <2>1, <3>1, <3>3
      <4> QED BY <2>1, <4>1
    <3> QED BY <3>2, <3>3
  <2>5. DrawnWithParentOnly'
    BY <2>1, <2>3, <2>4 DEF DrawnWithParentOnly
  <2> QED BY <1>0, <2>1, <2>2, <2>5
<1>7. ASSUME UNCHANGED surfaces PROVE Goal
  BY <1>0, <1>7 DEF Stored, DrawnWithParentOnly, DrawnWith
<1>8. Goal
  <2> HIDE DEF Goal
  <2> QED BY <1>1, <1>3, <1>4, <1>5, <1>6, <1>7
          DEF CarefulNext, Request, ContentRequest, Deliver, life
<1> QED BY <1>0, <1>8 DEF CarefulInv

(* Used carefully, a surface is drawn as part of itself and of its parent  *)
(* only.                                                                   *)
THEOREM DrawnOnce == CarefulSpec => []DrawnWithParentOnly
<1>1. Init => CarefulInv
  <2> SUFFICES ASSUME Init PROVE CarefulInv
    OBVIOUS
  <2>1. Stored = {}
    BY DEF Init, SurfaceInit, Stored
  <2> QED BY <2>1, RelationInit DEF CarefulInv, DrawnWithParentOnly
<1>2. CarefulInv => DrawnWithParentOnly
  BY DEF CarefulInv
<1> QED BY <1>1, <1>2, CarefulStep, PTL DEF CarefulSpec

-----------------------------------------------------------------------------
(***************************************************************************)
(* A new satellite s of p cannot close a circle: the surfaces that are not *)
(* above p contain s and, since surfaces are drawn with their parent only, *)
(* all that is drawn with any of them.                                     *)
(***************************************************************************)
LEMMA ContextStep ==
    CarefulInv /\ ContextEnds /\ [CarefulNext]_life => ContextEnds'
<1> SUFFICES ASSUME CarefulInv, ContextEnds, [CarefulNext]_life,
                    NEW circle \in SUBSET Stored', circle # {}
             PROVE  \E x \in circle : DrawnWith(x)' \intersect circle = {}
  BY DEF ContextEnds
<1>0. TypeOK /\ RelationsKnown /\ DrawnWithParentOnly
  BY DEF CarefulInv, RelationInv
<1> DEFINE Goal == \E x \in circle : DrawnWith(x)' \intersect circle = {}
<1>1. ASSUME \A x \in Stored' : DrawnWith(x)' \subseteq DrawnWith(x), Stored' \subseteq Stored
      PROVE  Goal
  <2>1. PICK x \in circle : DrawnWith(x) \intersect circle = {}
    BY <1>1 DEF ContextEnds
  <2> QED BY <1>1, <2>1
<1>2. ASSUME CreateSurface PROVE Goal
  <2>1. PICK s : /\ s \notin Known /\ Stored' = Stored \union {s}
                 /\ surfaces'[s] = NewSurface(s)
                 /\ \A t \in Stored : surfaces'[t] = surfaces[t]
    BY <1>0, <1>2, CreateEffect
  <2>2. surfaces'[s].satellites = {s}
    BY <2>1 DEF NewSurface
  <2>3. DrawnWith(s)' = {}
    BY <2>2 DEF DrawnWith
  <2>4. CASE s \in circle
    BY <2>3, <2>4
  <2>5. CASE s \notin circle
    <3>1. circle \in SUBSET Stored
      BY <2>1, <2>5
    <3>2. PICK x \in circle : DrawnWith(x) \intersect circle = {}
      BY <3>1 DEF ContextEnds
    <3>3. DrawnWith(x)' \intersect circle = {}
      BY <2>1, <3>1, <3>2 DEF DrawnWith
    <3> QED BY <3>3
  <2> QED BY <2>4, <2>5
<1>3. ASSUME NEW s \in Known, ContentRequest(s) PROVE Goal
  <2>1. SameRelations
    BY <1>0, <1>3, ContentEffect DEF ContentStep
  <2> QED BY <1>1, <2>1 DEF SameRelations, DrawnWith
<1>4. ASSUME NEW s \in Known, DestroySurface(s) PROVE Goal
  <2>1. Stored' = Stored \ {s} /\ \A t \in Stored' : surfaces'[t] = surfaces[t]
    BY <1>0, <1>4, DestroyEffect
  <2> QED BY <1>1, <2>1 DEF DrawnWith
<1>5. ASSUME NEW s \in Known, UnrelateSurface(s) PROVE Goal
  <2>1. /\ Stored' = Stored
        /\ \A t \in Stored : surfaces'[t].satellites =
                IF t = surfaces[s].parent THEN surfaces[t].satellites \ {s}
                ELSE surfaces[t].satellites
    BY <1>0, <1>5, UnrelateEffect
  <2>2. \A t \in Stored : surfaces'[t].satellites \subseteq surfaces[t].satellites
    BY <2>1
  <2> QED BY <1>1, <2>1, <2>2 DEF DrawnWith
<1>6. ASSUME NEW s \in Known, NEW p \in Known, CarefulRelate(s, p) PROVE Goal
  <2>0. RelateSurfaces(s, p) /\ NotAbove(s, p)
    BY <1>6 DEF CarefulRelate
  <2>1. /\ s \in Stored /\ Stored' = Stored
        /\ \A t \in Stored :
                surfaces'[t].satellites = IF t = p THEN surfaces[t].satellites \union {s}
                                          ELSE surfaces[t].satellites
    <3>1. Related(s, p)
      BY <1>0, <2>0, RelateEffect
    <3> QED BY <3>1 DEF Related
  <2>2. PICK above \in SUBSET Sids :
            /\ p \in above /\ s \notin above
            /\ \A t \in above \intersect Stored :
                surfaces[t].parent \in Stored => surfaces[t].parent \in above
    BY <2>0 DEF NotAbove
  <2> DEFINE apart == Stored \ above
  <2>3. s \in apart /\ p \notin apart
    BY <2>1, <2>2
  <2>4. \A x \in apart : DrawnWith(x) \subseteq apart
    <3>1. ASSUME NEW x \in apart, NEW t \in DrawnWith(x) PROVE t \notin above
      <4>1. t \in Stored /\ surfaces[t].parent = x /\ x \in Stored /\ x \notin above
        BY <1>0, <3>1 DEF DrawnWithParentOnly, DrawnWith
      <4> QED BY <2>2, <4>1
    <3> QED BY <3>1 DEF DrawnWith
  <2>5. \A x \in Stored : x # p => DrawnWith(x)' = DrawnWith(x)
    BY <2>1 DEF DrawnWith
  <2>6. DrawnWith(p)' \subseteq DrawnWith(p) \union {s} \/ p \notin Stored
    BY <2>1 DEF DrawnWith
  <2> HIDE DEF apart
  <2>7. CASE circle \intersect apart # {}
    <3>1. PICK x \in circle \intersect apart : DrawnWith(x) \intersect (circle \intersect apart) = {}
      BY <2>1, <2>7 DEF ContextEnds
    <3>2. x \in Stored /\ x # p /\ DrawnWith(x) \subseteq apart
      BY <2>1, <2>3, <2>4, <3>1
    <3>3. DrawnWith(x)' \intersect circle = {}
      BY <2>5, <3>1, <3>2
    <3> QED BY <3>1, <3>3
  <2>8. CASE circle \intersect apart = {}
    <3>1. s \notin circle
      BY <2>3, <2>8
    <3>2. PICK x \in circle : DrawnWith(x) \intersect circle = {}
      BY <2>1 DEF ContextEnds
    <3>3. DrawnWith(x)' \intersect circle = {}
      BY <2>1, <2>5, <2>6, <3>1, <3>2
    <3> QED BY <3>3
  <2> QED BY <2>7, <2>8
<1>7. ASSUME UNCHANGED surfaces PROVE Goal
  BY <1>1, <1>7 DEF Stored, DrawnWith
<1>8. Goal
  <2> HIDE DEF Goal
  <2> QED BY <1>2, <1>3, <1>4, <1>5, <1>6, <1>7
          DEF CarefulNext, Request, ContentRequest, Deliver, life
<1> QED BY <1>8

(* Used carefully, no surfaces are drawn with each other in a circle: the  *)
(* recursion over the satellites ends.                                     *)
THEOREM RecursionEnds == CarefulSpec => []ContextEnds
<1>1. Init => CarefulInv /\ ContextEnds
  <2> SUFFICES ASSUME Init PROVE CarefulInv /\ ContextEnds
    OBVIOUS
  <2>1. Stored = {}
    BY DEF Init, SurfaceInit, Stored
  <2> QED BY <2>1, RelationInit DEF CarefulInv, DrawnWithParentOnly, ContextEnds
<1> QED BY <1>1, CarefulStep, ContextStep, PTL DEF CarefulSpec

-----------------------------------------------------------------------------
(* Signals and frames.                                                     *)
LEMMA ManagedEmit ==
    ASSUME TypeOK, NEW kind, NEW s, Emit(kind, s), managed' = managed, NEW t, WillBeManaged(t)'
    PROVE  IF t = s THEN kind = "ready" ELSE WillBeManaged(t)
<1> DEFINE n == Len(signals)
           e == [kind |-> kind, sid |-> s]
           fresh == [kind |-> "ready", sid |-> t]
<1>1. /\ n \in Nat /\ DOMAIN signals = 1..n /\ DOMAIN signals' = 1..(n + 1)
      /\ signals'[n + 1] = e /\ \A i \in DOMAIN signals : signals'[i] = signals[i]
  BY EmitEffect
<1>2. e.sid = s /\ e.kind = kind /\ fresh.sid = t /\ fresh.kind = "ready"
  OBVIOUS
<1>3. \/ t \in managed /\ \A i \in DOMAIN signals' : signals'[i].sid # t
      \/ \E i \in DOMAIN signals' :
            signals'[i] = fresh /\ \A j \in DOMAIN signals' : j > i => signals'[j].sid # t
  BY DEF WillBeManaged
<1> HIDE DEF n, e, fresh
<1>4. n + 1 \in DOMAIN signals' /\ \A i \in DOMAIN signals : i \in DOMAIN signals'
  BY <1>1
<1>5. CASE t = s
  <2>1. PICK i \in DOMAIN signals' :
            signals'[i] = fresh /\ \A j \in DOMAIN signals' : j > i => signals'[j].sid # t
    BY <1>1, <1>2, <1>3, <1>4, <1>5
  <2>2. i = n + 1
    BY <1>1, <1>2, <1>4, <1>5, <2>1
  <2> QED BY <1>1, <1>2, <1>5, <2>1, <2>2
<1>6. CASE t # s
  <2>1. CASE t \in managed /\ \A i \in DOMAIN signals' : signals'[i].sid # t
    BY <1>1, <1>4, <1>6, <2>1 DEF WillBeManaged
  <2>2. CASE \E i \in DOMAIN signals' :
            signals'[i] = fresh /\ \A j \in DOMAIN signals' : j > i => signals'[j].sid # t
    <3>1. PICK i \in DOMAIN signals' :
            signals'[i] = fresh /\ \A j \in DOMAIN signals' : j > i => signals'[j].sid # t
      BY <2>2
    <3>2. i # n + 1
      BY <1>1, <1>2, <1>6, <3>1
    <3>3. i \in DOMAIN signals /\ signals[i] = fresh
      BY <1>1, <3>1, <3>2
    <3>4. \A j \in DOMAIN signals : j > i => signals[j].sid # t
      BY <1>1, <1>4, <3>1
    <3> QED BY <1>6, <3>3, <3>4 DEF WillBeManaged, fresh
  <2> QED BY <1>3, <2>1, <2>2
<1> QED BY <1>5, <1>6

LEMMA ManagedDeliver ==
    ASSUME TypeOK, Deliver, NEW t \in Stored, WillBeManaged(t)'
    PROVE  WillBeManaged(t)
<1> DEFINE n == Len(signals)
           fresh == [kind |-> "ready", sid |-> t]
<1>1. /\ n \in Nat /\ DOMAIN signals' = 1..(n - 1) /\ 1 \in DOMAIN signals
      /\ signals[1] = Received /\ Received \in Signal
      /\ \A i \in DOMAIN signals' : i + 1 \in DOMAIN signals /\ signals'[i] = signals[i + 1]
  BY DeliverEffect
<1>2. DOMAIN signals = 1..n
  BY DEF TypeOK
<1>3. \A j \in DOMAIN signals : j # 1 => j - 1 \in DOMAIN signals' /\ signals[j] = signals'[j - 1]
  <2>1. ASSUME NEW j \in DOMAIN signals, j # 1
        PROVE j - 1 \in DOMAIN signals' /\ (j - 1) + 1 = j
    BY <1>1, <1>2, <2>1
  <2> QED BY <1>1, <2>1
<1>4. \/ t \in managed' /\ \A i \in DOMAIN signals' : signals'[i].sid # t
      \/ \E i \in DOMAIN signals' :
            signals'[i] = fresh /\ \A j \in DOMAIN signals' : j > i => signals'[j].sid # t
  BY DEF WillBeManaged
<1> HIDE DEF n, fresh
<1>5. CASE t \in managed' /\ \A i \in DOMAIN signals' : signals'[i].sid # t
  <2>1. \A j \in DOMAIN signals : j # 1 => signals[j].sid # t
    BY <1>3, <1>5
  <2>2. CASE Received.sid = t
    <3>1. Received.kind = "ready"
      <4>1. Received.kind # "destroyed"
        BY <1>5, <2>2 DEF Deliver
      <4> QED BY <1>1, <4>1 DEF Signal
    <3>2. signals[1] = [kind |-> "ready", sid |-> t]
      BY <1>1, <2>2, <3>1 DEF Signal
    <3>3. \A j \in DOMAIN signals : j > 1 => signals[j].sid # t
      BY <1>2, <2>1
    <3> QED BY <1>1, <3>2, <3>3 DEF WillBeManaged
  <2>3. CASE Received.sid # t
    <3>1. t \in managed
      BY <1>5, <2>3 DEF Deliver
    <3>2. \A j \in DOMAIN signals : signals[j].sid # t
      BY <1>1, <2>1, <2>3
    <3> QED BY <3>1, <3>2 DEF WillBeManaged
  <2> QED BY <2>2, <2>3
<1>6. CASE \E i \in DOMAIN signals' :
            signals'[i] = fresh /\ \A j \in DOMAIN signals' : j > i => signals'[j].sid # t
  <2>1. PICK i \in DOMAIN signals' :
            signals'[i] = fresh /\ \A j \in DOMAIN signals' : j > i => signals'[j].sid # t
    BY <1>6
  <2>2. i + 1 \in DOMAIN signals /\ signals[i + 1] = fresh
    BY <1>1, <2>1
  <2>3. ASSUME NEW j \in DOMAIN signals, j > i + 1 PROVE signals[j].sid # t
    <3>1. j # 1 /\ j - 1 > i
      BY <1>1, <1>2, <2>1, <2>3
    <3> QED BY <1>3, <2>1, <3>1
  <2> QED BY <2>2, <2>3 DEF WillBeManaged, fresh
<1> QED BY <1>4, <1>5, <1>6

LEMMA ManagedSame ==
    ASSUME signals' = signals, managed' = managed, NEW t
    PROVE  WillBeManaged(t)' <=> WillBeManaged(t)
  BY DEF WillBeManaged

(* A signal follows every change to what is ready.                         *)
LEMMA ManagedStep ==
    TypeOK /\ ManagedIsReady /\ [CarefulNext]_life => ManagedIsReady'
<1> SUFFICES ASSUME TypeOK, ManagedIsReady, [CarefulNext]_life,
                    NEW t \in Stored', WillBeManaged(t)'
             PROVE  surfaces'[t].reasons = Ready
  BY DEF ManagedIsReady, Ready
<1> DEFINE Goal == surfaces'[t].reasons = Ready
<1>1. ASSUME CreateSurface, managed' = managed PROVE Goal
  <2>1. PICK s : /\ s \notin Known /\ Stored' = Stored \union {s} /\ signals' = signals
                 /\ \A x \in Stored : surfaces'[x] = surfaces[x]
    BY <1>1, CreateEffect
  <2>2. WillBeManaged(t)
    BY <1>1, <2>1, ManagedSame
  <2>3. t \in Known
    BY <2>2 DEF WillBeManaged, TypeOK
  <2>4. t \in Stored
    BY <2>1, <2>3
  <2> QED BY <2>1, <2>2, <2>4 DEF ManagedIsReady
<1>2. ASSUME NEW s \in Known, ContentRequest(s), managed' = managed PROVE Goal
  <2>1. ContentStep(s)
    BY <1>2, ContentEffect
  <2>2. t \in Stored /\ (t # s => surfaces'[t].reasons = surfaces[t].reasons)
    BY <2>1 DEF ContentStep, SameRelations
  <2>3. CASE UNCHANGED signals
    <3>1. surfaces[t].reasons = Ready
      BY <1>2, <2>2, <2>3, ManagedSame DEF ManagedIsReady
    <3>2. t = s => (surfaces[s].reasons = Ready => surfaces'[s].reasons = Ready)
      <4>1. Emit("ready", s) => surfaces'[s].reasons = Ready
        BY <2>1, <2>3, EmitEffect DEF Emit
      <4>2. ~Emit("destroyed", s)
        <5>1. SUFFICES ASSUME Emit("destroyed", s) PROVE FALSE
          OBVIOUS
        <5>2. DOMAIN signals = 1..Len(signals) /\ DOMAIN signals' = 1..(Len(signals) + 1) /\ Len(signals) \in Nat
          BY <5>1, EmitEffect
        <5>3. Len(signals) + 1 \in DOMAIN signals' /\ Len(signals) + 1 \notin DOMAIN signals
          BY <5>2
        <5> QED BY <2>3, <5>3
      <4>3. \/ s \in Stored => (surfaces[s].reasons = Ready => surfaces'[s].reasons = Ready)
            \/ Emit("ready", s) /\ s \in Stored /\ surfaces'[s].reasons = Ready
        BY <2>1, <4>2 DEF ContentStep
      <4> QED BY <2>2, <4>3
    <3> QED BY <2>2, <3>1, <3>2
  <2>4. CASE Emit("ready", s) /\ s \in Stored /\ surfaces'[s].reasons = Ready
    <3>1. CASE t = s
      BY <2>4, <3>1
    <3>2. CASE t # s
      BY <1>2, <2>2, <2>4, <3>2, ManagedEmit DEF ManagedIsReady
    <3> QED BY <3>1, <3>2
  <2>5. CASE Emit("destroyed", s)
    <3>1. t # s /\ WillBeManaged(t)
      BY <1>2, <2>5, ManagedEmit
    <3> QED BY <2>2, <3>1 DEF ManagedIsReady
  <2> QED BY <2>1, <2>3, <2>4, <2>5 DEF ContentStep
<1>3. ASSUME NEW s \in Known, DestroySurface(s), managed' = managed PROVE Goal
  <2>1. /\ Stored' = Stored \ {s} /\ Emit("destroyed", s)
        /\ \A x \in Stored' : surfaces'[x] = surfaces[x]
    BY <1>3, DestroyEffect
  <2>2. WillBeManaged(t)
    BY <1>3, <2>1, ManagedEmit
  <2> QED BY <2>1, <2>2 DEF ManagedIsReady
<1>4. ASSUME NEW s \in Known, UnrelateSurface(s), managed' = managed PROVE Goal
  <2>1. /\ Stored' = Stored /\ signals' = signals
        /\ \A x \in Stored : surfaces'[x].reasons = surfaces[x].reasons
    BY <1>4, UnrelateEffect
  <2> QED BY <1>4, <2>1, ManagedSame DEF ManagedIsReady
<1>5. ASSUME NEW s \in Known, NEW p \in Known, CarefulRelate(s, p), managed' = managed PROVE Goal
  <2>1. Related(s, p)
    BY <1>5, RelateEffect DEF CarefulRelate
  <2>2. /\ Stored' = Stored /\ signals' = signals
        /\ t # s => surfaces'[t].reasons = surfaces[t].reasons
    BY <2>1 DEF Related
  <2>3. surfaces[t].reasons = Ready
    BY <1>5, <2>2, ManagedSame DEF ManagedIsReady
  <2>4. t # s
    BY <1>5, <2>3 DEF CarefulRelate, Ready, Reasons
  <2> QED BY <2>2, <2>3, <2>4
<1>6. ASSUME Deliver PROVE Goal
  <2>1. surfaces' = surfaces /\ Stored' = Stored
    BY <1>6, DeliverEffect
  <2>2. WillBeManaged(t)
    BY <1>6, <2>1, ManagedDeliver
  <2> QED BY <2>1, <2>2 DEF ManagedIsReady
<1>7. ASSUME UNCHANGED life PROVE Goal
  BY <1>7, ManagedSame DEF life, Stored, ManagedIsReady
<1>8. Goal
  <2> HIDE DEF Goal
  <2> QED BY <1>1, <1>2, <1>3, <1>4, <1>5, <1>6, <1>7 DEF CarefulNext, Request, ContentRequest
<1> QED BY <1>8

(* Used carefully, every window the compositor has, or will have once it   *)
(* has caught up with the signals, is a surface that is ready.             *)
THEOREM WindowsReady == CarefulSpec => []ManagedIsReady
<1>1. Init => ManagedIsReady
  <2> SUFFICES ASSUME Init PROVE ManagedIsReady
    OBVIOUS
  <2>1. Stored = {}
    BY DEF Init, SurfaceInit, Stored
  <2> QED BY <2>1 DEF ManagedIsReady
<1>2. TypeOK /\ [CarefulNext]_life => TypeOK'
  BY CarefulIsNext, TypeStep
<1> QED BY <1>1, <1>2, TypeInit, ManagedStep, PTL DEF CarefulSpec
================================================================================
