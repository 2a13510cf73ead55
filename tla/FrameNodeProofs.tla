---------------------------- MODULE FrameNodeProofs ----------------------------
(***************************************************************************)
(* Proofs about the pointers of the frame tree, for heaps of any size.     *)
(***************************************************************************)
EXTENDS FrameLists, NumberFacts, TLAPS

(***************************************************************************)
(* Every insertion puts f between two neighbours a and b of the list of p, *)
(* either of which may be missing.                                         *)
(***************************************************************************)
Inserted(e, p, a, f, b) ==
    [next  |-> [g \in Frames |-> IF g = f THEN b ELSE IF g = a THEN f ELSE e.next[g]],
     prev  |-> [g \in Frames |-> IF g = f THEN a ELSE IF g = b THEN f ELSE e.prev[g]],
     first |-> [q \in Frames |-> IF q = p /\ a = None THEN f ELSE e.first[q]],
     last  |-> [q \in Frames |-> IF q = p /\ b = None THEN f ELSE e.last[q]]]

(* a and b are neighbours in the list of p.                                *)
Gap(e, m, p, a, b) ==
    /\ a \in Frames \union {None} /\ b \in Frames \union {None}
    /\ IF a = None THEN e.first[p] = b ELSE m[a] = p /\ e.next[a] = b
    /\ IF b = None THEN e.last[p] = a ELSE m[b] = p /\ e.prev[b] = a

(* A frame without a parent is in no list.                                 *)
LEMMA OrphanUnlinked ==
    ASSUME NEW e \in Edges, NEW m \in Links, SiblingsLinked(e, m),
           NEW f \in Frames, m[f] = None
    PROVE  e.prev[f] = None /\ e.next[f] = None
<1>1. e.next[f] \in Frames \union {None} /\ e.prev[f] \in Frames \union {None}
  BY DEF Edges, Links
<1>2. e.next[f] \notin Frames
  BY DEF SiblingsLinked
<1>3. e.prev[f] \notin Frames
  BY NoneAssumption DEF SiblingsLinked
<1> QED BY <1>1, <1>2, <1>3

(* A frame that has children has a last one, and a first one.              *)
LEMMA LastChild ==
    ASSUME NEW e \in Edges, NEW m \in Links, EdgesOK(e, m),
           NEW p \in Frames, e.last[p] = None
    PROVE  \A c \in Frames : m[c] # p
<1> DEFINE S == {c \in Frames : m[c] = p}
<1> SUFFICES ASSUME S # {} PROVE FALSE
  OBVIOUS
<1>1. PICK c \in S : e.next[c] \notin S
  BY DEF EdgesOK, NoCircle
<1>2. e.next[c] = None
  BY <1>1 DEF EdgesOK, SiblingsLinked, Edges, Links
<1> QED BY <1>1, <1>2, NoneAssumption DEF EdgesOK, EndsLinked

LEMMA FirstChild ==
    ASSUME NEW e \in Edges, NEW m \in Links, EdgesOK(e, m),
           NEW p \in Frames, e.first[p] = None
    PROVE  \A c \in Frames : m[c] # p
<1> DEFINE S == {c \in Frames : m[c] = p}
<1> SUFFICES ASSUME S # {} PROVE FALSE
  OBVIOUS
<1>1. PICK c \in S : e.prev[c] \notin S
  BY DEF EdgesOK, NoCircle
<1>2. e.prev[c] = None
  BY <1>1 DEF EdgesOK, SiblingsLinked, Edges, Links
<1> QED BY <1>1, <1>2, NoneAssumption DEF EdgesOK, EndsLinked

-----------------------------------------------------------------------------
(* Putting an orphan into a gap keeps the edges sound.                     *)
LEMMA InsertedOK ==
    ASSUME NEW e \in Edges, NEW m \in Links, EdgesOK(e, m),
           NEW p \in Frames, NEW f \in Frames, m[f] = None,
           NEW a, NEW b, Gap(e, m, p, a, b)
    PROVE  /\ Inserted(e, p, a, f, b) \in Edges
           /\ EdgesOK(Inserted(e, p, a, f, b), [m EXCEPT ![f] = p])
<1> DEFINE d == Inserted(e, p, a, f, b)
           n == [m EXCEPT ![f] = p]
<1>1. /\ e.prev[f] = None /\ e.next[f] = None
      /\ f # a /\ f # b /\ f # None /\ p # None
  BY OrphanUnlinked, NoneAssumption DEF EdgesOK, Gap
<1>2. /\ e.prev \in Links /\ e.next \in Links /\ e.first \in Links /\ e.last \in Links
      /\ a \in Frames \union {None} /\ b \in Frames \union {None}
  BY DEF Edges, Gap
<1>3. d \in Edges
  BY <1>2 DEF Inserted, Edges, Links
<1>4. /\ d.next = [g \in Frames |-> IF g = f THEN b ELSE IF g = a THEN f ELSE e.next[g]]
      /\ d.prev = [g \in Frames |-> IF g = f THEN a ELSE IF g = b THEN f ELSE e.prev[g]]
      /\ d.first = [q \in Frames |-> IF q = p /\ a = None THEN f ELSE e.first[q]]
      /\ d.last = [q \in Frames |-> IF q = p /\ b = None THEN f ELSE e.last[q]]
  BY DEF Inserted
<1>5. \A g \in Frames : n[g] = IF g = f THEN p ELSE m[g]
  BY DEF Links
<1> HIDE DEF d, n
<1>6. SiblingsLinked(d, n)
  <2> SUFFICES ASSUME NEW g \in Frames, NEW h \in Frames
               PROVE  /\ d.next[g] = h <=> d.prev[h] = g
                      /\ d.next[g] = h => n[g] = n[h] /\ n[g] # None
    BY DEF SiblingsLinked
  <2>1. /\ e.next[g] = h <=> e.prev[h] = g
        /\ e.next[g] = h => m[g] = m[h] /\ m[g] # None
    BY DEF EdgesOK, SiblingsLinked
  <2>2. /\ a \in Frames /\ b # None => e.next[a] = b
        /\ a \in Frames => m[a] = p
        /\ b \in Frames => m[b] = p
        /\ a \in Frames /\ e.next[a] = h => h = b
        /\ b \in Frames /\ e.prev[b] = g => g = a
        /\ a = None /\ b \in Frames => e.prev[b] = None
        /\ b = None /\ a \in Frames => e.next[a] = None
    BY NoneAssumption DEF Gap
  <2> QED BY <2>1, <2>2, <1>1, <1>2, <1>4, <1>5, NoneAssumption
<1>7. EndsLinked(d, n)
  <2> SUFFICES ASSUME NEW q \in Frames, NEW g \in Frames
               PROVE  /\ d.first[q] = g <=> n[g] = q /\ d.prev[g] = None
                      /\ d.last[q] = g <=> n[g] = q /\ d.next[g] = None
    BY DEF EndsLinked
  <2>1. /\ e.first[q] = g <=> m[g] = q /\ e.prev[g] = None
        /\ e.last[q] = g <=> m[g] = q /\ e.next[g] = None
    BY DEF EdgesOK, EndsLinked
  <2>2. /\ a = None => e.first[p] = b
        /\ b = None => e.last[p] = a
        /\ a # None => m[a] = p /\ e.next[a] = b
        /\ b # None => m[b] = p /\ e.prev[b] = a
    BY DEF Gap
  <2>3. /\ a = None /\ m[g] = p /\ e.prev[g] = None => g = b
        /\ b = None /\ m[g] = p /\ e.next[g] = None => g = a
    BY <2>2 DEF EdgesOK, EndsLinked
  <2> QED BY <2>1, <2>2, <2>3, <1>1, <1>2, <1>4, <1>5, NoneAssumption
<1>8. NoCircle(d.next)
  <2> SUFFICES ASSUME NEW ring \in SUBSET Frames, ring # {},
                      \A g \in ring : d.next[g] \in ring
               PROVE  FALSE
    BY DEF NoCircle
  <2> DEFINE old == ring \ {f}
  <2>1. old # {}
    <3>1. d.next[f] = b
      BY <1>4
    <3> QED BY <3>1, <1>1
  <2>2. PICK g \in old : e.next[g] \notin old
    BY <2>1 DEF EdgesOK, NoCircle
  <2>3. g # a
    BY <2>2, <1>1, <1>2, <1>4, NoneAssumption DEF Gap
  <2>4. d.next[g] = e.next[g]
    BY <2>2, <2>3, <1>4
  <2>5. e.next[g] = f
    BY <2>2, <2>4
  <2> QED BY <2>5, <2>2, <1>1, NoneAssumption DEF EdgesOK, SiblingsLinked
<1>9. NoCircle(d.prev)
  <2> SUFFICES ASSUME NEW ring \in SUBSET Frames, ring # {},
                      \A g \in ring : d.prev[g] \in ring
               PROVE  FALSE
    BY DEF NoCircle
  <2> DEFINE old == ring \ {f}
  <2>1. old # {}
    <3>1. d.prev[f] = a
      BY <1>4
    <3> QED BY <3>1, <1>1
  <2>2. PICK g \in old : e.prev[g] \notin old
    BY <2>1 DEF EdgesOK, NoCircle
  <2>3. g # b
    BY <2>2, <1>1, <1>2, <1>4, NoneAssumption DEF Gap
  <2>4. d.prev[g] = e.prev[g]
    BY <2>2, <2>3, <1>4
  <2>5. e.prev[g] = f
    BY <2>2, <2>4
  <2> QED BY <2>5, <2>2, <1>1, NoneAssumption DEF EdgesOK, SiblingsLinked
<1> QED BY <1>3, <1>6, <1>7, <1>8, <1>9 DEF EdgesOK, d, n

(* Edges are the same when their four maps are.                            *)
LEMMA SameEdges ==
    ASSUME NEW c \in Edges, NEW d \in Edges,
           c.prev = d.prev, c.next = d.next, c.first = d.first, c.last = d.last
    PROVE  c = d
BY DEF Edges

-----------------------------------------------------------------------------
(* The manipulators of frame.rs are such insertions.                       *)
LEMMA AppendEdgeOK ==
    ASSUME NEW e \in Edges, NEW m \in Links, EdgesOK(e, m),
           NEW p \in Frames, NEW f \in Frames, m[f] = None
    PROVE  /\ AppendEdge(e, p, f) \in Edges
           /\ EdgesOK(AppendEdge(e, p, f), [m EXCEPT ![f] = p])
           /\ AppendEdge(e, p, f) = Inserted(e, p, e.last[p], f, None) /\ Gap(e, m, p, e.last[p], None)
<1> DEFINE l == e.last[p]
<1>1. /\ e.next[f] = None /\ e.prev[f] = None
      /\ l \in Frames \union {None} /\ l # f
  BY OrphanUnlinked, NoneAssumption DEF EdgesOK, EndsLinked, Edges, Links
<1>2. Gap(e, m, p, l, None)
  BY <1>1, LastChild, NoneAssumption DEF Gap, EdgesOK, EndsLinked, Edges, Links
<1>3. AppendEdge(e, p, f) = Inserted(e, p, l, f, None)
  <2> DEFINE c == AppendEdge(e, p, f)
             d == Inserted(e, p, l, f, None)
  <2>1. d \in Edges
    BY <1>2, InsertedOK
  <2>2. /\ c \in Edges
        /\ c.next = IF l = None THEN e.next ELSE [e.next EXCEPT ![l] = f]
        /\ c.prev = IF l = None THEN e.prev ELSE [e.prev EXCEPT ![f] = l]
        /\ c.first = IF l = None THEN [e.first EXCEPT ![p] = f] ELSE e.first
        /\ c.last = [e.last EXCEPT ![p] = f]
    BY <1>1 DEF AppendEdge, Edges, Links
  <2>3. /\ d.next = [g \in Frames |-> IF g = f THEN None ELSE IF g = l THEN f ELSE e.next[g]]
        /\ d.prev = [g \in Frames |-> IF g = f THEN l ELSE IF g = None THEN f ELSE e.prev[g]]
        /\ d.first = [q \in Frames |-> IF q = p /\ l = None THEN f ELSE e.first[q]]
        /\ d.last = [q \in Frames |-> IF q = p /\ None = None THEN f ELSE e.last[q]]
    BY DEF Inserted
  <2> HIDE DEF c, d
  <2>4. c.next = d.next /\ c.prev = d.prev
    BY <1>1, <2>2, <2>3, NoneAssumption DEF Edges, Links
  <2>5. c.first = d.first /\ c.last = d.last
    BY <1>1, <2>2, <2>3, NoneAssumption DEF Edges, Links
  <2>6. c = d
    BY <2>1, <2>2, <2>4, <2>5, SameEdges
  <2> QED BY <2>6 DEF c, d
<1> QED BY <1>2, <1>3, InsertedOK

LEMMA PrependEdgeOK ==
    ASSUME NEW e \in Edges, NEW m \in Links, EdgesOK(e, m),
           NEW p \in Frames, NEW f \in Frames, m[f] = None
    PROVE  /\ PrependEdge(e, p, f) \in Edges
           /\ EdgesOK(PrependEdge(e, p, f), [m EXCEPT ![f] = p])
           /\ PrependEdge(e, p, f) = Inserted(e, p, None, f, e.first[p]) /\ Gap(e, m, p, None, e.first[p])
<1> DEFINE h == e.first[p]
<1>1. /\ e.next[f] = None /\ e.prev[f] = None
      /\ h \in Frames \union {None} /\ h # f
  BY OrphanUnlinked, NoneAssumption DEF EdgesOK, EndsLinked, Edges, Links
<1>2. Gap(e, m, p, None, h)
  <2>1. CASE h = None
    <3>1. \A c \in Frames : m[c] # p
      BY <2>1, FirstChild
    <3>2. e.last[p] \in Frames \union {None}
      BY DEF Edges, Links
    <3>3. e.last[p] = None
      BY <3>1, <3>2 DEF EdgesOK, EndsLinked
    <3> QED BY <2>1, <3>3 DEF Gap
  <2>2. CASE h # None
    <3>1. m[h] = p /\ e.prev[h] = None
      BY <1>1, <2>2 DEF EdgesOK, EndsLinked
    <3> QED BY <1>1, <2>2, <3>1 DEF Gap
  <2> QED BY <2>1, <2>2
<1>3. PrependEdge(e, p, f) = Inserted(e, p, None, f, h)
  <2> DEFINE c == PrependEdge(e, p, f)
             d == Inserted(e, p, None, f, h)
  <2>1. d \in Edges
    BY <1>2, InsertedOK
  <2>2. /\ c \in Edges
        /\ c.next = IF h = None THEN e.next ELSE [e.next EXCEPT ![f] = h]
        /\ c.prev = IF h = None THEN e.prev ELSE [e.prev EXCEPT ![h] = f]
        /\ c.first = [e.first EXCEPT ![p] = f]
        /\ c.last = IF h = None THEN [e.last EXCEPT ![p] = f] ELSE e.last
    BY <1>1 DEF PrependEdge, Edges, Links
  <2>3. /\ d.next = [g \in Frames |-> IF g = f THEN h ELSE IF g = None THEN f ELSE e.next[g]]
        /\ d.prev = [g \in Frames |-> IF g = f THEN None ELSE IF g = h THEN f ELSE e.prev[g]]
        /\ d.first = [q \in Frames |-> IF q = p /\ None = None THEN f ELSE e.first[q]]
        /\ d.last = [q \in Frames |-> IF q = p /\ h = None THEN f ELSE e.last[q]]
    BY DEF Inserted
  <2> HIDE DEF c, d
  <2>4. c.next = d.next /\ c.prev = d.prev
    BY <1>1, <2>2, <2>3, NoneAssumption DEF Edges, Links
  <2>5. c.first = d.first /\ c.last = d.last
    BY <1>1, <2>2, <2>3, NoneAssumption DEF Edges, Links
  <2>6. c = d
    BY <2>1, <2>2, <2>4, <2>5, SameEdges
  <2> QED BY <2>6 DEF c, d
<1> QED BY <1>2, <1>3, InsertedOK

(* prejoin where the new sibling b has a previous sibling a.               *)
LEMMA JoinedIs ==
    ASSUME NEW e \in Edges, NEW m \in Links, EdgesOK(e, m),
           NEW a \in Frames, NEW b \in Frames, e.next[a] = b,
           NEW f \in Frames, m[f] = None
    PROVE  JoinEdge(JoinEdge(e, a, f), f, b) = Inserted(e, m[a], a, f, b) /\ Gap(e, m, m[a], a, b)
<1> DEFINE p == m[a]
           c == JoinEdge(JoinEdge(e, a, f), f, b)
           d == Inserted(e, p, a, f, b)
<1>1. /\ p \in Frames /\ m[b] = p /\ e.prev[b] = a
      /\ f # a /\ f # b
      /\ a # None /\ b # None
  BY NoneAssumption DEF EdgesOK, SiblingsLinked, Links
<1>2. Gap(e, m, p, a, b)
  BY <1>1 DEF Gap
<1>3. d \in Edges /\ EdgesOK(d, [m EXCEPT ![f] = p])
  BY <1>1, <1>2, InsertedOK
<1>4. /\ c \in Edges
      /\ c.next = [[e.next EXCEPT ![a] = f] EXCEPT ![f] = b]
      /\ c.prev = [[e.prev EXCEPT ![f] = a] EXCEPT ![b] = f]
      /\ c.first = e.first
      /\ c.last = e.last
  BY DEF JoinEdge, Edges, Links
<1>5. /\ d.next = [g \in Frames |-> IF g = f THEN b ELSE IF g = a THEN f ELSE e.next[g]]
      /\ d.prev = [g \in Frames |-> IF g = f THEN a ELSE IF g = b THEN f ELSE e.prev[g]]
      /\ d.first = [q \in Frames |-> IF q = p /\ a = None THEN f ELSE e.first[q]]
      /\ d.last = [q \in Frames |-> IF q = p /\ b = None THEN f ELSE e.last[q]]
  BY DEF Inserted
<1> HIDE DEF c, d, p
<1>6. c.next = d.next /\ c.prev = d.prev
  BY <1>1, <1>4, <1>5 DEF Edges, Links
<1>7. c.first = d.first /\ c.last = d.last
  BY <1>1, <1>4, <1>5 DEF Edges, Links
<1>8. c = d
  BY <1>3, <1>4, <1>6, <1>7, SameEdges
<1> QED BY <1>2, <1>8 DEF c, d, p

LEMMA JoinedOK ==
    ASSUME NEW e \in Edges, NEW m \in Links, EdgesOK(e, m),
           NEW a \in Frames, NEW b \in Frames, e.next[a] = b,
           NEW f \in Frames, m[f] = None
    PROVE  LET d == JoinEdge(JoinEdge(e, a, f), f, b) IN
           /\ d \in Edges /\ EdgesOK(d, [m EXCEPT ![f] = m[a]])
<1>1. m[a] \in Frames
  BY NoneAssumption DEF EdgesOK, SiblingsLinked, Links
<1>2. JoinEdge(JoinEdge(e, a, f), f, b) = Inserted(e, m[a], a, f, b) /\ Gap(e, m, m[a], a, b)
  BY JoinedIs
<1>3. /\ Inserted(e, m[a], a, f, b) \in Edges
      /\ EdgesOK(Inserted(e, m[a], a, f, b), [m EXCEPT ![f] = m[a]])
  BY <1>1, <1>2, InsertedOK
<1> QED BY <1>2, <1>3

-----------------------------------------------------------------------------
(* What unjoining f from the list of p leaves.                             *)
Removed(e, p, f) ==
    [next  |-> [g \in Frames |-> IF g = f THEN None
                                ELSE IF g = e.prev[f] THEN e.next[f] ELSE e.next[g]],
     prev  |-> [g \in Frames |-> IF g = f THEN None
                                ELSE IF g = e.next[f] THEN e.prev[f] ELSE e.prev[g]],
     first |-> [q \in Frames |-> IF q = p /\ e.prev[f] = None THEN e.next[f]
                                ELSE e.first[q]],
     last  |-> [q \in Frames |-> IF q = p /\ e.next[f] = None THEN e.prev[f]
                                ELSE e.last[q]]]

LEMMA RemovedOK ==
    ASSUME NEW e \in Edges, NEW m \in Links, EdgesOK(e, m),
           NEW f \in Frames, m[f] \in Frames
    PROVE  /\ Removed(e, m[f], f) \in Edges
           /\ EdgesOK(Removed(e, m[f], f), [m EXCEPT ![f] = None])
<1> DEFINE d == Removed(e, m[f], f)
           n == [m EXCEPT ![f] = None]
           a == e.prev[f]
           b == e.next[f]
<1>1. /\ e.prev \in Links /\ e.next \in Links /\ e.first \in Links /\ e.last \in Links
      /\ a \in Frames \union {None} /\ b \in Frames \union {None}
  BY DEF Edges, Links
<1>2. d \in Edges
  BY <1>1 DEF Removed, Edges, Links
<1>3. /\ d.next = [g \in Frames |-> IF g = f THEN None ELSE IF g = a THEN b ELSE e.next[g]]
      /\ d.prev = [g \in Frames |-> IF g = f THEN None ELSE IF g = b THEN a ELSE e.prev[g]]
      /\ d.first = [q \in Frames |-> IF q = m[f] /\ a = None THEN b ELSE e.first[q]]
      /\ d.last = [q \in Frames |-> IF q = m[f] /\ b = None THEN a ELSE e.last[q]]
  BY DEF Removed
<1>4. \A g \in Frames : n[g] = IF g = f THEN None ELSE m[g]
  BY DEF Links
<1>5. /\ a \in Frames => e.next[a] = f /\ m[a] = m[f]
      /\ b \in Frames => e.prev[b] = f /\ m[b] = m[f]
      /\ \A g \in Frames : e.next[g] = f => g = a
      /\ \A g \in Frames : e.prev[g] = f => g = b
  BY DEF EdgesOK, SiblingsLinked
<1>6. a # f /\ b # f
  <2>1. \E g \in {f} : e.next[g] \notin {f}
    BY DEF EdgesOK, NoCircle
  <2>2. \E g \in {f} : e.prev[g] \notin {f}
    BY DEF EdgesOK, NoCircle
  <2> QED BY <2>1, <2>2
<1> HIDE DEF d, n
<1>7. SiblingsLinked(d, n)
  <2> SUFFICES ASSUME NEW g \in Frames, NEW h \in Frames
               PROVE  /\ d.next[g] = h <=> d.prev[h] = g
                      /\ d.next[g] = h => n[g] = n[h] /\ n[g] # None
    BY DEF SiblingsLinked
  <2>1. /\ e.next[g] = h <=> e.prev[h] = g
        /\ e.next[g] = h => m[g] = m[h] /\ m[g] # None
    BY DEF EdgesOK, SiblingsLinked
  <2> QED BY <2>1, <1>1, <1>3, <1>4, <1>5, <1>6, NoneAssumption
<1>8. EndsLinked(d, n)
  <2> SUFFICES ASSUME NEW q \in Frames, NEW g \in Frames
               PROVE  /\ d.first[q] = g <=> n[g] = q /\ d.prev[g] = None
                      /\ d.last[q] = g <=> n[g] = q /\ d.next[g] = None
    BY DEF EndsLinked
  <2>1. /\ e.first[q] = g <=> m[g] = q /\ e.prev[g] = None
        /\ e.last[q] = g <=> m[g] = q /\ e.next[g] = None
        /\ e.first[q] = f <=> m[f] = q /\ e.prev[f] = None
        /\ e.last[q] = f <=> m[f] = q /\ e.next[f] = None
    BY DEF EdgesOK, EndsLinked
  <2>2. /\ a = None /\ m[g] = m[f] /\ e.prev[g] = None => g = f
        /\ b = None /\ m[g] = m[f] /\ e.next[g] = None => g = f
    BY DEF EdgesOK, EndsLinked
  <2> QED BY <2>1, <2>2, <1>1, <1>3, <1>4, <1>5, <1>6, NoneAssumption
<1>9. NoCircle(d.next)
  <2> SUFFICES ASSUME NEW ring \in SUBSET Frames, ring # {},
                      \A g \in ring : d.next[g] \in ring
               PROVE  FALSE
    BY DEF NoCircle
  <2>1. f \notin ring
    <3>1. d.next[f] = None
      BY <1>3
    <3> QED BY <3>1, NoneAssumption
  <2> DEFINE old == IF a \in ring THEN ring \union {f} ELSE ring
  <2>2. PICK g \in old : e.next[g] \notin old
    BY DEF EdgesOK, NoCircle
  <2>3. CASE g = f
    BY <2>1, <2>2, <2>3, <1>3
  <2>4. CASE g = a
    BY <2>1, <2>2, <2>4, <1>5, NoneAssumption
  <2>5. CASE g # f /\ g # a
    BY <2>2, <2>5, <1>3
  <2> QED BY <2>3, <2>4, <2>5
<1>10. NoCircle(d.prev)
  <2> SUFFICES ASSUME NEW ring \in SUBSET Frames, ring # {},
                      \A g \in ring : d.prev[g] \in ring
               PROVE  FALSE
    BY DEF NoCircle
  <2>1. f \notin ring
    <3>1. d.prev[f] = None
      BY <1>3
    <3> QED BY <3>1, NoneAssumption
  <2> DEFINE old == IF b \in ring THEN ring \union {f} ELSE ring
  <2>2. PICK g \in old : e.prev[g] \notin old
    BY DEF EdgesOK, NoCircle
  <2>3. CASE g = f
    BY <2>1, <2>2, <2>3, <1>3
  <2>4. CASE g = b
    BY <2>1, <2>2, <2>4, <1>5, NoneAssumption
  <2>5. CASE g # f /\ g # b
    BY <2>2, <2>5, <1>3
  <2> QED BY <2>3, <2>4, <2>5
<1> QED BY <1>2, <1>7, <1>8, <1>9, <1>10 DEF EdgesOK, d, n

(* The end of unjoin: f forgets its neighbours.                            *)
LEMMA CutOff ==
    ASSUME NEW e \in Edges, NEW f \in Frames
    PROVE  LET c == [e EXCEPT !.prev[f] = None, !.next[f] = None] IN
           /\ c \in Edges
           /\ c.prev = [e.prev EXCEPT ![f] = None]
           /\ c.next = [e.next EXCEPT ![f] = None]
           /\ c.first = e.first
           /\ c.last = e.last
BY DEF Edges, Links

(* Unjoining a child keeps the edges sound.                                *)
LEMMA UnjoinEdgeOK ==
    ASSUME NEW e \in Edges, NEW m \in Links, EdgesOK(e, m),
           NEW f \in Frames, m[f] \in Frames
    PROVE  /\ UnjoinEdge(e, m[f], f) \in Edges
           /\ EdgesOK(UnjoinEdge(e, m[f], f), [m EXCEPT ![f] = None])
           /\ UnjoinEdge(e, m[f], f) = Removed(e, m[f], f)
<1> DEFINE p == m[f]
           a == e.prev[f]
           b == e.next[f]
           x == ForgetNext(e, p, f)
           y == ForgetPrev(x, p, f)
           c == UnjoinEdge(e, p, f)
           d == Removed(e, p, f)
<1>1. /\ e.prev \in Links /\ e.next \in Links /\ e.first \in Links /\ e.last \in Links
      /\ a \in Frames \union {None} /\ b \in Frames \union {None}
      /\ a # f /\ b # f
  <2>1. \E g \in {f} : e.next[g] \notin {f}
    BY DEF EdgesOK, NoCircle
  <2>2. \E g \in {f} : e.prev[g] \notin {f}
    BY DEF EdgesOK, NoCircle
  <2> QED BY <2>1, <2>2 DEF Edges, Links
<1>2. d \in Edges /\ EdgesOK(d, [m EXCEPT ![f] = None])
  BY RemovedOK
<1>3. /\ x \in Edges
      /\ x.next = e.next /\ x.first = e.first
      /\ x.prev = IF b = None THEN e.prev ELSE [e.prev EXCEPT ![b] = a]
      /\ x.last = IF b = None THEN [e.last EXCEPT ![p] = a] ELSE e.last
  BY <1>1 DEF ForgetNext, Edges, Links
<1> HIDE DEF x
<1>4. x.prev[f] = a /\ x.next[f] = b
  BY <1>1, <1>3 DEF Links
<1>5. /\ y \in Edges
      /\ y.prev = x.prev /\ y.last = x.last
      /\ y.next = IF a = None THEN e.next ELSE [e.next EXCEPT ![a] = b]
      /\ y.first = IF a = None THEN [e.first EXCEPT ![p] = b] ELSE e.first
  BY <1>1, <1>3, <1>4 DEF ForgetPrev, Edges, Links
<1>6. c = [y EXCEPT !.prev[f] = None, !.next[f] = None]
  BY DEF UnjoinEdge, x
<1> HIDE DEF y
<1>7. /\ c \in Edges
      /\ c.prev = [y.prev EXCEPT ![f] = None]
      /\ c.next = [y.next EXCEPT ![f] = None]
      /\ c.first = y.first
      /\ c.last = y.last
  <2>1. y \in Edges
    BY <1>5
  <2> HIDE DEF c
  <2> QED BY <1>6, <2>1, CutOff
<1>8. /\ d.next = [g \in Frames |-> IF g = f THEN None ELSE IF g = a THEN b ELSE e.next[g]]
      /\ d.prev = [g \in Frames |-> IF g = f THEN None ELSE IF g = b THEN a ELSE e.prev[g]]
      /\ d.first = [q \in Frames |-> IF q = p /\ a = None THEN b ELSE e.first[q]]
      /\ d.last = [q \in Frames |-> IF q = p /\ b = None THEN a ELSE e.last[q]]
  BY DEF Removed
<1> HIDE DEF c, d
<1>9. c.next = d.next /\ c.prev = d.prev
  <2>1. c.next = d.next
    BY <1>1, <1>5, <1>7, <1>8, NoneAssumption DEF Links
  <2>2. c.prev = d.prev
    BY <1>1, <1>3, <1>5, <1>7, <1>8, NoneAssumption DEF Links
  <2> QED BY <2>1, <2>2
<1>10. c.first = d.first /\ c.last = d.last
  BY <1>1, <1>3, <1>5, <1>7, <1>8, NoneAssumption DEF Edges, Links
<1>11. c = d
  BY <1>2, <1>7, <1>9, <1>10, SameEdges
<1> QED BY <1>2, <1>11 DEF c, d

(* Freeing a whole tree leaves the edges of all other frames sound: no     *)
(* sibling of a freed frame survives.                                      *)
LEMMA ErasedOK ==
    ASSUME NEW e \in Edges, NEW m \in Links, EdgesOK(e, m),
           NEW f \in Frames, m[f] = None,
           NEW nodes \in SUBSET Frames,
           \A g \in Frames : g \in nodes <=> g = f \/ m[g] \in nodes
    PROVE  /\ ErasedEdges(e, nodes) \in Edges
           /\ EdgesOK(ErasedEdges(e, nodes), Erased(m, nodes))
<1> DEFINE d == ErasedEdges(e, nodes)
           n == Erased(m, nodes)
<1>1. /\ e.prev \in Links /\ e.next \in Links /\ e.first \in Links /\ e.last \in Links
  BY DEF Edges
<1>2. d \in Edges
  BY <1>1 DEF ErasedEdges, Erased, Edges, Links
<1>3. \A g \in Frames :
        /\ n[g] = IF g \in nodes THEN None ELSE m[g]
        /\ d.next[g] = IF g \in nodes THEN None ELSE e.next[g]
        /\ d.prev[g] = IF g \in nodes THEN None ELSE e.prev[g]
        /\ d.first[g] = IF g \in nodes THEN None ELSE e.first[g]
        /\ d.last[g] = IF g \in nodes THEN None ELSE e.last[g]
  BY DEF ErasedEdges, Erased
<1>4. \A g, h \in Frames : m[g] = m[h] /\ m[g] # None => (g \in nodes <=> h \in nodes)
  OBVIOUS
<1>5. \A g \in Frames : m[g] \in Frames => (g \in nodes <=> m[g] \in nodes)
  BY NoneAssumption
<1> HIDE DEF d, n
<1>6. SiblingsLinked(d, n)
  <2> SUFFICES ASSUME NEW g \in Frames, NEW h \in Frames
               PROVE  /\ d.next[g] = h <=> d.prev[h] = g
                      /\ d.next[g] = h => n[g] = n[h] /\ n[g] # None
    BY DEF SiblingsLinked
  <2>1. /\ e.next[g] = h <=> e.prev[h] = g
        /\ e.next[g] = h => m[g] = m[h] /\ m[g] # None
    BY DEF EdgesOK, SiblingsLinked
  <2> QED BY <2>1, <1>3, <1>4, NoneAssumption
<1>7. EndsLinked(d, n)
  <2> SUFFICES ASSUME NEW q \in Frames, NEW g \in Frames
               PROVE  /\ d.first[q] = g <=> n[g] = q /\ d.prev[g] = None
                      /\ d.last[q] = g <=> n[g] = q /\ d.next[g] = None
    BY DEF EndsLinked
  <2>1. /\ e.first[q] = g <=> m[g] = q /\ e.prev[g] = None
        /\ e.last[q] = g <=> m[g] = q /\ e.next[g] = None
    BY DEF EdgesOK, EndsLinked
  <2> QED BY <2>1, <1>3, <1>5, NoneAssumption
<1>8. NoCircle(d.next)
  BY <1>3, NoneAssumption DEF EdgesOK, NoCircle
<1>9. NoCircle(d.prev)
  BY <1>3, NoneAssumption DEF EdgesOK, NoCircle
<1> QED BY <1>2, <1>6, <1>7, <1>8, <1>9 DEF EdgesOK, d, n

(* Adding a tree below a frame it does not contain closes no circle.       *)
LEMMA JoinedForest ==
    ASSUME NEW m \in Links, NoCircle(m),
           NEW f \in Frames, NEW p \in Frames,
           NEW above \in SUBSET Frames, p \in above, f \notin above,
           \A g \in above : m[g] # None => m[g] \in above
    PROVE  NoCircle([m EXCEPT ![f] = p])
<1> DEFINE n == [m EXCEPT ![f] = p]
<1>1. \A g \in Frames : n[g] = IF g = f THEN p ELSE m[g]
  BY DEF Links
<1> HIDE DEF n
<1> SUFFICES ASSUME NEW ring \in SUBSET Frames, ring # {},
                    \A g \in ring : n[g] \in ring
             PROVE  FALSE
  BY DEF NoCircle, n
<1>2. CASE f \notin ring
  BY <1>1, <1>2 DEF NoCircle
<1>3. CASE f \in ring
  <2> DEFINE up == ring \intersect above
  <2>1. p \in up
    BY <1>1, <1>3
  <2>2. PICK g \in up : m[g] \notin up
    BY <2>1 DEF NoCircle
  <2> QED BY <2>2, <1>1, NoneAssumption
<1> QED BY <1>2, <1>3

-----------------------------------------------------------------------------
(* Only allocated frames have a parent, and the parent is allocated.       *)
ParentsLive ==
    \A f \in Frames : matter[f] # None => f \in live /\ matter[f] \in live

(* The inductive invariant.  That nothing dangles is no part of it: it     *)
(* follows, since every link of a frame is to its parent or to a frame     *)
(* that has a parent.                                                      *)
IInv == TypeOK /\ LinksOK /\ Forest /\ ParentsLive

(* An empty heap satisfies the invariant.                                  *)
LEMMA InitIInv == Init => IInv
<1> SUFFICES ASSUME Init PROVE IInv
  OBVIOUS
<1>1. TypeOK
  BY DEF Init, TypeOK, Links, Edges, Unlinked, NoEdges
<1>2. LinksOK
  BY NoneAssumption DEF Init, LinksOK, EdgesOK, SiblingsLinked, EndsLinked, NoCircle,
                        Unlinked, NoEdges
<1>3. Forest /\ ParentsLive
  BY NoneAssumption DEF Init, Forest, NoCircle, ParentsLive, Unlinked
<1> QED BY <1>1, <1>2, <1>3 DEF IInv

(* What the four insertions have in common.                                *)
LEMMA InsertionStep ==
    ASSUME IInv, NEW f \in Frames, NEW p \in Frames, Joinable(f, p),
           matter' = [matter EXCEPT ![f] = p], UNCHANGED live,
           space' \in Edges, EdgesOK(space', [matter EXCEPT ![f] = p]),
           time' = AppendEdge(time, p, f)
    PROVE  IInv'
<1>1. /\ matter \in Links /\ time \in Edges /\ EdgesOK(time, matter)
      /\ matter[f] = None
  BY DEF IInv, TypeOK, LinksOK, Joinable
<1>2. time' \in Edges /\ EdgesOK(time', matter')
  BY <1>1, AppendEdgeOK
<1>3. TypeOK'
  BY <1>1, <1>2 DEF IInv, TypeOK, Links
<1>4. LinksOK'
  BY <1>2 DEF LinksOK
<1>5. Forest'
  <2>1. PICK above \in SUBSET Frames :
            /\ p \in above /\ f \notin above
            /\ \A g \in above : matter[g] # None => matter[g] \in above
    BY DEF Joinable, NotBelow
  <2>2. NoCircle(matter)
    BY DEF IInv, Forest
  <2> QED BY <1>1, <2>1, <2>2, JoinedForest DEF Forest
<1>6. ParentsLive'
  BY <1>1 DEF IInv, ParentsLive, Joinable, Links
<1> QED BY <1>3, <1>4, <1>5, <1>6 DEF IInv

(* Every step of a frame operation preserves the invariant.                *)
LEMMA NextIInv == IInv /\ [Next]_vars => IInv'
<1> SUFFICES ASSUME IInv, [Next]_vars PROVE IInv'
  OBVIOUS
<1>0. /\ live \subseteq Frames /\ matter \in Links
      /\ space \in Edges /\ EdgesOK(space, matter)
      /\ time \in Edges /\ EdgesOK(time, matter)
      /\ NoCircle(matter)
  BY DEF IInv, TypeOK, LinksOK, Forest
<1>1. ASSUME NEW f \in Frames, New(f) PROVE IInv'
  BY <1>1 DEF IInv, New, TypeOK, LinksOK, Forest, ParentsLive
<1>2. ASSUME NEW f \in Frames, Pop(f) PROVE IInv'
  <2> DEFINE p == matter[f]
             cut == UnjoinEdge(time, p, f)
             orphaned == [matter EXCEPT ![f] = None]
  <2>1. p \in Frames
    BY <1>0, <1>2 DEF Pop, Links
  <2>2. cut \in Edges /\ EdgesOK(cut, orphaned)
    BY <1>0, <2>1, UnjoinEdgeOK
  <2>3. /\ orphaned \in Links /\ orphaned[f] = None
        /\ [orphaned EXCEPT ![f] = p] = matter
    BY <1>0 DEF Links
  <2> HIDE DEF cut, orphaned, p
  <2>4. /\ PrependEdge(cut, p, f) \in Edges
        /\ EdgesOK(PrependEdge(cut, p, f), matter)
    BY <2>1, <2>2, <2>3, PrependEdgeOK
  <2>5. time' = PrependEdge(cut, p, f) /\ UNCHANGED <<live, matter, space>>
    BY <1>2 DEF Pop, cut, p
  <2> QED BY <1>0, <2>4, <2>5 DEF IInv, TypeOK, LinksOK, Forest, ParentsLive
<1>3. ASSUME NEW f \in Frames, RemoveFrame(f) PROVE IInv'
  <2> DEFINE orphaned == [matter EXCEPT ![f] = None]
  <2>1. matter[f] \in Frames
    BY <1>0, <1>3 DEF RemoveFrame, Links
  <2>2. /\ time' \in Edges /\ EdgesOK(time', orphaned)
        /\ space' \in Edges /\ EdgesOK(space', orphaned)
    BY <1>0, <1>3, <2>1, UnjoinEdgeOK DEF RemoveFrame
  <2>3. matter' = orphaned /\ UNCHANGED live
    BY <1>3 DEF RemoveFrame
  <2>4. \A g \in Frames : matter'[g] = IF g = f THEN None ELSE matter[g]
    BY <1>0, <2>3 DEF Links
  <2>5. TypeOK' /\ LinksOK'
    BY <1>0, <2>2, <2>3 DEF TypeOK, LinksOK, Links
  <2>6. Forest'
    BY <1>0, <2>4, NoneAssumption DEF Forest, NoCircle
  <2>7. ParentsLive'
    BY <2>3, <2>4 DEF IInv, ParentsLive
  <2> QED BY <2>5, <2>6, <2>7 DEF IInv
<1>4. ASSUME NEW f \in Frames, Destroy(f) PROVE IInv'
  <2>1. PICK nodes \in SUBSET Frames :
            /\ Below(f, nodes)
            /\ live' = live \ nodes
            /\ matter' = Erased(matter, nodes)
            /\ space' = ErasedEdges(space, nodes)
            /\ time' = ErasedEdges(time, nodes)
    BY <1>4 DEF Destroy
  <2>2. \A g \in Frames : g \in nodes <=> g = f \/ matter[g] \in nodes
    BY <2>1 DEF Below
  <2>3. matter[f] = None
    BY <1>4 DEF Destroy
  <2>4. /\ space' \in Edges /\ EdgesOK(space', matter')
        /\ time' \in Edges /\ EdgesOK(time', matter')
    BY <1>0, <2>1, <2>2, <2>3, ErasedOK
  <2>5. \A g \in Frames : matter'[g] = IF g \in nodes THEN None ELSE matter[g]
    BY <2>1 DEF Erased
  <2>6. TypeOK' /\ LinksOK'
    BY <1>0, <2>1, <2>4 DEF TypeOK, LinksOK, Links, Erased
  <2>7. Forest'
    BY <1>0, <2>5, NoneAssumption DEF Forest, NoCircle
  <2>8. ParentsLive'
    BY <2>1, <2>2, <2>5, <1>0 DEF IInv, ParentsLive, Links
  <2> QED BY <2>6, <2>7, <2>8 DEF IInv
<1>5. ASSUME NEW f \in Frames, NEW p \in Frames, Prepend(p, f) PROVE IInv'
  <2>1. space' \in Edges /\ EdgesOK(space', [matter EXCEPT ![f] = p])
    BY <1>0, <1>5, PrependEdgeOK DEF Prepend, Joinable
  <2> QED BY <1>5, <2>1, InsertionStep DEF Prepend
<1>6. ASSUME NEW f \in Frames, NEW p \in Frames, AppendChild(p, f) PROVE IInv'
  <2>1. space' \in Edges /\ EdgesOK(space', [matter EXCEPT ![f] = p])
    BY <1>0, <1>6, AppendEdgeOK DEF AppendChild, Joinable
  <2> QED BY <1>6, <2>1, InsertionStep DEF AppendChild
<1>7. ASSUME NEW f \in Frames, NEW a \in Frames, Prejoin(a, f) PROVE IInv'
  <2> DEFINE p == matter[a]
  <2>1. p \in Frames /\ matter[f] = None /\ Joinable(f, p)
    BY <1>0, <1>7 DEF Prejoin, Joinable, Links
  <2>2. space' \in Edges /\ EdgesOK(space', [matter EXCEPT ![f] = p])
    <3>1. CASE space.prev[a] = None
      BY <1>0, <1>7, <2>1, <3>1, PrependEdgeOK DEF Prejoin
    <3>2. CASE space.prev[a] # None
      <4>1. /\ space.prev[a] \in Frames /\ space.next[space.prev[a]] = a
            /\ matter[space.prev[a]] = p
        BY <1>0, <3>2 DEF Edges, Links, EdgesOK, SiblingsLinked
      <4> QED BY <1>0, <1>7, <2>1, <3>2, <4>1, JoinedOK DEF Prejoin
    <3> QED BY <3>1, <3>2
  <2>3. /\ matter' = [matter EXCEPT ![f] = p] /\ UNCHANGED live
        /\ time' = AppendEdge(time, p, f)
    BY <1>7 DEF Prejoin
  <2> HIDE DEF p
  <2> QED BY <2>1, <2>2, <2>3, InsertionStep
<1>8. ASSUME NEW f \in Frames, NEW a \in Frames, Adjoin(a, f) PROVE IInv'
  <2> DEFINE p == matter[a]
  <2>1. p \in Frames /\ matter[f] = None /\ Joinable(f, p)
    BY <1>0, <1>8 DEF Adjoin, Joinable, Links
  <2>2. space' \in Edges /\ EdgesOK(space', [matter EXCEPT ![f] = p])
    <3>1. CASE space.next[a] = None
      BY <1>0, <1>8, <2>1, <3>1, AppendEdgeOK DEF Adjoin
    <3>2. CASE space.next[a] # None
      <4>1. space.next[a] \in Frames
        BY <1>0, <3>2 DEF Edges, Links
      <4> QED BY <1>0, <1>8, <2>1, <3>2, <4>1, JoinedOK DEF Adjoin
    <3> QED BY <3>1, <3>2
  <2>3. /\ matter' = [matter EXCEPT ![f] = p] /\ UNCHANGED live
        /\ time' = AppendEdge(time, p, f)
    BY <1>8 DEF Adjoin
  <2> HIDE DEF p
  <2> QED BY <2>1, <2>2, <2>3, InsertionStep
<1>9. CASE UNCHANGED vars
  BY <1>9 DEF vars, IInv, TypeOK, LinksOK, Forest, ParentsLive
<1> QED BY <1>1, <1>2, <1>3, <1>4, <1>5, <1>6, <1>7, <1>8, <1>9 DEF Next

(* The invariant leaves no pointer to a freed node.                        *)
LEMMA IInvNoDangling == IInv => NoDanglingPointer
<1> SUFFICES ASSUME IInv,
                    NEW f \in Frames, NEW e \in {space, time}
             PROVE  /\ matter[f] \in live \union {None}
                    /\ {e.prev[f], e.next[f], e.first[f], e.last[f]}
                            \subseteq live \union {None}
  BY DEF NoDanglingPointer
<1>1. /\ e \in Edges /\ EdgesOK(e, matter)
      /\ matter \in Links
  BY DEF IInv, TypeOK, LinksOK
<1>2. \A g \in Frames : matter[g] # None => g \in live
  BY DEF IInv, ParentsLive
<1>3. e.next[f] \in live \union {None} /\ e.prev[f] \in live \union {None}
  BY <1>1, <1>2 DEF EdgesOK, SiblingsLinked, Edges, Links
<1>4. e.first[f] \in live \union {None} /\ e.last[f] \in live \union {None}
  BY <1>1, <1>2, NoneAssumption DEF EdgesOK, EndsLinked, Edges, Links
<1>5. matter[f] \in live \union {None}
  BY DEF IInv, ParentsLive
<1> QED BY <1>3, <1>4, <1>5

-----------------------------------------------------------------------------
(* The inductive invariant holds in every state.                           *)
THEOREM Invariance == Spec => []IInv
<1> QED BY InitIInv, NextIInv, PTL DEF Spec

(* Every pointer field holds a node or null. *)
THEOREM TypeCorrect == Spec => []TypeOK
<1>1. IInv => TypeOK
  BY DEF IInv
<1> QED BY <1>1, Invariance, PTL

(* Whatever the sequence of frame operations, both sibling lists of every  *)
(* frame stay sound doubly linked lists of exactly its children.           *)
THEOREM ListsSound == Spec => []LinksOK
<1>1. IInv => LinksOK
  BY DEF IInv
<1> QED BY <1>1, Invariance, PTL

(* The frames always form a forest: the recursive walks of frame.rs end.   *)
THEOREM FramesFormForest == Spec => []Forest
<1>1. IInv => Forest
  BY DEF IInv
<1> QED BY <1>1, Invariance, PTL

(* The unsafe blocks of frame.rs never follow a pointer to a freed node.   *)
THEOREM PointersSafe == Spec => []NoDanglingPointer
<1> QED BY IInvNoDangling, Invariance, PTL

-----------------------------------------------------------------------------
(* The lists walked along the pointers.                                    *)
(* s is the chain of frames that starts at f and follows next to its end.  *)
Chain(s, e, f) ==
    /\ s \in Seq(Frames) /\ s # <<>> /\ s[1] = f
    /\ \A i \in 1..Len(s) : e.next[s[i]] = IF i = Len(s) THEN None ELSE s[i + 1]

(* A chain from the next frame makes a chain from this one.                *)
LEMMA ChainGrows ==
    ASSUME NEW e \in Edges, NEW f \in Frames, e.next[f] \in Frames, NEW s, Chain(s, e, e.next[f])
    PROVE  Chain(<<f>> \o s, e, f)
<1> DEFINE t == <<f>> \o s
<1>1. /\ t \in Seq(Frames) /\ Len(t) = Len(s) + 1 /\ t[1] = f /\ Len(s) \in Nat \ {0}
      /\ \A i \in 1..Len(t) : i # 1 => t[i] = s[i - 1] /\ i - 1 \in 1..Len(s)
  BY DEF Chain
<1> HIDE DEF t
<1>2. ASSUME NEW i \in 1..Len(t) PROVE e.next[t[i]] = IF i = Len(t) THEN None ELSE t[i + 1]
  <2>1. CASE i = 1
    <3>1. t[2] = s[1] /\ 2 # 1 /\ Len(t) # 1
      BY <1>1
    <3> QED BY <1>1, <2>1, <3>1 DEF Chain
  <2>2. CASE i # 1
    <3>1. t[i] = s[i - 1] /\ i - 1 \in 1..Len(s)
      BY <1>1, <2>2
    <3>2. CASE i = Len(t)
      <4>1. i - 1 = Len(s)
        BY <1>1, <3>2
      <4> QED BY <3>1, <3>2, <4>1 DEF Chain
    <3>3. CASE i # Len(t)
      <4>1. t[i + 1] = s[(i - 1) + 1] /\ i - 1 # Len(s)
        BY <1>1, <2>2, <3>3
      <4> QED BY <3>1, <3>3, <4>1 DEF Chain
    <3> QED BY <3>2, <3>3
  <2> QED BY <2>1, <2>2
<1> QED BY <1>1, <1>2 DEF Chain, t

(* Every frame starts a chain: the frames that start none would form a     *)
(* circle.                                                                 *)
LEMMA ChainExists ==
    ASSUME NEW e \in Edges, NoCircle(e.next), NEW f \in Frames
    PROVE  \E s : Chain(s, e, f)
<1> DEFINE ring == {g \in Frames : ~\E s : Chain(s, e, g)}
<1>1. \A g \in Frames : e.next[g] \in Frames \union {None}
  BY DEF Edges, Links
<1>2. ASSUME NEW g \in ring PROVE e.next[g] \in ring
  <2>1. CASE e.next[g] = None
    <3>1. Chain(<<g>>, e, g)
      BY <2>1 DEF Chain
    <3> QED BY <3>1
  <2>2. CASE e.next[g] \in Frames /\ e.next[g] \notin ring
    <3>1. PICK s : Chain(s, e, e.next[g])
      BY <2>2
    <3>2. Chain(<<g>> \o s, e, g)
      BY <2>2, <3>1, ChainGrows
    <3> QED BY <3>2
  <2> QED BY <1>1, <2>1, <2>2
<1>3. ring = {}
  BY <1>2 DEF NoCircle
<1> QED BY <1>3

(* One chain agrees with another as far as it goes, so there is only one.  *)
LEMMA ChainUnique ==
    ASSUME NEW e \in Edges, NEW f, NEW s, NEW t, Chain(s, e, f), Chain(t, e, f)
    PROVE  Len(s) <= Len(t) /\ \A i \in 1..Len(s) : s[i] = t[i]
<1> DEFINE S == {k \in Nat : k + 1 <= Len(s) => k + 1 <= Len(t) /\ s[k + 1] = t[k + 1]}
<1>1. /\ s \in Seq(Frames) /\ t \in Seq(Frames) /\ Len(s) \in Nat \ {0} /\ Len(t) \in Nat \ {0}
      /\ s[1] = f /\ t[1] = f /\ \A i \in 1..Len(s) : s[i] \in Frames
  BY DEF Chain
<1>2. 0 \in S
  BY <1>1
<1>3. ASSUME NEW k \in Nat, k \in S PROVE k + 1 \in S
  <2> SUFFICES ASSUME k + 2 <= Len(s) PROVE k + 2 <= Len(t) /\ s[k + 2] = t[k + 2]
    BY <1>1
  <2>1. /\ k + 1 \in 1..Len(s) /\ k + 1 # Len(s) /\ k + 2 \in 1..Len(s) /\ (k + 1) + 1 = k + 2
        /\ k + 1 \in 1..Len(t) /\ s[k + 1] = t[k + 1]
    BY <1>1, <1>3
  <2>2. e.next[s[k + 1]] = s[k + 2] /\ s[k + 2] # None
    BY <1>1, <2>1, NoneAssumption DEF Chain
  <2>3. k + 1 # Len(t) /\ e.next[t[k + 1]] = t[k + 2]
    BY <2>1, <2>2 DEF Chain
  <2> QED BY <1>1, <2>1, <2>2, <2>3
<1>4. Nat \subseteq S
  <2> HIDE DEF S
  <2> QED BY <1>2, <1>3, SetInduction
<1>5. ASSUME NEW i \in 1..Len(s) PROVE i <= Len(t) /\ s[i] = t[i]
  <2>1. i - 1 \in Nat /\ (i - 1) + 1 = i /\ i <= Len(s)
    BY <1>1
  <2>2. i - 1 \in S
    BY <1>4, <2>1
  <2> QED BY <2>1, <2>2
<1> QED BY <1>1, <1>5

LEMMA SameChain ==
    ASSUME NEW e \in Edges, NEW f, NEW s, NEW t, Chain(s, e, f), Chain(t, e, f)
    PROVE  s = t
<1>1. Len(s) = Len(t) /\ \A i \in 1..Len(s) : s[i] = t[i]
  <2>1. Len(s) <= Len(t) /\ \A i \in 1..Len(s) : s[i] = t[i]
    BY ChainUnique
  <2>2. Len(t) <= Len(s)
    BY ChainUnique
  <2>3. Len(s) \in Nat /\ Len(t) \in Nat
    BY DEF Chain
  <2> QED BY <2>1, <2>2, <2>3
<1> QED BY <1>1 DEF Chain

(* The recursion of Walk, which is a chain.                                *)
Follows(from, e) ==
    from = [f \in Frames |-> <<f>> \o (IF e.next[f] = None THEN <<>> ELSE from[e.next[f]])]

(* The recursion has a solution: the function from a frame to its chain.   *)
LEMMA FollowsExists ==
    ASSUME NEW e \in Edges, NoCircle(e.next)
    PROVE  \E from : Follows(from, e)
<1> DEFINE from == [f \in Frames |-> CHOOSE s : Chain(s, e, f)]
           next == [f \in Frames |-> <<f>> \o (IF e.next[f] = None THEN <<>> ELSE from[e.next[f]])]
<1>1. \A f \in Frames : Chain(from[f], e, f)
  BY ChainExists
<1> HIDE DEF from
<1>2. ASSUME NEW f \in Frames PROVE Chain(next[f], e, f)
  <2>1. CASE e.next[f] = None
    <3>1. next[f] = <<f>> \o <<>>
      BY <2>1
    <3>2. next[f] = <<f>>
      BY <3>1
    <3> HIDE DEF next
    <3> QED BY <2>1, <3>2 DEF Chain
  <2>2. CASE e.next[f] # None
    <3>1. e.next[f] \in Frames
      BY <2>2 DEF Edges, Links
    <3>2. next[f] = <<f>> \o from[e.next[f]]
      BY <2>2
    <3> HIDE DEF next
    <3> QED BY <1>1, <3>1, <3>2, ChainGrows
  <2> QED BY <2>1, <2>2
<1>3. \A f \in Frames : next[f] = from[f]
  <2> HIDE DEF next
  <2> QED BY <1>1, <1>2, SameChain
<1>4. next = [f \in Frames |-> next[f]]
  OBVIOUS
<1>5. from = next
  <2>1. from = [f \in Frames |-> from[f]]
    BY DEF from
  <2> HIDE DEF next
  <2> QED BY <1>3, <1>4, <2>1
<1>6. Follows(from, e)
  BY <1>5 DEF Follows
<1> QED BY <1>6

(* Walk picks some solution; whichever it is, the walk is the chain.       *)
LEMMA WalkChain ==
    ASSUME NEW e \in Edges, NoCircle(e.next), NEW p \in Frames
    PROVE  IF e.first[p] = None THEN Walk(e, p) = <<>> ELSE Chain(Walk(e, p), e, e.first[p])
<1> DEFINE from == CHOOSE from : Follows(from, e)
<1>1. Walk(e, p) = IF e.first[p] = None THEN <<>> ELSE from[e.first[p]]
  BY DEF Walk, Follows
<1>2. Follows(from, e)
  BY FollowsExists
<1> HIDE DEF from
<1> DEFINE ring == {f \in Frames : ~Chain(from[f], e, f)}
<1>3. ASSUME NEW f \in Frames PROVE from[f] = <<f>> \o (IF e.next[f] = None THEN <<>> ELSE from[e.next[f]])
  BY <1>2 DEF Follows
<1>4. ASSUME NEW f \in ring PROVE e.next[f] \in ring
  <2>1. CASE e.next[f] = None
    <3>1. from[f] = <<f>> \o <<>> /\ f \in Frames
      BY <1>3, <2>1
    <3>2. <<f>> \o <<>> = <<f>>
      BY <3>1
    <3>3. Chain(<<f>>, e, f)
      BY <2>1, <3>1 DEF Chain
    <3> QED BY <3>1, <3>2, <3>3
  <2>2. CASE e.next[f] # None
    <3>1. e.next[f] \in Frames
      BY <2>2 DEF Edges, Links
    <3>2. from[f] = <<f>> \o from[e.next[f]]
      BY <1>3, <2>2
    <3> QED BY <3>1, <3>2, ChainGrows
  <2> QED BY <2>1, <2>2
<1>5. ring = {}
  BY <1>4 DEF NoCircle
<1>6. e.first[p] \in Frames \union {None}
  BY DEF Edges, Links
<1> QED BY <1>1, <1>5, <1>6

(* s is the list of the children of p.                                     *)
Lists(s, e, p) ==
    /\ s \in Seq(Frames)
    /\ e.first[p] = IF s = <<>> THEN None ELSE s[1]
    /\ \A i \in 1..Len(s) : e.next[s[i]] = IF i = Len(s) THEN None ELSE s[i + 1]

(* Walking a frame's children lists them, and nothing else lists them.     *)
LEMMA WalkLists ==
    ASSUME NEW e \in Edges, NoCircle(e.next), NEW p \in Frames
    PROVE  Lists(Walk(e, p), e, p)
<1>1. CASE e.first[p] = None
  <2>1. Walk(e, p) = <<>>
    BY <1>1, WalkChain
  <2>2. Lists(<<>>, e, p)
    BY <1>1 DEF Lists
  <2> QED BY <2>1, <2>2
<1>2. CASE e.first[p] # None
  BY <1>2, WalkChain DEF Lists, Chain
<1> QED BY <1>1, <1>2

LEMMA ListsWalk ==
    ASSUME NEW e \in Edges, NoCircle(e.next), NEW p \in Frames, NEW s, Lists(s, e, p)
    PROVE  s = Walk(e, p)
<1>1. CASE s = <<>>
  BY <1>1, WalkChain DEF Lists
<1>2. CASE s # <<>>
  <2>1. s \in Seq(Frames) /\ Len(s) \in Nat \ {0} /\ s[1] \in Frames
    BY <1>2 DEF Lists
  <2>2. e.first[p] = s[1] /\ e.first[p] # None /\ Chain(s, e, e.first[p])
    BY <1>2, <2>1, NoneAssumption DEF Lists, Chain
  <2> QED BY <2>2, WalkChain, SameChain
<1> QED BY <1>1, <1>2

(* It holds each child once, and prev and last belong to it.               *)
LEMMA ListOfChildren ==
    ASSUME NEW e \in Edges, NEW m \in Links, EdgesOK(e, m), NEW p \in Frames, NEW s, Lists(s, e, p)
    PROVE  /\ s \in Seq(Frames) /\ Len(s) \in Nat
           /\ \A i \in 1..Len(s) : s[i] \in Frames /\ m[s[i]] = p
           /\ \A f \in Frames : m[f] = p => \E i \in 1..Len(s) : s[i] = f
           /\ \A i, j \in 1..Len(s) : s[i] = s[j] => i = j
           /\ \A i \in 1..Len(s) : e.prev[s[i]] = IF i = 1 THEN None ELSE s[i - 1]
           /\ e.last[p] = IF s = <<>> THEN None ELSE s[Len(s)]
<1>1. /\ s \in Seq(Frames) /\ Len(s) \in Nat /\ \A i \in 1..Len(s) : s[i] \in Frames /\ s[i] # None
      /\ s = <<>> <=> Len(s) = 0
      /\ \A i \in 1..Len(s) : i = Len(s) \/ i + 1 \in 1..Len(s)
      /\ \A i \in 1..Len(s) : i = 1 \/ (i - 1 \in 1..Len(s) /\ (i - 1) + 1 = i /\ i - 1 # Len(s))
  BY NoneAssumption DEF Lists
<1>2. \A i \in 1..Len(s) : e.next[s[i]] = IF i = Len(s) THEN None ELSE s[i + 1]
  BY DEF Lists
<1>3. s # <<>> => 1 \in 1..Len(s) /\ e.first[p] = s[1] /\ m[s[1]] = p /\ e.prev[s[1]] = None
  BY <1>1 DEF Lists, EdgesOK, EndsLinked
<1>4. ASSUME NEW i \in 1..Len(s) PROVE e.prev[s[i]] = IF i = 1 THEN None ELSE s[i - 1]
  <2>1. CASE i = 1
    BY <1>1, <1>3, <2>1
  <2>2. CASE i # 1
    <3>1. e.next[s[i - 1]] = s[i] /\ s[i - 1] \in Frames /\ s[i] \in Frames
      BY <1>1, <1>2, <2>2
    <3> QED BY <2>2, <3>1 DEF EdgesOK, SiblingsLinked
  <2> QED BY <2>1, <2>2
<1>5. ASSUME NEW i \in 1..Len(s) PROVE m[s[i]] = p
  <2> DEFINE ring == {g \in Frames : m[g] # p /\ \E k \in 1..Len(s) : s[k] = g}
  <2> SUFFICES ASSUME m[s[i]] # p PROVE FALSE
    OBVIOUS
  <2>1. s[i] \in ring
    BY <1>1
  <2>2. ring \in SUBSET Frames /\ ring # {}
    BY <2>1
  <2>3. PICK g \in ring : e.prev[g] \notin ring
    BY <2>2 DEF EdgesOK, NoCircle
  <2>4. PICK k \in 1..Len(s) : s[k] = g
    BY <2>3
  <2>5. k # 1
    BY <1>1, <1>3, <2>3, <2>4
  <2>6. e.prev[g] = s[k - 1] /\ s[k - 1] \in Frames /\ k - 1 \in 1..Len(s) /\ e.next[s[k - 1]] = g
    BY <1>1, <1>2, <1>4, <2>4, <2>5
  <2>7. m[s[k - 1]] = m[g]
    BY <2>3, <2>6 DEF EdgesOK, SiblingsLinked
  <2> QED BY <2>3, <2>6, <2>7
<1>6. ASSUME NEW f \in Frames, m[f] = p PROVE \E i \in 1..Len(s) : s[i] = f
  <2> DEFINE ring == {g \in Frames : m[g] = p /\ ~\E k \in 1..Len(s) : s[k] = g}
  <2> SUFFICES ASSUME ~\E i \in 1..Len(s) : s[i] = f PROVE FALSE
    OBVIOUS
  <2>1. f \in ring
    BY <1>6
  <2>2. ring \in SUBSET Frames /\ ring # {}
    BY <2>1
  <2>3. PICK g \in ring : e.prev[g] \notin ring
    BY <2>2 DEF EdgesOK, NoCircle
  <2>4. CASE e.prev[g] = None
    <3>1. e.first[p] = g
      BY <2>3, <2>4 DEF EdgesOK, EndsLinked
    <3> QED BY <1>1, <1>3, <2>3, <3>1, NoneAssumption DEF Lists
  <2>5. CASE e.prev[g] # None
    <3>1. e.prev[g] \in Frames
      BY <2>3, <2>5 DEF Edges, Links
    <3>2. e.next[e.prev[g]] = g /\ m[e.prev[g]] = p
      BY <2>3, <3>1 DEF EdgesOK, SiblingsLinked
    <3>3. PICK k \in 1..Len(s) : s[k] = e.prev[g]
      BY <2>3, <3>1, <3>2
    <3>4. g = IF k = Len(s) THEN None ELSE s[k + 1]
      BY <1>2, <3>2, <3>3
    <3> QED BY <1>1, <2>3, <3>4, NoneAssumption
  <2> QED BY <2>4, <2>5
<1>7. ASSUME NEW i \in 1..Len(s), NEW j \in 1..Len(s), s[i] = s[j], i < j PROVE FALSE
  <2> DEFINE ring == {s[k] : k \in i..(j - 1)}
  <2>1. \A k \in i..(j - 1) : k \in 1..Len(s) /\ k # Len(s) /\ k + 1 \in i..j
    BY <1>1
  <2>2. ring \in SUBSET Frames /\ s[i] \in ring
    BY <1>1, <1>7, <2>1
  <2>3. PICK g \in ring : e.next[g] \notin ring
    BY <2>2 DEF EdgesOK, NoCircle
  <2>4. PICK k \in i..(j - 1) : g = s[k]
    BY <2>3
  <2>5. e.next[g] = s[k + 1]
    BY <1>2, <2>1, <2>4
  <2>6. k + 1 = j \/ k + 1 \in i..(j - 1)
    BY <2>1
  <2> QED BY <1>7, <2>2, <2>3, <2>5, <2>6
<1>8. \A i, j \in 1..Len(s) : s[i] = s[j] => i = j
  <2> TAKE i, j \in 1..Len(s)
  <2>1. i < j \/ j < i \/ i = j
    BY <1>1
  <2> QED BY <1>7, <2>1
<1>9. e.last[p] = IF s = <<>> THEN None ELSE s[Len(s)]
  <2>1. CASE s = <<>>
    <3>1. e.last[p] \in Frames \union {None}
      BY DEF Edges, Links
    <3>2. e.last[p] \notin Frames
      BY <1>1, <1>6, <2>1 DEF EdgesOK, EndsLinked
    <3> QED BY <2>1, <3>1, <3>2
  <2>2. CASE s # <<>>
    <3>1. Len(s) \in 1..Len(s)
      BY <1>1, <2>2
    <3> QED BY <1>1, <1>2, <1>5, <2>2, <3>1 DEF EdgesOK, EndsLinked
  <2> QED BY <2>1, <2>2
<1> QED BY <1>1, <1>4, <1>5, <1>6, <1>8, <1>9

-----------------------------------------------------------------------------
(* t is s with f put behind the first k.                                   *)
PutBehind(t, s, k, f) ==
    /\ t \in Seq(Frames) /\ Len(t) = Len(s) + 1
    /\ \A i \in 1..k : t[i] = s[i]
    /\ t[k + 1] = f
    /\ \A i \in (k + 1)..Len(s) : t[i + 1] = s[i]

(* The neighbours of the place behind the first k.                         *)
Before(s, k) == IF k = 0 THEN None ELSE s[k]
Behind(s, k) == IF k = Len(s) THEN None ELSE s[k + 1]

(* Putting f between those neighbours puts it at that place of the list.   *)
LEMMA InsertedLists ==
    ASSUME NEW e \in Edges, NEW m \in Links, EdgesOK(e, m), NEW p \in Frames, NEW s, Lists(s, e, p),
           NEW f \in Frames, m[f] = None, NEW k \in 0..Len(s), NEW t, PutBehind(t, s, k, f)
    PROVE  Lists(t, Inserted(e, p, Before(s, k), f, Behind(s, k)), p)
<1> DEFINE a == Before(s, k)
           b == Behind(s, k)
           d == Inserted(e, p, a, f, b)
<1>1. /\ s \in Seq(Frames) /\ Len(s) \in Nat /\ \A i \in 1..Len(s) : s[i] \in Frames /\ s[i] # f
      /\ \A i, j \in 1..Len(s) : s[i] = s[j] => i = j
  BY ListOfChildren, NoneAssumption
<1>2. /\ t \in Seq(Frames) /\ Len(t) = Len(s) + 1 /\ t # <<>> /\ t[k + 1] = f
      /\ \A i \in 1..k : t[i] = s[i] /\ i \in 1..Len(s)
      /\ \A i \in 1..Len(t) : i <= k \/ i = k + 1 \/ (i - 1 \in 1..Len(s) /\ i - 1 > k /\ t[i] = s[i - 1])
  <2>1. t \in Seq(Frames) /\ Len(t) = Len(s) + 1 /\ t # <<>> /\ t[k + 1] = f /\ \A i \in 1..k : t[i] = s[i]
    BY <1>1 DEF PutBehind
  <2>2. ASSUME NEW i \in 1..Len(t), ~(i <= k), i # k + 1 PROVE i - 1 \in 1..Len(s) /\ i - 1 > k /\ t[i] = s[i - 1]
    <3>1. i - 1 \in (k + 1)..Len(s) /\ (i - 1) + 1 = i
      BY <1>1, <2>1, <2>2
    <3>2. t[(i - 1) + 1] = s[i - 1]
      BY <3>1 DEF PutBehind
    <3> QED BY <3>1, <3>2
  <2> QED BY <1>1, <2>1, <2>2
<1>3. /\ \A g \in Frames : d.next[g] = IF g = f THEN b ELSE IF g = a THEN f ELSE e.next[g]
      /\ d.first[p] = IF a = None THEN f ELSE e.first[p]
  BY DEF Inserted
<1>4. \A i \in 1..Len(s) : e.next[s[i]] = IF i = Len(s) THEN None ELSE s[i + 1]
  BY DEF Lists
<1>5. a = (IF k = 0 THEN None ELSE s[k]) /\ b = (IF k = Len(s) THEN None ELSE s[k + 1])
  BY DEF Before, Behind
<1> HIDE DEF a, b, d
<1>6. d.first[p] = t[1]
  <2>1. CASE k = 0
    BY <1>2, <1>3, <1>5, <2>1
  <2>2. CASE k # 0
    <3>1. s # <<>> /\ k \in 1..Len(s) /\ t[1] = s[1]
      BY <1>1, <1>2, <2>2
    <3>2. a \in Frames
      BY <1>1, <1>5, <2>2, <3>1
    <3> QED BY <1>3, <3>1, <3>2, NoneAssumption DEF Lists
  <2> QED BY <2>1, <2>2
<1>7. ASSUME NEW i \in 1..Len(t) PROVE d.next[t[i]] = IF i = Len(t) THEN None ELSE t[i + 1]
  <2>1. CASE i < k
    <3>1. i \in 1..Len(s) /\ t[i] = s[i] /\ i + 1 \in 1..k /\ t[i + 1] = s[i + 1] /\ i # Len(s) /\ i # Len(t) /\ k # 0 /\ k \in 1..Len(s)
      BY <1>1, <1>2, <2>1
    <3>2. s[i] # a /\ s[i] # f
      BY <1>1, <1>5, <2>1, <3>1
    <3>3. s[i] \in Frames /\ e.next[s[i]] = s[i + 1]
      BY <1>1, <1>4, <3>1
    <3>4. d.next[s[i]] = e.next[s[i]]
      BY <1>3, <3>2, <3>3
    <3> QED BY <3>1, <3>3, <3>4
  <2>2. CASE i = k
    <3>1. k # 0 /\ t[i] = a /\ a # f /\ a \in Frames /\ t[i + 1] = f /\ i # Len(t)
      BY <1>1, <1>2, <1>5, <2>2
    <3> QED BY <1>3, <3>1
  <2>3. CASE i = k + 1
    <3>1. d.next[t[i]] = b
      BY <1>2, <1>3, <2>3
    <3>2. CASE k = Len(s)
      BY <1>2, <1>5, <2>3, <3>1, <3>2
    <3>3. CASE k # Len(s)
      <4>1. k + 2 \in 1..Len(t) /\ (k + 2) - 1 = k + 1 /\ i # Len(t) /\ i + 1 = k + 2
        BY <1>1, <1>2, <2>3, <3>3
      <4>2. t[k + 2] = s[k + 1]
        BY <1>2, <4>1
      <4> QED BY <1>5, <3>1, <3>3, <4>1, <4>2
    <3> QED BY <3>2, <3>3
  <2>4. CASE i > k + 1
    <3>1. i - 1 \in 1..Len(s) /\ i - 1 > k /\ t[i] = s[i - 1]
      BY <1>2, <2>4
    <3>2. s[i - 1] # f /\ s[i - 1] # a /\ s[i - 1] \in Frames
      <4>1. CASE k = 0
        BY <1>1, <1>5, <3>1, <4>1, NoneAssumption
      <4>2. CASE k # 0
        <5>1. k \in 1..Len(s) /\ i - 1 # k
          BY <1>1, <3>1, <4>2
        <5> QED BY <1>1, <1>5, <3>1, <4>2, <5>1
      <4> QED BY <4>1, <4>2
    <3>3. d.next[t[i]] = IF i - 1 = Len(s) THEN None ELSE s[(i - 1) + 1]
      BY <1>3, <1>4, <3>1, <3>2
    <3>4. CASE i = Len(t)
      BY <1>1, <1>2, <3>3, <3>4
    <3>5. CASE i # Len(t)
      <4>1. i - 1 # Len(s) /\ i + 1 \in 1..Len(t) /\ (i - 1) + 1 = i /\ (i + 1) - 1 = i
        <5>1. Len(s) \in Nat /\ Len(t) = Len(s) + 1
          BY <1>1, <1>2
        <5> QED BY <2>4, <3>5, <5>1
      <4>2. t[i + 1] = s[i]
        BY <1>2, <2>4, <4>1
      <4> QED BY <3>3, <3>5, <4>1, <4>2
    <3> QED BY <3>4, <3>5
  <2>5. i < k \/ i = k \/ i = k + 1 \/ i > k + 1
    BY <1>2
  <2> QED BY <2>1, <2>2, <2>3, <2>4, <2>5
<1> QED BY <1>2, <1>6, <1>7 DEF Lists, a, b, d

(* The other lists stay as they are.                                       *)
LEMMA InsertedElsewhere ==
    ASSUME NEW e \in Edges, NEW m \in Links, EdgesOK(e, m), NEW p \in Frames, NEW a, NEW b,
           Gap(e, m, p, a, b), NEW f \in Frames, m[f] = None, NEW q \in Frames, q # p, NEW u, Lists(u, e, q)
    PROVE  Lists(u, Inserted(e, p, a, f, b), q)
<1> DEFINE d == Inserted(e, p, a, f, b)
<1>1. /\ \A g \in Frames : d.next[g] = IF g = f THEN b ELSE IF g = a THEN f ELSE e.next[g]
      /\ d.first[q] = e.first[q]
  BY DEF Inserted
<1>2. \A i \in 1..Len(u) : u[i] \in Frames /\ m[u[i]] = q
  BY ListOfChildren
<1>3. a # None => m[a] = p
  BY DEF Gap
<1> HIDE DEF d
<1>4. \A i \in 1..Len(u) : u[i] # f /\ u[i] # a
  BY <1>2, <1>3, NoneAssumption
<1>5. \A i \in 1..Len(u) : d.next[u[i]] = e.next[u[i]]
  BY <1>1, <1>2, <1>4
<1>6. u \in Seq(Frames) /\ d.first[q] = (IF u = <<>> THEN None ELSE u[1])
  BY <1>1 DEF Lists
<1>7. \A i \in 1..Len(u) : d.next[u[i]] = IF i = Len(u) THEN None ELSE u[i + 1]
  BY <1>5 DEF Lists
<1> QED BY <1>6, <1>7 DEF Lists, d

(* t is s without its k-th.                                                *)
LeftOut(t, s, k) ==
    /\ t \in Seq(Frames) /\ Len(t) = Len(s) - 1
    /\ \A i \in 1..(k - 1) : t[i] = s[i]
    /\ \A i \in k..(Len(s) - 1) : t[i] = s[i + 1]

(* Taking a frame's edges out takes it out of the list.                    *)
LEMMA RemovedLists ==
    ASSUME NEW e \in Edges, NEW m \in Links, EdgesOK(e, m), NEW p \in Frames, NEW s, Lists(s, e, p),
           NEW k \in 1..Len(s), NEW t, LeftOut(t, s, k)
    PROVE  Lists(t, Removed(e, p, s[k]), p)
<1> DEFINE f == s[k]
           d == Removed(e, p, f)
<1>1. /\ s \in Seq(Frames) /\ Len(s) \in Nat /\ \A i \in 1..Len(s) : s[i] \in Frames
      /\ \A i, j \in 1..Len(s) : s[i] = s[j] => i = j
      /\ \A i \in 1..Len(s) : e.prev[s[i]] = IF i = 1 THEN None ELSE s[i - 1]
  BY ListOfChildren
<1>2. \A i \in 1..Len(s) : e.next[s[i]] = IF i = Len(s) THEN None ELSE s[i + 1]
  BY DEF Lists
<1>3. /\ \A g \in Frames : d.next[g] = IF g = f THEN None ELSE IF g = e.prev[f] THEN e.next[f] ELSE e.next[g]
      /\ d.first[p] = IF e.prev[f] = None THEN e.next[f] ELSE e.first[p]
  BY DEF Removed
<1>4. e.prev[f] = (IF k = 1 THEN None ELSE s[k - 1]) /\ e.next[f] = (IF k = Len(s) THEN None ELSE s[k + 1])
  BY <1>1, <1>2
<1>5. /\ t \in Seq(Frames) /\ Len(t) = Len(s) - 1 /\ Len(t) \in Nat /\ (t = <<>> <=> Len(t) = 0)
      /\ \A i \in 1..Len(t) : IF i < k THEN t[i] = s[i] /\ i \in 1..Len(s)
                              ELSE t[i] = s[i + 1] /\ i + 1 \in 1..Len(s)
  <2>1. t \in Seq(Frames) /\ Len(t) = Len(s) - 1 /\ Len(t) \in Nat /\ (t = <<>> <=> Len(t) = 0)
    BY <1>1 DEF LeftOut
  <2>2. ASSUME NEW i \in 1..Len(t), i < k PROVE t[i] = s[i] /\ i \in 1..Len(s)
    <3>1. i \in 1..(k - 1)
      BY <2>2
    <3> QED BY <1>1, <3>1 DEF LeftOut
  <2>3. ASSUME NEW i \in 1..Len(t), ~(i < k) PROVE t[i] = s[i + 1] /\ i + 1 \in 1..Len(s)
    <3>1. i \in k..(Len(s) - 1)
      BY <1>1, <2>1, <2>3
    <3> QED BY <1>1, <3>1 DEF LeftOut
  <2> QED BY <2>1, <2>2, <2>3
<1>6. f \in Frames
  BY <1>1
<1> HIDE DEF d, f
<1>7. d.first[p] = IF t = <<>> THEN None ELSE t[1]
  <2>1. CASE k = 1
    <3>1. d.first[p] = IF Len(s) = 1 THEN None ELSE s[2]
      BY <1>3, <1>4, <2>1
    <3> QED BY <1>1, <1>5, <2>1, <3>1
  <2>2. CASE k # 1
    <3>1. s[k - 1] # None /\ s # <<>> /\ 1 \in 1..Len(t) /\ 1 < k
      BY <1>1, <1>5, <2>2, NoneAssumption
    <3>2. d.first[p] = s[1]
      BY <1>3, <1>4, <2>2, <3>1 DEF Lists
    <3> QED BY <1>5, <3>1, <3>2
  <2> QED BY <2>1, <2>2
<1>8. ASSUME NEW i \in 1..Len(t) PROVE d.next[t[i]] = IF i = Len(t) THEN None ELSE t[i + 1]
  <2>1. CASE i < k - 1
    <3>1. t[i] = s[i] /\ i \in 1..Len(s) /\ i # k /\ k - 1 \in 1..Len(s) /\ i # k - 1 /\ k # 1 /\ i < k /\ i # Len(s)
      BY <1>1, <1>5, <2>1
    <3>2. s[i] # f /\ s[i] # e.prev[f]
      BY <1>1, <1>4, <3>1 DEF f
    <3>3. d.next[t[i]] = s[i + 1]
      <4>1. s[i] \in Frames /\ e.next[s[i]] = s[i + 1]
        BY <1>1, <1>2, <3>1
      <4> QED BY <1>3, <3>1, <3>2, <4>1
    <3>4. i + 1 \in 1..Len(t) /\ i + 1 < k /\ i # Len(t)
      BY <1>1, <1>5, <2>1
    <3> QED BY <1>5, <3>3, <3>4
  <2>2. CASE i = k - 1
    <3>1. t[i] = s[k - 1] /\ k # 1 /\ k - 1 \in 1..Len(s) /\ k - 1 # k /\ s[k - 1] # s[k]
      <4>1. k # 1 /\ i < k /\ k - 1 \in 1..Len(s) /\ k - 1 # k
        BY <1>1, <1>5, <2>2
      <4> QED BY <1>1, <1>5, <2>2, <4>1
    <3>2. d.next[t[i]] = e.next[f]
      BY <1>1, <1>3, <1>4, <3>1 DEF f
    <3>3. CASE k = Len(s)
      BY <1>1, <1>4, <1>5, <2>2, <3>2, <3>3
    <3>4. CASE k # Len(s)
      <4>1. i + 1 = k /\ k \in 1..Len(t) /\ ~(k < k) /\ i # Len(t)
        BY <1>1, <1>5, <2>2, <3>4
      <4>2. t[k] = s[k + 1]
        BY <1>5, <4>1
      <4> QED BY <1>4, <3>2, <3>4, <4>1, <4>2
    <3> QED BY <3>3, <3>4
  <2>3. CASE i > k - 1
    <3>1. t[i] = s[i + 1] /\ i + 1 \in 1..Len(s) /\ i + 1 # k /\ i + 1 # k - 1
      <4>1. ~(i < k)
        BY <1>5, <2>3
      <4> QED BY <1>5, <4>1
    <3>2. s[i + 1] # f /\ s[i + 1] # e.prev[f]
      <4>1. s[i + 1] # f
        BY <1>1, <3>1 DEF f
      <4>2. CASE k = 1
        BY <1>1, <1>4, <3>1, <4>2, NoneAssumption
      <4>3. CASE k # 1
        <5>1. k - 1 \in 1..Len(s)
          BY <1>1, <4>3
        <5> QED BY <1>1, <1>4, <3>1, <4>1, <4>3, <5>1
      <4> QED BY <4>1, <4>2, <4>3
    <3>3. d.next[t[i]] = IF i + 1 = Len(s) THEN None ELSE s[(i + 1) + 1]
      <4>1. s[i + 1] \in Frames /\ e.next[s[i + 1]] = IF i + 1 = Len(s) THEN None ELSE s[(i + 1) + 1]
        BY <1>1, <1>2, <3>1
      <4> QED BY <1>3, <3>1, <3>2, <4>1
    <3>4. CASE i = Len(t)
      BY <1>1, <1>5, <3>3, <3>4
    <3>5. CASE i # Len(t)
      <4>1. i + 1 \in 1..Len(t) /\ ~(i + 1 < k) /\ i + 1 # Len(s)
        BY <1>1, <1>5, <2>3, <3>5
      <4>2. t[i + 1] = s[(i + 1) + 1]
        BY <1>5, <4>1
      <4> QED BY <3>3, <3>5, <4>1, <4>2
    <3> QED BY <3>4, <3>5
  <2>4. i < k - 1 \/ i = k - 1 \/ i > k - 1
    BY <1>5
  <2> QED BY <2>1, <2>2, <2>3, <2>4
<1> QED BY <1>5, <1>7, <1>8 DEF Lists, d, f

(* The lists of the other parents stay as they are.                        *)
LEMMA RemovedElsewhere ==
    ASSUME NEW e \in Edges, NEW m \in Links, EdgesOK(e, m), NEW f \in Frames, m[f] \in Frames,
           NEW q \in Frames, q # m[f], NEW u, Lists(u, e, q)
    PROVE  Lists(u, Removed(e, m[f], f), q)
<1> DEFINE d == Removed(e, m[f], f)
<1>1. /\ \A g \in Frames : d.next[g] = IF g = f THEN None ELSE IF g = e.prev[f] THEN e.next[f] ELSE e.next[g]
      /\ d.first[q] = e.first[q]
  BY DEF Removed
<1>2. \A i \in 1..Len(u) : u[i] \in Frames /\ m[u[i]] = q
  BY ListOfChildren
<1>3. e.prev[f] \in Frames => m[e.prev[f]] = m[f]
  BY DEF EdgesOK, SiblingsLinked
<1> HIDE DEF d
<1>4. \A i \in 1..Len(u) : u[i] # f /\ u[i] # e.prev[f]
  BY <1>2, <1>3
<1>5. \A i \in 1..Len(u) : d.next[u[i]] = e.next[u[i]]
  BY <1>1, <1>2, <1>4
<1>6. u \in Seq(Frames) /\ d.first[q] = (IF u = <<>> THEN None ELSE u[1])
  BY <1>1 DEF Lists
<1>7. \A i \in 1..Len(u) : d.next[u[i]] = IF i = Len(u) THEN None ELSE u[i + 1]
  BY <1>5 DEF Lists
<1> QED BY <1>6, <1>7 DEF Lists, d

(* The operations of FrameOrder put f behind all, none or some of the      *)
(* others.                                                                 *)
LEMMA AppendPut ==
    ASSUME NEW s \in Seq(Frames), NEW f \in Frames
    PROVE  PutBehind(Append(s, f), s, Len(s), f)
BY DEF PutBehind

LEMMA PrependPut ==
    ASSUME NEW s \in Seq(Frames), NEW f \in Frames
    PROVE  PutBehind(<<f>> \o s, s, 0, f)
BY DEF PutBehind

LEMMA InsertPut ==
    ASSUME NEW s \in Seq(Frames), NEW f \in Frames, NEW k \in 0..Len(s)
    PROVE  PutBehind(Order!InsertAt(s, k + 1, f), s, k, f)
<1>1. Order!InsertAt(s, k + 1, f) = SubSeq(s, 1, k) \o <<f>> \o SubSeq(s, k + 1, Len(s))
  <2>1. (k + 1) - 1 = k
    OBVIOUS
  <2> QED BY <2>1 DEF Order!InsertAt
<1> DEFINE u == SubSeq(s, 1, k)
           v == SubSeq(s, k + 1, Len(s))
<1>2. /\ u \in Seq(Frames) /\ Len(u) = k /\ \A i \in 1..k : u[i] = s[i]
  OBVIOUS
<1>3. /\ v \in Seq(Frames) /\ Len(v) = Len(s) - k /\ \A i \in 1..(Len(s) - k) : v[i] = s[k + i]
  <2>1. v \in Seq(Frames) /\ Len(v) = Len(s) - k
    OBVIOUS
  <2>2. ASSUME NEW i \in 1..(Len(s) - k) PROVE v[i] = s[k + i]
    <3>1. v[i] = s[(k + 1) + i - 1] /\ (k + 1) + i - 1 = k + i
      OBVIOUS
    <3> QED BY <3>1
  <2> QED BY <2>1, <2>2
<1> HIDE DEF u, v
<1> DEFINE w == u \o <<f>>
           t == w \o v
<1>4. /\ w \in Seq(Frames) /\ Len(w) = k + 1 /\ w[k + 1] = f /\ \A i \in 1..k : w[i] = s[i]
  BY <1>2
<1> HIDE DEF w
<1>5. /\ t \in Seq(Frames) /\ Len(t) = Len(s) + 1 /\ \A i \in 1..(k + 1) : t[i] = w[i]
      /\ \A i \in 1..(Len(s) - k) : t[(k + 1) + i] = v[i]
  BY <1>3, <1>4
<1> HIDE DEF t
<1>6. ASSUME NEW i \in (k + 1)..Len(s) PROVE t[i + 1] = s[i]
  <2>1. PICK j \in 1..(Len(s) - k) : (k + 1) + j = i + 1 /\ k + j = i
    <3>1. i - k \in 1..(Len(s) - k) /\ (k + 1) + (i - k) = i + 1 /\ k + (i - k) = i
      OBVIOUS
    <3> QED BY <3>1
  <2>2. t[(k + 1) + j] = v[j] /\ v[j] = s[k + j]
    BY <1>3, <1>5
  <2> QED BY <2>1, <2>2
<1>7. \A i \in 1..k : t[i] = s[i]
  BY <1>4, <1>5
<1>8. t[k + 1] = f
  BY <1>4, <1>5
<1> QED BY <1>1, <1>5, <1>6, <1>7, <1>8 DEF PutBehind, t, w, u, v

(* RemoveFirst leaves out the frame; IndexIn finds the frame.              *)
LEMMA RemoveLeft ==
    ASSUME NEW s \in Seq(Frames), NEW k \in 1..Len(s), \A i, j \in 1..Len(s) : s[i] = s[j] => i = j
    PROVE  LeftOut(Order!RemoveFirst(s, s[k]), s, k)
<1> DEFINE f == s[k]
           I == {i \in 1..Len(s) : s[i] = f}
<1>1. I = {k}
  OBVIOUS
<1>2. Order!SelectInSeq(s, LAMBDA v : v = f) = k
  <2>1. Order!SelectInSeq(s, LAMBDA v : v = f) = IF I # {} THEN Order!Min(I) ELSE 0
    BY DEF Order!SelectInSeq
  <2>2. Order!Min({k}) = k
    BY DEF Order!Min
  <2> HIDE DEF I
  <2> QED BY <1>1, <2>1, <2>2
<1>3. Order!RemoveFirst(s, f) = SubSeq(s, 1, k - 1) \o SubSeq(s, k + 1, Len(s))
  BY <1>2 DEF Order!RemoveFirst, Order!RemoveAt
<1> DEFINE u == SubSeq(s, 1, k - 1)
           v == SubSeq(s, k + 1, Len(s))
           t == u \o v
<1>4. u \in Seq(Frames) /\ Len(u) = k - 1 /\ \A i \in 1..(k - 1) : u[i] = s[i]
  OBVIOUS
<1>5. v \in Seq(Frames) /\ Len(v) = Len(s) - k /\ \A i \in 1..(Len(s) - k) : v[i] = s[k + i]
  <2>1. v \in Seq(Frames) /\ Len(v) = Len(s) - k
    OBVIOUS
  <2>2. ASSUME NEW i \in 1..(Len(s) - k) PROVE v[i] = s[k + i]
    <3>1. v[i] = s[(k + 1) + i - 1] /\ (k + 1) + i - 1 = k + i
      OBVIOUS
    <3> QED BY <3>1
  <2> QED BY <2>1, <2>2
<1> HIDE DEF u, v, f
<1>6. /\ t \in Seq(Frames) /\ Len(t) = Len(s) - 1 /\ \A i \in 1..(k - 1) : t[i] = u[i]
      /\ \A i \in 1..(Len(s) - k) : t[(k - 1) + i] = v[i]
  BY <1>4, <1>5
<1> HIDE DEF t
<1>7. ASSUME NEW i \in k..(Len(s) - 1) PROVE t[i] = s[i + 1]
  <2>1. PICK j \in 1..(Len(s) - k) : (k - 1) + j = i /\ k + j = i + 1
    <3>1. i - k + 1 \in 1..(Len(s) - k) /\ (k - 1) + (i - k + 1) = i /\ k + (i - k + 1) = i + 1
      OBVIOUS
    <3> QED BY <3>1
  <2>2. t[(k - 1) + j] = v[j] /\ v[j] = s[k + j]
    BY <1>5, <1>6
  <2> QED BY <2>1, <2>2
<1>8. \A i \in 1..(k - 1) : t[i] = s[i]
  BY <1>4, <1>6
<1> QED BY <1>3, <1>6, <1>7, <1>8 DEF LeftOut, t, u, v, f

LEMMA IndexFound ==
    ASSUME NEW s \in Seq(Frames), NEW k \in 1..Len(s), \A i, j \in 1..Len(s) : s[i] = s[j] => i = j
    PROVE  Order!IndexIn(s, s[k]) = k
<1>1. DOMAIN s = 1..Len(s)
  OBVIOUS
<1> QED BY <1>1 DEF Order!IndexIn

-----------------------------------------------------------------------------
(* The edges e belong to the parents m.                                    *)
Sound(e, m) == e \in Edges /\ m \in Links /\ EdgesOK(e, m)

(* All that is known of the list s of the children of p.                   *)
Listing(s, e, m, p) ==
    /\ Lists(s, e, p) /\ s \in Seq(Frames) /\ Len(s) \in Nat
    /\ \A i \in 1..Len(s) : s[i] \in Frames /\ m[s[i]] = p
    /\ \A f \in Frames : m[f] = p => \E i \in 1..Len(s) : s[i] = f
    /\ \A i, j \in 1..Len(s) : s[i] = s[j] => i = j
    /\ \A i \in 1..Len(s) : e.prev[s[i]] = IF i = 1 THEN None ELSE s[i - 1]
    /\ \A i \in 1..Len(s) : e.next[s[i]] = IF i = Len(s) THEN None ELSE s[i + 1]
    /\ e.first[p] = IF s = <<>> THEN None ELSE s[1]
    /\ e.last[p] = IF s = <<>> THEN None ELSE s[Len(s)]

(* What Walk yields when the lists are sound.                              *)
LEMMA WalkKnown ==
    ASSUME NEW e, NEW m, Sound(e, m), NEW p \in Frames, NEW s, s = Walk(e, p)
    PROVE  Listing(s, e, m, p)
<1>1. e \in Edges /\ m \in Links /\ EdgesOK(e, m) /\ NoCircle(e.next)
  BY DEF Sound, EdgesOK
<1>2. Lists(s, e, p)
  BY <1>1, WalkLists
<1>3. /\ \A i \in 1..Len(s) : e.next[s[i]] = IF i = Len(s) THEN None ELSE s[i + 1]
      /\ e.first[p] = IF s = <<>> THEN None ELSE s[1]
  BY <1>2 DEF Lists
<1>4. e \in Edges /\ m \in Links /\ EdgesOK(e, m)
  BY <1>1
<1>5. e.last[p] = IF s = <<>> THEN None ELSE s[Len(s)]
  BY <1>2, <1>4, ListOfChildren
<1>6. \A f \in Frames : m[f] = p => \E i \in 1..Len(s) : s[i] = f
  BY <1>2, <1>4, ListOfChildren
<1>7. /\ s \in Seq(Frames) /\ Len(s) \in Nat
      /\ \A i \in 1..Len(s) : s[i] \in Frames /\ m[s[i]] = p
      /\ \A i, j \in 1..Len(s) : s[i] = s[j] => i = j
      /\ \A i \in 1..Len(s) : e.prev[s[i]] = IF i = 1 THEN None ELSE s[i - 1]
  BY <1>2, <1>4, ListOfChildren
<1> QED BY <1>2, <1>3, <1>5, <1>6, <1>7 DEF Listing

(* t is the list s of p with f put between a and b, d the new edges.       *)
Fits(e, m, p, s, f, k, t, a, b, d) ==
    /\ s = Walk(e, p) /\ k \in 0..Len(s) /\ PutBehind(t, s, k, f)
    /\ a = Before(s, k) /\ b = Behind(s, k) /\ Gap(e, m, p, a, b)
    /\ d = Inserted(e, p, a, f, b)

(* Then the walks change in that list only.                                *)
LEMMA Insertion ==
    ASSUME NEW e, NEW m, Sound(e, m), NEW p \in Frames, NEW f \in Frames, m[f] = None,
           NEW s, NEW k, NEW t, NEW a, NEW b, NEW d, Fits(e, m, p, s, f, k, t, a, b, d)
    PROVE  Walks(d) = [Walks(e) EXCEPT ![p] = t]
<1>0. /\ s = Walk(e, p) /\ k \in 0..Len(s) /\ PutBehind(t, s, k, f)
      /\ a = Before(s, k) /\ b = Behind(s, k) /\ Gap(e, m, p, a, b)
      /\ d = Inserted(e, p, a, f, b)
  BY DEF Fits
<1>1. e \in Edges /\ m \in Links /\ EdgesOK(e, m) /\ NoCircle(e.next)
  BY DEF Sound, EdgesOK
<1>2. d \in Edges /\ NoCircle(d.next)
  BY <1>0, <1>1, InsertedOK DEF EdgesOK
<1>3. \A q \in Frames : Lists(Walk(e, q), e, q)
  BY <1>1, WalkLists
<1>4. Lists(t, d, p)
  <2>1. Lists(s, e, p)
    BY <1>0, <1>3
  <2> QED BY <1>0, <1>1, <2>1, InsertedLists
<1>5. ASSUME NEW q \in Frames, q # p PROVE Lists(Walk(e, q), d, q)
  BY <1>0, <1>1, <1>3, <1>5, InsertedElsewhere
<1>6. Walk(d, p) = t
  BY <1>2, <1>4, ListsWalk
<1>7. ASSUME NEW q \in Frames, q # p PROVE Walk(d, q) = Walk(e, q)
  BY <1>2, <1>5, <1>7, ListsWalk
<1> QED BY <1>6, <1>7 DEF Walks

(* Removed edges walk as FrameOrder's Without says, which only touches the *)
(* parent's list.                                                          *)
LEMMA Removal ==
    ASSUME NEW e, NEW m, Sound(e, m), NEW f \in Frames, NEW p \in Frames, m[f] = p,
           NEW d, d = Removed(e, p, f)
    PROVE  /\ Walks(d) = Order!Without(Walks(e), f)
           /\ \A q \in Frames : q # p => Order!RemoveFirst(Walk(e, q), f) = Walk(e, q)
<1> DEFINE s == Walk(e, p)
<1>1. e \in Edges /\ m \in Links /\ EdgesOK(e, m) /\ NoCircle(e.next)
  BY DEF Sound, EdgesOK
<1>2. d \in Edges /\ NoCircle(d.next)
  BY <1>1, RemovedOK DEF EdgesOK
<1>3. \A q \in Frames : Lists(Walk(e, q), e, q)
  BY <1>1, WalkLists
<1>4. /\ Lists(s, e, p) /\ s \in Seq(Frames)
      /\ \A i, j \in 1..Len(s) : s[i] = s[j] => i = j
      /\ \E k \in 1..Len(s) : s[k] = f
  <2>1. Listing(s, e, m, p)
    BY WalkKnown
  <2> QED BY <2>1 DEF Listing
<1> HIDE DEF s
<1>5. PICK k \in 1..Len(s) : s[k] = f
  BY <1>4
<1>6. Lists(Order!RemoveFirst(s, f), d, p)
  <2>1. LeftOut(Order!RemoveFirst(s, f), s, k)
    BY <1>4, <1>5, RemoveLeft
  <2> QED BY <1>1, <1>4, <1>5, <2>1, RemovedLists
<1>7. ASSUME NEW q \in Frames, q # p PROVE Lists(Walk(e, q), d, q) /\ Order!RemoveFirst(Walk(e, q), f) = Walk(e, q)
  <2>1. Lists(Walk(e, q), d, q)
    BY <1>1, <1>3, <1>7, RemovedElsewhere
  <2>2. \A i \in 1..Len(Walk(e, q)) : m[Walk(e, q)[i]] = q
    <3>1. Listing(Walk(e, q), e, m, q)
      BY WalkKnown
    <3> QED BY <3>1 DEF Listing
  <2>3. ~\E i \in 1..Len(Walk(e, q)) : Walk(e, q)[i] = f
    BY <2>2, <1>7
  <2> QED BY <2>1, <2>3 DEF Order!RemoveFirst
<1>8. Walk(d, p) = Order!RemoveFirst(s, f)
  BY <1>2, <1>6, ListsWalk
<1>9. ASSUME NEW q \in Frames, q # p PROVE Walk(d, q) = Order!RemoveFirst(Walk(e, q), f)
  BY <1>2, <1>7, <1>9, ListsWalk
<1>10. Walks(d) = Order!Without(Walks(e), f)
  <2>1. \A q \in Frames : Walk(d, q) = Order!RemoveFirst(Walk(e, q), f)
    BY <1>8, <1>9 DEF s
  <2> QED BY <2>1 DEF Walks, Order!Without
<1> QED BY <1>7, <1>10

(* The manipulators, read as lists.                                        *)
LEMMA WalksAppend ==
    ASSUME NEW e, NEW m, Sound(e, m), NEW p \in Frames, NEW f \in Frames, m[f] = None
    PROVE  Walks(AppendEdge(e, p, f)) = [Walks(e) EXCEPT ![p] = Append(@, f)]
<1> DEFINE s == Walk(e, p)
           l == e.last[p]
           d == AppendEdge(e, p, f)
<1>1. e \in Edges /\ m \in Links /\ EdgesOK(e, m)
  BY DEF Sound
<1>2. d = Inserted(e, p, l, f, None) /\ Gap(e, m, p, l, None)
  BY <1>1, AppendEdgeOK
<1>3. s \in Seq(Frames) /\ Len(s) \in Nat /\ l = IF s = <<>> THEN None ELSE s[Len(s)]
  <2>1. Listing(s, e, m, p)
    BY WalkKnown
  <2> QED BY <2>1 DEF Listing
<1>0. s = Walk(e, p)
  OBVIOUS
<1> HIDE DEF s, l, d
<1>4. l = Before(s, Len(s)) /\ None = Behind(s, Len(s)) /\ Len(s) \in 0..Len(s)
  BY <1>3 DEF Before, Behind
<1>5. PutBehind(Append(s, f), s, Len(s), f)
  BY <1>3, AppendPut
<1> DEFINE t == Append(s, f)
<1>6. Fits(e, m, p, s, f, Len(s), t, l, None, d)
  BY <1>0, <1>2, <1>4, <1>5 DEF Fits
<1> HIDE DEF t
<1>7. Walks(d) = [Walks(e) EXCEPT ![p] = t]
  BY <1>6, Insertion
<1> QED BY <1>7 DEF s, t, d, Walks

LEMMA WalksPrepend ==
    ASSUME NEW e, NEW m, Sound(e, m), NEW p \in Frames, NEW f \in Frames, m[f] = None
    PROVE  Walks(PrependEdge(e, p, f)) = [Walks(e) EXCEPT ![p] = <<f>> \o @]
<1> DEFINE s == Walk(e, p)
           h == e.first[p]
           d == PrependEdge(e, p, f)
<1>1. e \in Edges /\ m \in Links /\ EdgesOK(e, m)
  BY DEF Sound
<1>2. d = Inserted(e, p, None, f, h) /\ Gap(e, m, p, None, h)
  BY <1>1, PrependEdgeOK
<1>3. s \in Seq(Frames) /\ Len(s) \in Nat /\ h = IF s = <<>> THEN None ELSE s[1]
  <2>1. Listing(s, e, m, p)
    BY WalkKnown
  <2> QED BY <2>1 DEF Listing
<1>0. s = Walk(e, p)
  OBVIOUS
<1> HIDE DEF s, h, d
<1>4. None = Before(s, 0) /\ h = Behind(s, 0) /\ 0 \in 0..Len(s)
  BY <1>3 DEF Before, Behind
<1>5. PutBehind(<<f>> \o s, s, 0, f)
  BY <1>3, PrependPut
<1> DEFINE t == <<f>> \o s
<1>6. Fits(e, m, p, s, f, 0, t, None, h, d)
  BY <1>0, <1>2, <1>4, <1>5 DEF Fits
<1> HIDE DEF t
<1>7. Walks(d) = [Walks(e) EXCEPT ![p] = t]
  BY <1>6, Insertion
<1> QED BY <1>7 DEF s, t, d, Walks

(* f is put between a and b.                                               *)
LEMMA WalksJoin ==
    ASSUME NEW e, NEW m, Sound(e, m), NEW a \in Frames, NEW b \in Frames, e.next[a] = b,
           NEW f \in Frames, m[f] = None, NEW p \in Frames, p = m[a],
           NEW s, s = Walk(e, p), NEW d, d = JoinEdge(JoinEdge(e, a, f), f, b)
    PROVE  /\ Walks(d) = [Walks(e) EXCEPT ![p] = Order!InsertAt(s, Order!IndexIn(s, a) + 1, f)]
           /\ Walks(d) = [Walks(e) EXCEPT ![p] = Order!InsertAt(s, Order!IndexIn(s, b), f)]
<1>1. e \in Edges /\ m \in Links /\ EdgesOK(e, m)
  BY DEF Sound
<1>2. d = Inserted(e, p, a, f, b) /\ Gap(e, m, p, a, b)
  <2>1. JoinEdge(JoinEdge(e, a, f), f, b) = Inserted(e, m[a], a, f, b)
    BY <1>1, JoinedIs
  <2>2. Gap(e, m, m[a], a, b)
    BY <1>1, JoinedIs
  <2> QED BY <2>1, <2>2
<1>3. /\ s \in Seq(Frames) /\ Len(s) \in Nat
      /\ \A i, j \in 1..Len(s) : s[i] = s[j] => i = j
      /\ \A i \in 1..Len(s) : e.next[s[i]] = IF i = Len(s) THEN None ELSE s[i + 1]
      /\ \E k \in 1..Len(s) : s[k] = a
  <2>1. Listing(s, e, m, p)
    BY WalkKnown
  <2> QED BY <2>1 DEF Listing
<1>4. PICK k \in 1..Len(s) : s[k] = a
  BY <1>3
<1>5. k # Len(s) /\ k + 1 \in 1..Len(s) /\ s[k + 1] = b
  BY <1>3, <1>4, NoneAssumption
<1>6. Order!IndexIn(s, a) = k /\ Order!IndexIn(s, b) = k + 1
  BY <1>3, <1>4, <1>5, IndexFound
<1>7. a = Before(s, k) /\ b = Behind(s, k) /\ k \in 0..Len(s)
  BY <1>3, <1>4, <1>5 DEF Before, Behind
<1>8. PutBehind(Order!InsertAt(s, k + 1, f), s, k, f)
  BY <1>3, <1>7, InsertPut
<1>9. Walks(d) = [Walks(e) EXCEPT ![p] = Order!InsertAt(s, k + 1, f)]
  <2>1. Fits(e, m, p, s, f, k, Order!InsertAt(s, k + 1, f), a, b, d)
    BY <1>2, <1>7, <1>8 DEF Fits
  <2> QED BY <2>1, Insertion
<1> QED BY <1>6, <1>9

(* At the ends of a list, that is to put it first or last.                 *)
LEMMA JoinFirst ==
    ASSUME NEW e, NEW m, Sound(e, m), NEW a \in Frames, NEW p \in Frames, p = m[a],
           e.prev[a] = None, NEW f \in Frames, NEW s, s = Walk(e, p)
    PROVE  <<f>> \o s = Order!InsertAt(s, Order!IndexIn(s, a), f)
<1>1. /\ s \in Seq(Frames) /\ Len(s) \in Nat
      /\ \A i, j \in 1..Len(s) : s[i] = s[j] => i = j
      /\ \A i \in 1..Len(s) : e.prev[s[i]] = IF i = 1 THEN None ELSE s[i - 1]
      /\ \E k \in 1..Len(s) : s[k] = a
  <2>1. Listing(s, e, m, p)
    BY WalkKnown
  <2> QED BY <2>1 DEF Listing
<1>2. PICK k \in 1..Len(s) : s[k] = a
  BY <1>1
<1>3. k = 1
  <2>1. k # 1 => k - 1 \in 1..Len(s) /\ s[k - 1] \in Frames
    BY <1>1
  <2> QED BY <1>1, <1>2, <2>1, NoneAssumption
<1>4. Order!IndexIn(s, a) = 1
  BY <1>1, <1>2, <1>3, IndexFound
<1>5. Order!InsertAt(s, 1, f) = SubSeq(s, 1, 0) \o <<f>> \o SubSeq(s, 1, Len(s))
  BY DEF Order!InsertAt
<1>6. SubSeq(s, 1, 0) = <<>> /\ SubSeq(s, 1, Len(s)) = s /\ <<>> \o <<f>> = <<f>>
  BY <1>1
<1> QED BY <1>4, <1>5, <1>6

LEMMA JoinLast ==
    ASSUME NEW e, NEW m, Sound(e, m), NEW a \in Frames, NEW p \in Frames, p = m[a],
           e.next[a] = None, NEW f \in Frames, NEW s, s = Walk(e, p)
    PROVE  Append(s, f) = Order!InsertAt(s, Order!IndexIn(s, a) + 1, f)
<1>1. /\ s \in Seq(Frames) /\ Len(s) \in Nat
      /\ \A i, j \in 1..Len(s) : s[i] = s[j] => i = j
      /\ \A i \in 1..Len(s) : e.next[s[i]] = IF i = Len(s) THEN None ELSE s[i + 1]
      /\ \E k \in 1..Len(s) : s[k] = a
  <2>1. Listing(s, e, m, p)
    BY WalkKnown
  <2> QED BY <2>1 DEF Listing
<1>2. PICK k \in 1..Len(s) : s[k] = a
  BY <1>1
<1>3. k = Len(s)
  <2>1. k # Len(s) => k + 1 \in 1..Len(s) /\ s[k + 1] \in Frames
    BY <1>1
  <2> QED BY <1>1, <1>2, <2>1, NoneAssumption
<1>4. Order!IndexIn(s, a) = Len(s)
  BY <1>1, <1>2, <1>3, IndexFound
<1>5. Order!InsertAt(s, Len(s) + 1, f) = SubSeq(s, 1, Len(s)) \o <<f>> \o SubSeq(s, Len(s) + 1, Len(s))
  <2>1. (Len(s) + 1) - 1 = Len(s)
    BY <1>1
  <2> QED BY <2>1 DEF Order!InsertAt
<1>6. SubSeq(s, 1, Len(s)) = s /\ SubSeq(s, Len(s) + 1, Len(s)) = <<>> /\ s \o <<f>> = Append(s, f)
      /\ Append(s, f) \o <<>> = Append(s, f)
  BY <1>1
<1> QED BY <1>4, <1>5, <1>6

(* Unjoining takes the frame out of its list; freed nodes have no list.    *)
LEMMA WalksUnjoin ==
    ASSUME NEW e, NEW m, Sound(e, m), NEW f \in Frames, NEW p \in Frames, m[f] = p
    PROVE  /\ Walks(UnjoinEdge(e, p, f)) = Order!Without(Walks(e), f)
           /\ Sound(UnjoinEdge(e, p, f), [m EXCEPT ![f] = None])
<1> DEFINE d == UnjoinEdge(e, p, f)
           n == [m EXCEPT ![f] = None]
<1>1. e \in Edges /\ m \in Links /\ EdgesOK(e, m)
  BY DEF Sound
<1>2. d = Removed(e, p, f) /\ d \in Edges /\ EdgesOK(d, n)
  BY <1>1, UnjoinEdgeOK
<1>3. n \in Links
  BY <1>1 DEF Links
<1> HIDE DEF d, n
<1>4. Walks(d) = Order!Without(Walks(e), f)
  BY <1>2, Removal
<1>5. Sound(d, n)
  BY <1>2, <1>3 DEF Sound
<1> QED BY <1>4, <1>5 DEF d, n

LEMMA WalksErased ==
    ASSUME NEW e, NEW m, Sound(e, m), NEW f \in Frames, m[f] = None, NEW nodes \in SUBSET Frames,
           \A g \in Frames : g \in nodes <=> g = f \/ m[g] \in nodes
    PROVE  Walks(ErasedEdges(e, nodes)) = [g \in Frames |-> IF g \in nodes THEN <<>> ELSE Walks(e)[g]]
<1> DEFINE d == ErasedEdges(e, nodes)
<1>1. e \in Edges /\ m \in Links /\ EdgesOK(e, m)
  BY DEF Sound
<1>2. d \in Edges /\ NoCircle(d.next)
  BY <1>1, ErasedOK DEF EdgesOK
<1>3. \A g \in Frames : /\ d.next[g] = IF g \in nodes THEN None ELSE e.next[g]
                        /\ d.first[g] = IF g \in nodes THEN None ELSE e.first[g]
  BY DEF ErasedEdges, Erased
<1> HIDE DEF d
<1>4. ASSUME NEW p \in Frames, p \in nodes PROVE Walk(d, p) = <<>>
  <2>1. Lists(<<>>, d, p)
    BY <1>3, <1>4 DEF Lists
  <2> QED BY <1>2, <2>1, ListsWalk
<1>5. ASSUME NEW p \in Frames, p \notin nodes PROVE Walk(d, p) = Walk(e, p)
  <2> DEFINE s == Walk(e, p)
  <2>1. Listing(s, e, m, p)
    BY WalkKnown
  <2> HIDE DEF s
  <2>2. \A i \in 1..Len(s) : s[i] \in Frames /\ m[s[i]] = p
    BY <2>1 DEF Listing
  <2>3. \A i \in 1..Len(s) : s[i] \in Frames /\ s[i] \notin nodes
    BY <1>5, <2>2, NoneAssumption
  <2>4. Lists(s, e, p)
    BY <2>1 DEF Listing
  <2>5. Lists(s, d, p)
    BY <1>3, <1>5, <2>3, <2>4 DEF Lists
  <2> QED BY <1>2, <2>5, ListsWalk DEF s
<1>6. \A g \in Frames : Walk(d, g) = IF g \in nodes THEN <<>> ELSE Walk(e, g)
  BY <1>4, <1>5
<1>7. Walks(d) = [g \in Frames |-> IF g \in nodes THEN <<>> ELSE Walks(e)[g]]
  BY <1>6 DEF Walks
<1> QED BY <1>7 DEF d

(* At the start nothing has children.                                      *)
LEMMA NothingWalked == Walks(NoEdges) = Order!Blank
<1>1. NoEdges \in Edges /\ NoCircle(NoEdges.next) /\ \A p \in Frames : NoEdges.first[p] = None
  BY NoneAssumption DEF NoEdges, Unlinked, Edges, Links, NoCircle
<1>2. \A p \in Frames : Walk(NoEdges, p) = <<>>
  BY <1>1, WalkChain
<1> QED BY <1>2 DEF Walks, Order!Blank

LEMMA InitOrder == Init => Order!Init
BY NothingWalked DEF Init, Order!Init, Unlinked

(* The invariant makes both orders sound, and a primed walk is the walk of *)
(* the primed edges.                                                       *)
LEMMA BothSound == IInv => Sound(space, matter) /\ Sound(time, matter)
BY DEF IInv, TypeOK, LinksOK, Sound

LEMMA WalksPrimed == Walks(space)' = Walks(space') /\ Walks(time)' = Walks(time')
BY DEF Walks, Walk

(* One step of the code is one step of FrameOrder, action by action.       *)
LEMMA SameJoinable == \A f, p : Joinable(f, p) => Order!Joinable(f, p)
BY DEF Joinable, NotBelow, Order!Joinable, Order!NotBelow

LEMMA PrependOrder ==
    ASSUME IInv, NEW f \in Frames, NEW p \in Frames, Prepend(p, f)
    PROVE  Order!Prepend(p, f)
<1>1. matter[f] = None /\ Order!Joinable(f, p)
  BY SameJoinable DEF Prepend, Joinable
<1>2. Walks(space') = [Walks(space) EXCEPT ![p] = <<f>> \o @]
  BY <1>1, BothSound, WalksPrepend DEF Prepend
<1>3. Walks(time') = [Walks(time) EXCEPT ![p] = Append(@, f)]
  BY <1>1, BothSound, WalksAppend DEF Prepend
<1> QED BY <1>1, <1>2, <1>3, WalksPrimed DEF Prepend, Order!Prepend

LEMMA AppendChildOrder ==
    ASSUME IInv, NEW f \in Frames, NEW p \in Frames, AppendChild(p, f)
    PROVE  Order!AppendChild(p, f)
<1>1. matter[f] = None /\ Order!Joinable(f, p)
  BY SameJoinable DEF AppendChild, Joinable
<1>2. Walks(space') = [Walks(space) EXCEPT ![p] = Append(@, f)]
  BY <1>1, BothSound, WalksAppend DEF AppendChild
<1>3. Walks(time') = [Walks(time) EXCEPT ![p] = Append(@, f)]
  BY <1>1, BothSound, WalksAppend DEF AppendChild
<1> QED BY <1>1, <1>2, <1>3, WalksPrimed DEF AppendChild, Order!AppendChild

(* Joining puts the frame last in time.                                    *)
LEMMA TimeAppended ==
    ASSUME IInv, NEW f \in Frames, NEW p \in Frames, matter[f] = None
    PROVE  Walks(AppendEdge(time, p, f)) = [Walks(time) EXCEPT ![p] = Append(@, f)]
<1>1. Sound(time, matter)
  BY BothSound
<1> QED BY <1>1, WalksAppend

(* A join puts f at an index of the list of p, first in time order last.   *)
LEMMA JoinAtOrder ==
    ASSUME IInv, NEW f \in Frames, NEW a \in Frames, NEW p \in Frames, p = matter[a], Joinable(f, p),
           NEW s, s = Walk(space, p), NEW o,
           Walks(space') = [Walks(space) EXCEPT ![p] = Order!InsertAt(s, Order!IndexIn(s, a) + o, f)],
           Walks(time') = [Walks(time) EXCEPT ![p] = Append(@, f)],
           matter' = [matter EXCEPT ![f] = p], UNCHANGED live
    PROVE  Order!JoinAt(a, f, o)
<1>1. matter[f] = None /\ Order!Joinable(f, p)
  BY SameJoinable DEF Joinable
<1>2. Walks(space)[p] = s
  BY DEF Walks
<1>3. Walks(space') = [Walks(space) EXCEPT ![p] = Order!InsertAt(@, Order!IndexIn(@, a) + o, f)]
  BY <1>2
<1> QED BY <1>1, <1>3, WalksPrimed, NoneAssumption DEF Order!JoinAt

LEMMA PrejoinOrder ==
    ASSUME IInv, NEW f \in Frames, NEW a \in Frames, Prejoin(a, f)
    PROVE  Order!Prejoin(a, f)
<1> DEFINE p == matter[a]
           s == Walk(space, p)
<1>1. p \in Frames /\ Joinable(f, p) /\ matter[f] = None
  BY DEF Prejoin, Joinable, IInv, TypeOK, Links
<1>2. Sound(space, matter) /\ space.prev[a] \in Frames \union {None}
  BY BothSound DEF Sound, Edges, Links
<1>3. /\ matter' = [matter EXCEPT ![f] = p] /\ UNCHANGED live
      /\ Walks(time') = [Walks(time) EXCEPT ![p] = Append(@, f)]
  <2>1. Walks(AppendEdge(time, p, f)) = [Walks(time) EXCEPT ![p] = Append(@, f)]
    BY <1>1, TimeAppended
  <2> QED BY <2>1 DEF Prejoin
<1>4. p = matter[a] /\ s = Walk(space, p)
  OBVIOUS
<1>5. /\ space.prev[a] = None => space' = PrependEdge(space, p, f)
      /\ space.prev[a] # None => space' = JoinEdge(JoinEdge(space, space.prev[a], f), f, a)
  BY DEF Prejoin
<1> HIDE DEF p, s
<1>6. Walks(space') = [Walks(space) EXCEPT ![p] = Order!InsertAt(s, Order!IndexIn(s, a), f)]
  <2>1. CASE space.prev[a] = None
    <3>1. Walks(space') = [Walks(space) EXCEPT ![p] = <<f>> \o @]
      BY <1>1, <1>2, <1>5, <2>1, WalksPrepend
    <3>2. <<f>> \o s = Order!InsertAt(s, Order!IndexIn(s, a), f)
      BY <1>1, <1>2, <1>4, <2>1, JoinFirst
    <3>3. Walks(space)[p] = s
      BY <1>1, <1>4 DEF Walks
    <3> QED BY <3>1, <3>2, <3>3
  <2>2. CASE space.prev[a] # None
    <3> DEFINE b == space.prev[a]
               d == JoinEdge(JoinEdge(space, b, f), f, a)
    <3>1. b \in Frames /\ space.next[b] = a /\ matter[b] = p
      BY <1>2, <1>4, <2>2 DEF Sound, EdgesOK, SiblingsLinked
    <3>2. space' = d
      BY <1>5, <2>2
    <3>3. d = JoinEdge(JoinEdge(space, b, f), f, a)
      OBVIOUS
    <3> HIDE DEF b, d
    <3>4. Walks(d) = [Walks(space) EXCEPT ![p] = Order!InsertAt(s, Order!IndexIn(s, a), f)]
      BY <1>1, <1>2, <1>4, <3>1, <3>3, WalksJoin
    <3> QED BY <3>2, <3>4
  <2> QED BY <2>1, <2>2
<1>7. s \in Seq(Frames) /\ \E k \in 1..Len(s) : s[k] = a /\ Order!IndexIn(s, a) = k
  <2>1. Listing(s, space, matter, p)
    BY <1>1, <1>2, <1>4, WalkKnown
  <2>2. /\ s \in Seq(Frames) /\ \A i, j \in 1..Len(s) : s[i] = s[j] => i = j
        /\ \E k \in 1..Len(s) : s[k] = a
    BY <1>4, <2>1 DEF Listing
  <2> QED BY <2>2, IndexFound
<1> DEFINE o == 0
<1>8. Order!IndexIn(s, a) + o = Order!IndexIn(s, a)
  BY <1>7
<1> HIDE DEF o
<1>9. Order!JoinAt(a, f, o)
  <2>1. Walks(space') = [Walks(space) EXCEPT ![p] = Order!InsertAt(s, Order!IndexIn(s, a) + o, f)]
    BY <1>6, <1>8
  <2> QED BY <1>1, <1>3, <1>4, <2>1, JoinAtOrder
<1> QED BY <1>9 DEF o, Order!Prejoin

LEMMA AdjoinOrder ==
    ASSUME IInv, NEW f \in Frames, NEW a \in Frames, Adjoin(a, f)
    PROVE  Order!Adjoin(a, f)
<1> DEFINE p == matter[a]
           s == Walk(space, p)
<1>1. p \in Frames /\ Joinable(f, p) /\ matter[f] = None
  BY DEF Adjoin, Joinable, IInv, TypeOK, Links
<1>2. Sound(space, matter) /\ space.next[a] \in Frames \union {None}
  BY BothSound DEF Sound, Edges, Links
<1>3. /\ matter' = [matter EXCEPT ![f] = p] /\ UNCHANGED live
      /\ Walks(time') = [Walks(time) EXCEPT ![p] = Append(@, f)]
  <2>1. Walks(AppendEdge(time, p, f)) = [Walks(time) EXCEPT ![p] = Append(@, f)]
    BY <1>1, TimeAppended
  <2> QED BY <2>1 DEF Adjoin
<1>4. p = matter[a] /\ s = Walk(space, p)
  OBVIOUS
<1>5. /\ space.next[a] = None => space' = AppendEdge(space, p, f)
      /\ space.next[a] # None => space' = JoinEdge(JoinEdge(space, a, f), f, space.next[a])
  BY DEF Adjoin
<1> HIDE DEF p, s
<1>6. Walks(space') = [Walks(space) EXCEPT ![p] = Order!InsertAt(s, Order!IndexIn(s, a) + 1, f)]
  <2>1. CASE space.next[a] = None
    <3>1. Walks(space') = [Walks(space) EXCEPT ![p] = Append(@, f)]
      BY <1>1, <1>2, <1>5, <2>1, WalksAppend
    <3>2. Append(s, f) = Order!InsertAt(s, Order!IndexIn(s, a) + 1, f)
      BY <1>1, <1>2, <1>4, <2>1, JoinLast
    <3>3. Walks(space)[p] = s
      BY <1>1, <1>4 DEF Walks
    <3> QED BY <3>1, <3>2, <3>3
  <2>2. CASE space.next[a] # None
    <3> DEFINE b == space.next[a]
               d == JoinEdge(JoinEdge(space, a, f), f, b)
    <3>1. b \in Frames /\ space.next[a] = b
      BY <1>2, <2>2
    <3>2. space' = d
      BY <1>5, <2>2
    <3>3. d = JoinEdge(JoinEdge(space, a, f), f, b)
      OBVIOUS
    <3> HIDE DEF b, d
    <3>4. Walks(d) = [Walks(space) EXCEPT ![p] = Order!InsertAt(s, Order!IndexIn(s, a) + 1, f)]
      BY <1>1, <1>2, <1>4, <3>1, <3>3, WalksJoin
    <3> QED BY <3>2, <3>4
  <2> QED BY <2>1, <2>2
<1>7. Order!JoinAt(a, f, 1)
  BY <1>1, <1>3, <1>4, <1>6, JoinAtOrder
<1> QED BY <1>7 DEF Order!Adjoin

LEMMA PopOrder ==
    ASSUME IInv, NEW f \in Frames, Pop(f)
    PROVE  Order!Pop(f)
<1> DEFINE p == matter[f]
           cut == UnjoinEdge(time, p, f)
           orphaned == [matter EXCEPT ![f] = None]
<1>1. p \in Frames /\ matter \in Links
  BY DEF Pop, IInv, TypeOK, Links
<1>2. Walks(cut) = Order!Without(Walks(time), f) /\ Sound(cut, orphaned)
  BY <1>1, BothSound, WalksUnjoin
<1>3. orphaned[f] = None
  BY <1>1 DEF Links
<1>4. time' = PrependEdge(cut, p, f)
  BY DEF Pop
<1> HIDE DEF cut, orphaned, p
<1>5. Walks(PrependEdge(cut, p, f)) = [Walks(cut) EXCEPT ![p] = <<f>> \o @]
  BY <1>1, <1>2, <1>3, WalksPrepend
<1>6. Walks(time') = [Order!Without(Walks(time), f) EXCEPT ![p] = <<f>> \o @]
  BY <1>2, <1>4, <1>5
<1> QED BY <1>6, WalksPrimed DEF p, Pop, Order!Pop

LEMMA RemoveOrder ==
    ASSUME IInv, NEW f \in Frames, RemoveFrame(f)
    PROVE  Order!RemoveFrame(f)
<1> DEFINE p == matter[f]
<1>1. p \in Frames /\ p = matter[f]
  BY DEF RemoveFrame, IInv, TypeOK, Links
<1>2. time' = UnjoinEdge(time, p, f) /\ space' = UnjoinEdge(space, p, f)
  BY DEF RemoveFrame
<1> HIDE DEF p
<1>3. /\ Walks(time') = Order!Without(Walks(time), f)
      /\ Walks(space') = Order!Without(Walks(space), f)
  BY <1>1, <1>2, BothSound, WalksUnjoin
<1> QED BY <1>3, WalksPrimed DEF RemoveFrame, Order!RemoveFrame

LEMMA DestroyOrder ==
    ASSUME IInv, NEW f \in Frames, Destroy(f)
    PROVE  Order!Destroy(f)
<1>1. PICK nodes \in SUBSET Frames :
          /\ Below(f, nodes)
          /\ live' = live \ nodes
          /\ matter' = Erased(matter, nodes)
          /\ space' = ErasedEdges(space, nodes)
          /\ time' = ErasedEdges(time, nodes)
  BY DEF Destroy
<1>2. f \in live /\ matter[f] = None
  BY DEF Destroy
<1>3. \A g \in Frames : g \in nodes <=> g = f \/ matter[g] \in nodes
  BY <1>1 DEF Below
<1>4. f \in nodes /\ nodes \in SUBSET live
  BY <1>2, <1>3, NoneAssumption DEF IInv, ParentsLive, TypeOK, Links
<1>5. /\ Walks(space') = [g \in Frames |-> IF g \in nodes THEN <<>> ELSE Walks(space)[g]]
      /\ Walks(time') = [g \in Frames |-> IF g \in nodes THEN <<>> ELSE Walks(time)[g]]
  BY <1>1, <1>2, <1>3, BothSound, WalksErased
<1>6. matter' = [g \in Frames |-> IF g \in nodes THEN None ELSE matter[g]]
  BY <1>1 DEF Erased
<1> QED BY <1>1, <1>2, <1>3, <1>4, <1>5, <1>6, WalksPrimed DEF Order!Destroy

(* Every step of the code is a step or a stutter of FrameOrder.            *)
LEMMA NextOrder == IInv /\ [Next]_vars => [Order!Next]_(Order!vars)
<1> SUFFICES ASSUME IInv, [Next]_vars PROVE [Order!Next]_(Order!vars)
  OBVIOUS
<1>1. ASSUME NEW f \in Frames, New(f) PROVE Order!New(f)
  BY <1>1, WalksPrimed DEF New, Order!New
<1>2. CASE UNCHANGED vars
  BY <1>2, WalksPrimed DEF vars, Order!vars
<1>3. CASE \E f \in Frames : New(f) \/ Pop(f) \/ RemoveFrame(f) \/ Destroy(f)
  BY <1>1, <1>3, PopOrder, RemoveOrder, DestroyOrder DEF Order!Next
<1>4. CASE \E f, g \in Frames : Prepend(g, f) \/ AppendChild(g, f) \/ Prejoin(g, f) \/ Adjoin(g, f)
  BY <1>4, PrependOrder, AppendChildOrder, PrejoinOrder, AdjoinOrder DEF Order!Next
<1> QED BY <1>2, <1>3, <1>4 DEF Next

-----------------------------------------------------------------------------
(* Whatever the number of frames: read as lists, every manipulation of the *)
(* raw pointers in frame.rs is the one its documentation promises for the  *)
(* space and the time order, and nothing else in either order moves.       *)
THEOREM ListsImplemented == Spec => ImplementsOrder
<1> QED BY InitOrder, NextOrder, Invariance, PTL DEF Spec, ImplementsOrder, Order!Spec
=============================================================================
