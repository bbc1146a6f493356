---------------------------- MODULE CommandsProofs ----------------------------
(***************************************************************************)
(* Proofs about the commands of MCCommands and the modules it is made of.  *)
(***************************************************************************)
EXTENDS MCCommands, FiniteSetTheorems, SequenceTheorems, WellFoundedInduction, TLAPS

(* Induction: a set of naturals has a least element, since the intervals   *)
(* that start at 1 are finite sets.                                        *)
LEMMA LeastNatural ==
  ASSUME NEW A \in SUBSET Nat, A # {}
  PROVE  \E m \in A : \A k \in A : m <= k
<1> DEFINE T == {1 .. k : k \in A}
<1>1. T \subseteq FiniteSubsetsOf(Nat)
  <2>1. \A k \in A : IsFiniteSet(1 .. k)
    BY FS_Interval
  <2>2. \A k \in A : 1 .. k \in SUBSET Nat
    OBVIOUS
  <2> QED
    BY <2>1, <2>2 DEF FiniteSubsetsOf
<1>2. T # {}
  OBVIOUS
<1>3. IsWellFoundedOn(StrictSubsetOrdering(Nat), FiniteSubsetsOf(Nat))
  BY FS_StrictSubsetOrderingWellFounded
<1> HIDE DEF T
<1>4. PICK X \in T : \A Y \in T : <<Y, X>> \notin StrictSubsetOrdering(Nat)
  BY <1>1, <1>2, <1>3, WFMin
<1>5. PICK m \in A : X = 1 .. m
  BY DEF T
<1>6. ASSUME NEW k \in A, k < m
      PROVE  FALSE
  <2>1. 1 .. k \in T /\ 1 .. m \in T
    BY DEF T
  <2>2. 1 .. k \subseteq 1 .. m /\ 1 .. k # 1 .. m
    <3>1. m \in 1 .. m /\ m \notin 1 .. k
      BY <1>6
    <3> QED
      BY <1>6, <3>1
  <2>3. <<1 .. k, 1 .. m>> \in StrictSubsetOrdering(Nat)
    BY <2>2 DEF StrictSubsetOrdering
  <2> QED
    BY <1>4, <1>5, <2>1, <2>3
<1> QED
  BY <1>6

(* What holds of 0, and of the next number whenever it holds of one.       *)
LEMMA Counting ==
  ASSUME NEW top \in Nat, NEW A, 0 \in A, \A k \in 0 .. top - 1 : k \in A => k + 1 \in A
  PROVE  \A k \in 0 .. top : k \in A
<1> DEFINE Bad == {k \in 0 .. top : k \notin A}
<1>1. SUFFICES ASSUME Bad # {}
               PROVE  FALSE
  OBVIOUS
<1>2. PICK m \in Bad : \A k \in Bad : m <= k
  <2>1. Bad \in SUBSET Nat
    OBVIOUS
  <2> QED
    BY <1>1, <2>1, LeastNatural
<1>3. m \in 0 .. top /\ m \notin A /\ m # 0
  BY <1>2
<1>4. m - 1 \in 0 .. top - 1 /\ (m - 1) + 1 = m /\ m - 1 \in 0 .. top /\ ~(m <= m - 1)
  BY <1>3
<1>5. m - 1 \in A
  BY <1>2, <1>4
<1> QED
  BY <1>3, <1>4, <1>5

-----------------------------------------------------------------------------
(* The tables are those of the definition.                                  *)
LEMMA TablesDefined ==
  ASSUME NEW lines, Len(lines) \in Nat
  PROVE  Tables(lines) = [k \in 0 .. Len(lines) |-> IF k = 0 THEN EmptyRegions ELSE Add(Tables(lines)[k - 1], LineToRegion(lines[k]))]
<1> DEFINE top == Len(lines)
           start == EmptyRegions
           Following(k, prev) == Add(prev, LineToRegion(lines[k]))
           Solves(g, m) == g = [k \in 0 .. m |-> IF k = 0 THEN start ELSE Following(k, g[k - 1])]
           Good == {m \in 0 .. top : \E g : Solves(g, m)}
<1>0. top \in Nat
  OBVIOUS
<1> HIDE DEF top, start, Following
<1>1. 0 \in Good
  <2>1. Solves([k \in 0 .. 0 |-> start], 0)
    OBVIOUS
  <2>2. \E g : Solves(g, 0)
    BY <2>1
  <2> QED
    BY <1>0, <2>2
<1>2. ASSUME NEW m \in 0 .. top - 1, m \in Good
      PROVE  m + 1 \in Good
  <2>1. PICK g : Solves(g, m)
    BY <1>2
  <2> DEFINE h == [k \in 0 .. m + 1 |-> IF k = 0 THEN start ELSE Following(k, g[k - 1])]
  <2>2. \A k \in 0 .. m : h[k] = g[k]
    BY <1>0, <2>1
  <2>3. \A k \in 0 .. m + 1 : k # 0 => k - 1 \in 0 .. m
    BY <1>0
  <2>4. Solves(h, m + 1)
    BY <2>2, <2>3
  <2>5. \E f : Solves(f, m + 1)
    BY <2>4
  <2>6. m + 1 \in 0 .. top
    BY <1>0
  <2> QED
    BY <2>5, <2>6
<1>3. \E g : Solves(g, top)
  <2> HIDE DEF Good
  <2>1. \A m \in 0 .. top : m \in Good
    BY <1>0, <1>1, <1>2, Counting
  <2>2. top \in Good
    BY <1>0, <2>1
  <2> HIDE DEF Solves
  <2> QED
    BY <2>2 DEF Good
<1> QED
  BY <1>3 DEF Tables, top, start, Following

(* The ranges of a bisection are those of the definition.                   *)
LEMMA BisectionsDefined ==
  ASSUME NEW t, NEW addr, Len(t.regions) \in Nat
  PROVE  Bisections(t, addr) = [k \in 0 .. Len(t.regions) |-> IF k = 0 THEN <<1, Len(t.regions) + 1>> ELSE Bisect(t, addr, Bisections(t, addr)[k - 1])]
<1> DEFINE top == Len(t.regions)
           start == <<1, Len(t.regions) + 1>>
           Following(k, prev) == Bisect(t, addr, prev)
           Solves(g, m) == g = [k \in 0 .. m |-> IF k = 0 THEN start ELSE Following(k, g[k - 1])]
           Good == {m \in 0 .. top : \E g : Solves(g, m)}
<1>0. top \in Nat
  OBVIOUS
<1> HIDE DEF top, start, Following
<1>1. 0 \in Good
  <2>1. Solves([k \in 0 .. 0 |-> start], 0)
    OBVIOUS
  <2>2. \E g : Solves(g, 0)
    BY <2>1
  <2> QED
    BY <1>0, <2>2
<1>2. ASSUME NEW m \in 0 .. top - 1, m \in Good
      PROVE  m + 1 \in Good
  <2>1. PICK g : Solves(g, m)
    BY <1>2
  <2> DEFINE h == [k \in 0 .. m + 1 |-> IF k = 0 THEN start ELSE Following(k, g[k - 1])]
  <2>2. \A k \in 0 .. m : h[k] = g[k]
    BY <1>0, <2>1
  <2>3. \A k \in 0 .. m + 1 : k # 0 => k - 1 \in 0 .. m
    BY <1>0
  <2>4. Solves(h, m + 1)
    BY <2>2, <2>3
  <2>5. \E f : Solves(f, m + 1)
    BY <2>4
  <2>6. m + 1 \in 0 .. top
    BY <1>0
  <2> QED
    BY <2>5, <2>6
<1>3. \E g : Solves(g, top)
  <2> HIDE DEF Good
  <2>1. \A m \in 0 .. top : m \in Good
    BY <1>0, <1>1, <1>2, Counting
  <2>2. top \in Good
    BY <1>0, <2>1
  <2> HIDE DEF Solves
  <2> QED
    BY <2>2 DEF Good
<1> QED
  BY <1>3 DEF Bisections, top, start, Following

(* The table of regions.                                                   *)

(* What a region and an object can be, of any names.                       *)
Region(B, I, N) == [base : Nat, end : Nat, readable : B, id : I, name : N]
Object(I, N) == [id : I, base : Nat, end : Nat, name : N]

(* Every region of a file has an object, there is one for each file, and   *)
(* it goes from the lowest to the highest of its regions.                  *)
HasObject(t) ==
  \A i \in DOMAIN t.regions : t.regions[i].id # NoObject =>
    \E k \in DOMAIN t.objects : t.objects[k].id = t.regions[i].id
OnePerFile(t) ==
  /\ \A k \in DOMAIN t.objects : t.objects[k].id # NoObject
  /\ \A k, l \in DOMAIN t.objects : t.objects[k].id = t.objects[l].id => k = l
Around(t, o) ==
  \A i \in DOMAIN t.regions : t.regions[i].id = o.id => o.base <= t.regions[i].base /\ t.regions[i].end <= o.end
Reached(t, o) ==
  /\ \E i \in DOMAIN t.regions : t.regions[i].id = o.id /\ o.base = t.regions[i].base
  /\ \E i \in DOMAIN t.regions : t.regions[i].id = o.id /\ o.end = t.regions[i].end
Spans(t) == \A k \in DOMAIN t.objects : Around(t, t.objects[k]) /\ Reached(t, t.objects[k])

(* What a table reaches it reaches when regions follow.                    *)
LEMMA ReachedKept ==
  ASSUME NEW t, NEW u, NEW o, NEW n \in Nat, DOMAIN t.regions = 1 .. n, DOMAIN u.regions = 1 .. n + 1,
         \A i \in 1 .. n : u.regions[i] = t.regions[i], Reached(t, o)
  PROVE  Reached(u, o)
<1>1. PICK i \in 1 .. n : t.regions[i].id = o.id /\ o.base = t.regions[i].base
  BY DEF Reached
<1>2. PICK j \in 1 .. n : t.regions[j].id = o.id /\ o.end = t.regions[j].end
  BY DEF Reached
<1>3. i \in 1 .. n + 1 /\ j \in 1 .. n + 1
  OBVIOUS
<1>4. u.regions[i].id = o.id /\ o.base = u.regions[i].base
  BY <1>1
<1>5. u.regions[j].id = o.id /\ o.end = u.regions[j].end
  BY <1>2
<1>6. \E x \in DOMAIN u.regions : u.regions[x].id = o.id /\ o.base = u.regions[x].base
  BY <1>3, <1>4
<1>7. \E x \in DOMAIN u.regions : u.regions[x].id = o.id /\ o.end = u.regions[x].end
  BY <1>3, <1>5
<1> QED
  BY <1>6, <1>7 DEF Reached

(* A region that widens an object.                                         *)
LEMMA Widened ==
  ASSUME NEW I, NEW N, NEW o \in Object(I, N), NEW r, r.base \in Nat, r.end \in Nat
  PROVE  LET w == Widen(o, r)
         IN /\ w \in Object(I, N) /\ w.id = o.id
            /\ w.base <= o.base /\ w.base <= r.base /\ (w.base = o.base \/ w.base = r.base)
            /\ o.end <= w.end /\ r.end <= w.end /\ (w.end = o.end \/ w.end = r.end)
<1> DEFINE w == Widen(o, r)
<1>1. o.base \in Nat /\ o.end \in Nat /\ o.id \in I /\ o.name \in N
  BY DEF Object
<1>2. o = [id |-> o.id, base |-> o.base, end |-> o.end, name |-> o.name]
  BY DEF Object
<1>3. w = [id |-> o.id, base |-> Lesser(o.base, r.base), end |-> Greater(o.end, r.end), name |-> o.name]
  <2>1. w = [o EXCEPT !.base = Lesser(o.base, r.base), !.end = Greater(o.end, r.end)]
    BY DEF Widen
  <2> HIDE DEF w
  <2>2. DOMAIN o = {"id", "base", "end", "name"}
    BY <1>2
  <2>3. DOMAIN w = {"id", "base", "end", "name"} /\ w = [x \in DOMAIN o |-> w[x]]
    BY <2>1, <2>2
  <2>4. w.id = o.id /\ w.name = o.name /\ w.base = Lesser(o.base, r.base) /\ w.end = Greater(o.end, r.end)
    BY <2>1, <2>2
  <2> QED
    BY <2>2, <2>3, <2>4
<1>4. /\ w.id = o.id /\ w.name = o.name
      /\ w.base = Lesser(o.base, r.base) /\ w.end = Greater(o.end, r.end)
  BY <1>3
<1> HIDE DEF w
<1>5. /\ w.base \in Nat /\ w.base <= o.base /\ w.base <= r.base /\ (w.base = o.base \/ w.base = r.base)
      /\ w.end \in Nat /\ o.end <= w.end /\ r.end <= w.end /\ (w.end = o.end \/ w.end = r.end)
  BY <1>1, <1>4 DEF Lesser, Greater
<1>6. w \in Object(I, N)
  BY <1>1, <1>3, <1>4, <1>5 DEF Object
<1> QED
  BY <1>4, <1>5, <1>6 DEF w

(* A region that is added changes at most its own object.                  *)
LEMMA AddSpans ==
  ASSUME NEW B, NEW I, NEW N, NEW t,
         t.regions \in Seq(Region(B, I, N)), t.objects \in Seq(Object(I, N)),
         NEW r \in Region(B, I, N), HasObject(t), OnePerFile(t), Spans(t)
  PROVE  LET u == Add(t, r)
         IN /\ u.regions \in Seq(Region(B, I, N)) /\ u.objects \in Seq(Object(I, N))
            /\ u.regions = Append(t.regions, r)
            /\ HasObject(u) /\ OnePerFile(u) /\ Spans(u)
<1> DEFINE u == Add(t, r)
           n == Len(t.regions)
           m == Len(t.objects)
           new == [id |-> r.id, base |-> r.base, end |-> r.end, name |-> r.name]
<1>1. /\ n \in Nat /\ m \in Nat /\ DOMAIN t.regions = 1 .. n /\ DOMAIN t.objects = 1 .. m
      /\ \A i \in 1 .. n : t.regions[i] \in Region(B, I, N)
      /\ \A k \in 1 .. m : t.objects[k] \in Object(I, N)
  OBVIOUS
<1>2. /\ u.regions = Append(t.regions, r) /\ u.regions \in Seq(Region(B, I, N))
      /\ DOMAIN u.regions = 1 .. n + 1 /\ u.regions[n + 1] = r
      /\ \A i \in 1 .. n : u.regions[i] = t.regions[i]
  <2>1. u.regions = Append(t.regions, r)
    BY DEF Add
  <2> QED
    BY <2>1
<1>3. /\ \A i \in 1 .. n : t.regions[i].base \in Nat /\ t.regions[i].end \in Nat /\ t.regions[i].id \in I
      /\ \A k \in 1 .. m : t.objects[k].base \in Nat /\ t.objects[k].end \in Nat
      /\ r.base \in Nat /\ r.end \in Nat /\ r.id \in I /\ r.name \in N
  BY <1>1 DEF Region, Object
<1> HIDE DEF n, m
<1>a. ASSUME NEW o, Reached(t, o)
      PROVE  Reached(u, o)
  <2> HIDE DEF u
  <2>1. n \in Nat /\ DOMAIN t.regions = 1 .. n /\ DOMAIN u.regions = 1 .. n + 1
    BY <1>1, <1>2
  <2>2. \A i \in 1 .. n : u.regions[i] = t.regions[i]
    BY <1>2
  <2> QED
    BY <1>a, <2>1, <2>2, ReachedKept
<1>4. CASE r.id = NoObject
  <2>1. u.objects = t.objects
    BY <1>4 DEF Add
  <2> HIDE DEF u
  <2>2. HasObject(u)
    BY <1>1, <1>2, <1>4, <2>1 DEF HasObject
  <2>3. OnePerFile(u)
    BY <2>1 DEF OnePerFile
  <2>4. ASSUME NEW k \in 1 .. m
        PROVE  Around(u, t.objects[k]) /\ Reached(u, t.objects[k])
    <3>1. t.objects[k].id # NoObject /\ Around(t, t.objects[k]) /\ Reached(t, t.objects[k])
      BY <1>1 DEF OnePerFile, Spans
    <3>2. Around(u, t.objects[k])
      BY <1>1, <1>2, <1>4, <3>1 DEF Around
    <3>3. Reached(u, t.objects[k])
      BY <1>a, <3>1
    <3> QED
      BY <3>2, <3>3
  <2>5. Spans(u)
    BY <1>1, <2>1, <2>4 DEF Spans
  <2> QED
    BY <1>2, <2>1, <2>2, <2>3, <2>5 DEF u
<1>5. CASE r.id # NoObject /\ objectIndex(t, r.id) = {}
  <2>1. u.objects = Append(t.objects, new)
    BY <1>5 DEF Add
  <2>2. new \in Object(I, N)
    BY <1>3 DEF Object
  <2>3. \A k \in 1 .. m : t.objects[k].id # r.id
    BY <1>1, <1>5 DEF objectIndex
  <2>4. \A i \in 1 .. n : t.regions[i].id # r.id
    BY <1>1, <1>5, <2>3 DEF HasObject
  <2>5. new.id = r.id /\ new.base = r.base /\ new.end = r.end
    OBVIOUS
  <2> HIDE DEF new, u
  <2>6. /\ u.objects \in Seq(Object(I, N)) /\ DOMAIN u.objects = 1 .. m + 1 /\ u.objects[m + 1] = new
        /\ \A k \in 1 .. m : u.objects[k] = t.objects[k]
    BY <2>1, <2>2 DEF m
  <2>7. HasObject(u)
    <3> SUFFICES ASSUME NEW i \in 1 .. n + 1, u.regions[i].id # NoObject
                 PROVE  \E k \in 1 .. m + 1 : u.objects[k].id = u.regions[i].id
      BY <1>2, <2>6 DEF HasObject
    <3>1. CASE i \in 1 .. n
      <4>1. PICK k \in 1 .. m : t.objects[k].id = t.regions[i].id
        BY <1>1, <1>2, <3>1 DEF HasObject
      <4>2. u.objects[k].id = u.regions[i].id /\ k \in 1 .. m + 1
        BY <1>1, <1>2, <2>6, <3>1, <4>1
      <4> QED
        BY <4>2
    <3>2. CASE i = n + 1
      <4>1. u.objects[m + 1].id = u.regions[i].id /\ m + 1 \in 1 .. m + 1
        BY <1>1, <1>2, <2>5, <2>6, <3>2
      <4> QED
        BY <4>1
    <3> QED
      BY <1>1, <3>1, <3>2
  <2>8. OnePerFile(u)
    <3>1. ASSUME NEW k \in 1 .. m + 1
          PROVE  k \in 1 .. m \/ k = m + 1
      BY <1>1
    <3>2. \A k \in 1 .. m + 1 : u.objects[k].id # NoObject
      BY <1>1, <1>5, <2>5, <2>6, <3>1 DEF OnePerFile
    <3>3. ASSUME NEW k \in 1 .. m + 1, NEW l \in 1 .. m + 1, u.objects[k].id = u.objects[l].id
          PROVE  k = l
      <4>1. CASE k \in 1 .. m /\ l \in 1 .. m
        BY <1>1, <2>6, <3>3, <4>1 DEF OnePerFile
      <4>2. CASE k = m + 1 /\ l \in 1 .. m
        BY <2>3, <2>5, <2>6, <3>3, <4>2
      <4>3. CASE k \in 1 .. m /\ l = m + 1
        BY <2>3, <2>5, <2>6, <3>3, <4>3
      <4> QED
        BY <3>1, <4>1, <4>2, <4>3
    <3> QED
      BY <2>6, <3>2, <3>3 DEF OnePerFile
  <2>9. ASSUME NEW k \in 1 .. m
        PROVE  Around(u, t.objects[k]) /\ Reached(u, t.objects[k])
    <3>1. t.objects[k].id # r.id /\ Around(t, t.objects[k]) /\ Reached(t, t.objects[k])
      BY <1>1, <2>3 DEF Spans
    <3>2. Around(u, t.objects[k])
      BY <1>1, <1>2, <3>1 DEF Around
    <3>3. Reached(u, t.objects[k])
      BY <1>a, <3>1
    <3> QED
      BY <3>2, <3>3
  <2>10. Around(u, new)
    BY <1>1, <1>2, <1>3, <2>4, <2>5 DEF Around
  <2>11. Reached(u, new)
    <3>1. n + 1 \in DOMAIN u.regions /\ u.regions[n + 1] = r
      BY <1>1, <1>2
    <3> QED
      BY <2>5, <3>1 DEF Reached
  <2>12. Spans(u)
    BY <1>1, <2>6, <2>9, <2>10, <2>11 DEF Spans
  <2> QED
    BY <1>2, <2>6, <2>7, <2>8, <2>12 DEF u
<1>6. CASE r.id # NoObject /\ objectIndex(t, r.id) # {}
  <2>1. PICK o \in 1 .. m : t.objects[o].id = r.id
    BY <1>1, <1>6 DEF objectIndex
  <2>2. \A k \in 1 .. m : k \in objectIndex(t, r.id) <=> k = o
    BY <1>1, <2>1 DEF objectIndex, OnePerFile
  <2> DEFINE wide == Widen(t.objects[o], r)
  <2>3. u.objects = [k \in 1 .. m |-> IF k = o THEN wide ELSE t.objects[k]]
    BY <1>1, <1>6, <2>2 DEF Add
  <2>4. /\ wide \in Object(I, N) /\ wide.id = r.id
        /\ wide.base <= t.objects[o].base /\ wide.base <= r.base /\ wide.base \in {t.objects[o].base, r.base}
        /\ t.objects[o].end <= wide.end /\ r.end <= wide.end /\ wide.end \in {t.objects[o].end, r.end}
        /\ wide.base \in Nat /\ wide.end \in Nat
    <3>1. t.objects[o] \in Object(I, N) /\ r.base \in Nat /\ r.end \in Nat
      BY <1>1, <1>3
    <3>2. /\ wide \in Object(I, N) /\ wide.id = t.objects[o].id
          /\ wide.base <= t.objects[o].base /\ wide.base <= r.base /\ (wide.base = t.objects[o].base \/ wide.base = r.base)
          /\ t.objects[o].end <= wide.end /\ r.end <= wide.end /\ (wide.end = t.objects[o].end \/ wide.end = r.end)
      BY <3>1, Widened
    <3> HIDE DEF wide
    <3>3. wide.base \in Nat /\ wide.end \in Nat
      BY <3>2 DEF Object
    <3> QED
      BY <2>1, <3>2, <3>3
  <2> HIDE DEF wide, u
  <2>5. /\ u.objects \in Seq(Object(I, N)) /\ DOMAIN u.objects = 1 .. m /\ u.objects[o] = wide
        /\ \A k \in 1 .. m : k # o => u.objects[k] = t.objects[k]
        /\ \A k \in 1 .. m : u.objects[k].id = t.objects[k].id
    <3>1. u.objects \in [1 .. m -> Object(I, N)]
      BY <1>1, <2>3, <2>4
    <3> QED
      BY <1>1, <2>1, <2>3, <2>4, <3>1
  <2>6. HasObject(u)
    <3> SUFFICES ASSUME NEW i \in 1 .. n + 1, u.regions[i].id # NoObject
                 PROVE  \E k \in 1 .. m : u.objects[k].id = u.regions[i].id
      BY <1>2, <2>5 DEF HasObject
    <3>1. CASE i \in 1 .. n
      <4>1. PICK k \in 1 .. m : t.objects[k].id = t.regions[i].id
        BY <1>1, <1>2, <3>1 DEF HasObject
      <4> QED
        BY <1>2, <2>5, <3>1, <4>1
    <3>2. CASE i = n + 1
      BY <1>2, <2>1, <2>5, <3>2
    <3> QED
      BY <1>1, <3>1, <3>2
  <2>7. OnePerFile(u)
    BY <1>1, <2>5 DEF OnePerFile
  <2>8. ASSUME NEW k \in 1 .. m, k # o
        PROVE  Around(u, t.objects[k]) /\ Reached(u, t.objects[k])
    <3>1. t.objects[k].id # r.id /\ Around(t, t.objects[k]) /\ Reached(t, t.objects[k])
      BY <1>1, <2>1, <2>8 DEF Spans, OnePerFile
    <3>2. Around(u, t.objects[k])
      BY <1>1, <1>2, <3>1 DEF Around
    <3>3. Reached(u, t.objects[k])
      BY <1>a, <3>1
    <3> QED
      BY <3>2, <3>3
  <2>9. Around(t, t.objects[o]) /\ Reached(t, t.objects[o])
    BY <1>1 DEF Spans
  <2>10. Around(u, wide)
    <3> SUFFICES ASSUME NEW i \in 1 .. n + 1, u.regions[i].id = r.id
                 PROVE  wide.base <= u.regions[i].base /\ u.regions[i].end <= wide.end
      BY <1>2, <2>4 DEF Around
    <3>1. CASE i \in 1 .. n
      <4>1. t.objects[o].base <= t.regions[i].base /\ t.regions[i].end <= t.objects[o].end
        BY <1>1, <1>2, <2>1, <2>9, <3>1 DEF Around
      <4>2. /\ t.objects[o].base \in Nat /\ t.objects[o].end \in Nat
            /\ t.regions[i].base \in Nat /\ t.regions[i].end \in Nat
        BY <1>3, <3>1
      <4>3. u.regions[i] = t.regions[i]
        BY <1>2, <3>1
      <4>4. wide.base <= t.objects[o].base /\ t.objects[o].end <= wide.end /\ wide.base \in Nat /\ wide.end \in Nat
        BY <2>4
      <4> QED
        BY <4>1, <4>2, <4>3, <4>4
    <3>2. CASE i = n + 1
      BY <1>2, <2>4, <3>2
    <3> QED
      BY <1>1, <3>1, <3>2
  <2>11. Reached(u, wide)
    <3>1. Reached(u, t.objects[o])
      BY <1>a, <2>9
    <3>2. n + 1 \in DOMAIN u.regions /\ u.regions[n + 1].id = r.id /\ u.regions[n + 1] = r
      BY <1>1, <1>2
    <3>3. PICK i \in DOMAIN u.regions : u.regions[i].id = r.id /\ t.objects[o].base = u.regions[i].base
      BY <2>1, <3>1 DEF Reached
    <3>4. PICK j \in DOMAIN u.regions : u.regions[j].id = r.id /\ t.objects[o].end = u.regions[j].end
      BY <2>1, <3>1 DEF Reached
    <3>5. \E x \in DOMAIN u.regions : u.regions[x].id = r.id /\ wide.base = u.regions[x].base
      BY <2>4, <3>2, <3>3
    <3>6. \E x \in DOMAIN u.regions : u.regions[x].id = r.id /\ wide.end = u.regions[x].end
      BY <2>4, <3>2, <3>4
    <3> QED
      BY <2>4, <3>5, <3>6 DEF Reached
  <2>12. Spans(u)
    BY <2>5, <2>8, <2>10, <2>11 DEF Spans
  <2> QED
    BY <1>2, <2>5, <2>6, <2>7, <2>12 DEF u
<1> QED
  BY <1>4, <1>5, <1>6

(* The table after n lines has their regions and spans them.               *)
LEMMA TablesSpan ==
  ASSUME NEW lines, Len(lines) \in Nat, NEW B, NEW I, NEW N,
         \A i \in 1 .. Len(lines) : LineToRegion(lines[i]) \in Region(B, I, N)
  PROVE  LET t == Vmmap(lines)
         IN /\ t.regions \in Seq(Region(B, I, N)) /\ t.objects \in Seq(Object(I, N))
            /\ Len(t.regions) = Len(lines)
            /\ \A i \in 1 .. Len(lines) : t.regions[i] = LineToRegion(lines[i])
            /\ HasObject(t) /\ OnePerFile(t) /\ Spans(t)
<1> DEFINE top == Len(lines)
           Fine(t, n) == /\ t.regions \in Seq(Region(B, I, N)) /\ t.objects \in Seq(Object(I, N))
                         /\ Len(t.regions) = n
                         /\ \A i \in 1 .. n : t.regions[i] = LineToRegion(lines[i])
                         /\ HasObject(t) /\ OnePerFile(t) /\ Spans(t)
           tables == Tables(lines)
           Good == {n \in 0 .. top : Fine(tables[n], n)}
<1>1. \A n \in 0 .. top : tables[n] = IF n = 0 THEN EmptyRegions ELSE Add(tables[n - 1], LineToRegion(lines[n]))
  <2>1. tables = [n \in 0 .. top |-> IF n = 0 THEN EmptyRegions ELSE Add(tables[n - 1], LineToRegion(lines[n]))]
    BY TablesDefined
  <2> HIDE DEF tables
  <2> QED
    BY <2>1
<1>2. \A i \in 1 .. top : LineToRegion(lines[i]) \in Region(B, I, N)
  OBVIOUS
<1>3. top \in Nat
  OBVIOUS
<1> HIDE DEF tables, top
<1>4. 0 \in Good
  <2>1. tables[0] = EmptyRegions
    BY <1>1, <1>3
  <2>2. Fine(EmptyRegions, 0)
    BY DEF EmptyRegions, HasObject, OnePerFile, Spans
  <2> QED
    BY <1>3, <2>1, <2>2
<1>5. ASSUME NEW n \in 0 .. top - 1, n \in Good
      PROVE  n + 1 \in Good
  <2> DEFINE t == tables[n]
             r == LineToRegion(lines[n + 1])
             u == Add(t, r)
  <2>1. n + 1 \in 1 .. top /\ n + 1 \in 0 .. top /\ (n + 1) - 1 = n /\ n + 1 # 0
    BY <1>3
  <2>2. tables[n + 1] = u
    BY <1>1, <2>1
  <2>3. Fine(t, n) /\ r \in Region(B, I, N)
    BY <1>2, <1>5, <2>1
  <2> HIDE DEF t, r
  <2>4. /\ u.regions \in Seq(Region(B, I, N)) /\ u.objects \in Seq(Object(I, N))
        /\ u.regions = Append(t.regions, r)
        /\ HasObject(u) /\ OnePerFile(u) /\ Spans(u)
    BY <2>3, AddSpans
  <2> HIDE DEF u
  <2>5. Len(u.regions) = n + 1 /\ u.regions[n + 1] = r /\ \A i \in 1 .. n : u.regions[i] = t.regions[i]
    BY <1>3, <2>3, <2>4
  <2>6. \A i \in 1 .. n + 1 : u.regions[i] = LineToRegion(lines[i])
    <3>1. \A i \in 1 .. n + 1 : i \in 1 .. n \/ i = n + 1
      BY <1>3
    <3>2. u.regions[n + 1] = LineToRegion(lines[n + 1])
      BY <2>5 DEF r
    <3>3. \A i \in 1 .. n : u.regions[i] = LineToRegion(lines[i])
      BY <2>3, <2>5
    <3> QED
      BY <3>1, <3>2, <3>3
  <2>7. Fine(u, n + 1)
    BY <2>4, <2>5, <2>6
  <2> QED
    BY <2>1, <2>2, <2>7
<1>6. \A n \in 0 .. top : n \in Good
  <2> HIDE DEF Good
  <2> QED
    BY <1>3, <1>4, <1>5, Counting
<1>7. Fine(tables[top], top)
  BY <1>3, <1>6
<1> QED
  BY <1>7 DEF tables, top, Vmmap

(* Bisection ends at the first region that ends above the address.         *)
LEMMA FirstAboveFound ==
  ASSUME NEW t, NEW addr, Len(t.regions) \in Nat,
         \A i \in 1 .. Len(t.regions) : \A j \in 1 .. Len(t.regions) : i < j /\ EndsAbove(t, addr, i) => EndsAbove(t, addr, j)
  PROVE  LET f == FirstAbove(t, addr)
         IN /\ f \in 1 .. Len(t.regions) + 1
            /\ \A i \in 1 .. Len(t.regions) : i < f => ~EndsAbove(t, addr, i)
            /\ f <= Len(t.regions) => EndsAbove(t, addr, f)
<1> DEFINE n == Len(t.regions)
           range == Bisections(t, addr)
           Narrowed(lo, hi, k) ==
               /\ lo \in 1 .. n + 1 /\ hi \in 1 .. n + 1 /\ lo <= hi /\ (hi - lo <= n - k)
               /\ \A i \in 1 .. n : i < lo => ~EndsAbove(t, addr, i)
               /\ \A i \in 1 .. n : hi <= i => EndsAbove(t, addr, i)
           Good == {k \in 0 .. n : range[k] = <<range[k][1], range[k][2]>> /\ Narrowed(range[k][1], range[k][2], k)}
<1>1. n \in Nat
  OBVIOUS
<1>2. \A i \in 1 .. n : \A j \in 1 .. n : i < j /\ EndsAbove(t, addr, i) => EndsAbove(t, addr, j)
  OBVIOUS
<1>3. \A k \in 0 .. n : range[k] = IF k = 0 THEN <<1, n + 1>> ELSE Bisect(t, addr, range[k - 1])
  <2>1. range = [k \in 0 .. n |-> IF k = 0 THEN <<1, n + 1>> ELSE Bisect(t, addr, range[k - 1])]
    BY BisectionsDefined
  <2> HIDE DEF range
  <2> QED
    BY <2>1
<1> HIDE DEF range, n
<1>4. 0 \in Good
  <2>1. range[0] = <<1, n + 1>>
    BY <1>1, <1>3
  <2>2. Narrowed(1, n + 1, 0)
    BY <1>1
  <2> QED
    BY <1>1, <2>1, <2>2
<1>5. ASSUME NEW k \in 0 .. n - 1, k \in Good
      PROVE  k + 1 \in Good
  <2> DEFINE lo == range[k][1]
             hi == range[k][2]
             mid == (lo + hi) \div 2
             after == range[k + 1]
  <2>1. k + 1 \in 0 .. n /\ (k + 1) - 1 = k /\ k + 1 # 0
    BY <1>1
  <2>2. after = IF lo >= hi THEN range[k]
                ELSE IF EndsAbove(t, addr, mid) THEN <<lo, mid>> ELSE <<mid + 1, hi>>
    BY <1>3, <2>1 DEF Bisect
  <2>3. range[k] = <<lo, hi>> /\ Narrowed(lo, hi, k)
    BY <1>5
  <2> HIDE DEF lo, hi, after
  <2>4. after = <<after[1], after[2]>> /\ Narrowed(after[1], after[2], k + 1)
    <3>1. CASE lo >= hi
      <4>1. after = <<lo, hi>>
        BY <2>2, <2>3, <3>1
      <4>2. Narrowed(lo, hi, k + 1)
        BY <1>1, <2>3, <3>1
      <4> QED
        BY <4>1, <4>2
    <3>2. CASE lo < hi
      <4>1. mid \in Nat /\ lo <= mid /\ mid < hi /\ mid \in 1 .. n
        BY <1>1, <2>3, <3>2
      <4> HIDE DEF mid
      <4>2. CASE EndsAbove(t, addr, mid)
        <5>1. after = <<lo, mid>>
          BY <1>1, <2>2, <2>3, <3>2, <4>2
        <5>2. \A i \in 1 .. n : mid <= i => EndsAbove(t, addr, i)
          BY <1>1, <1>2, <4>1, <4>2
        <5>3. Narrowed(lo, mid, k + 1)
          BY <1>1, <2>3, <4>1, <5>2
        <5> QED
          BY <5>1, <5>3
      <4>3. CASE ~EndsAbove(t, addr, mid)
        <5>1. after = <<mid + 1, hi>>
          BY <1>1, <2>2, <2>3, <3>2, <4>3
        <5>2. \A i \in 1 .. n : i < mid + 1 => ~EndsAbove(t, addr, i)
          BY <1>1, <1>2, <4>1, <4>3
        <5>3. Narrowed(mid + 1, hi, k + 1)
          BY <1>1, <2>3, <4>1, <5>2
        <5> QED
          BY <5>1, <5>3
      <4> QED
        BY <4>2, <4>3
    <3> QED
      BY <1>1, <2>3, <3>1, <3>2
  <2> QED
    BY <2>1, <2>4 DEF after
<1>6. \A k \in 0 .. n : k \in Good
  <2> HIDE DEF Good
  <2> QED
    BY <1>1, <1>4, <1>5, Counting
<1> DEFINE f == range[n][1]
<1>7. Narrowed(f, range[n][2], n)
  BY <1>1, <1>6
<1> HIDE DEF f
<1>8. /\ f \in 1 .. n + 1
      /\ \A i \in 1 .. n : i < f => ~EndsAbove(t, addr, i)
      /\ f <= n => EndsAbove(t, addr, f)
  BY <1>1, <1>7
<1> QED
  BY <1>8 DEF FirstAbove, f, range, n

(* Regions that do not overlap, in order.                                  *)
InOrderOfAddress(regions) ==
  /\ \A i \in 1 .. Len(regions) : /\ regions[i].base \in Nat /\ regions[i].end \in Addrs
                                  /\ regions[i].base < regions[i].end
  /\ \A i \in 1 .. Len(regions) : \A j \in 1 .. Len(regions) : i < j => regions[i].end <= regions[j].base

(* What the table of a memory map is.                                      *)
Tabled(lines, t, B, I, N) ==
  /\ t.regions \in Seq(Region(B, I, N)) /\ t.objects \in Seq(Object(I, N))
  /\ Len(t.regions) = Len(lines)
  /\ \A i \in 1 .. Len(lines) : t.regions[i] = LineToRegion(lines[i])
  /\ HasObject(t) /\ OnePerFile(t) /\ Spans(t)
  /\ InOrderOfAddress(t.regions)

(* The table of a memory map, with the names that are in it.               *)
LEMMA MapTable ==
  ASSUME NEW lines, Len(lines) \in Nat, MemoryMap(lines)
  PROVE  \E B, I, N : Tabled(lines, Vmmap(lines), B, I, N)
<1> DEFINE top == Len(lines)
           B == {LineToRegion(lines[i]).readable : i \in 1 .. top}
           I == {LineToRegion(lines[i]).id : i \in 1 .. top}
           N == {LineToRegion(lines[i]).name : i \in 1 .. top}
           t == Vmmap(lines)
<1>1. Addrs \subseteq Nat
  BY AddrAssumption DEF Addrs
<1>2. ASSUME NEW i \in 1 .. top
      PROVE  /\ LineToRegion(lines[i]) \in Region(B, I, N)
             /\ LineToRegion(lines[i]).base = lines[i].base
             /\ LineToRegion(lines[i]).end = lines[i].end
             /\ lines[i].base \in Nat /\ lines[i].end \in Addrs /\ lines[i].base < lines[i].end
  <2> DEFINE r == LineToRegion(lines[i])
  <2>0. lines[i].base \in Nat /\ lines[i].end \in Addrs /\ lines[i].base < lines[i].end
    BY <1>1 DEF MemoryMap
  <2>1. lines[i].base \in Nat /\ lines[i].end \in Nat /\ lines[i].base < lines[i].end
    BY <1>1, <2>0
  <2>2. r.readable \in B /\ r.id \in I /\ r.name \in N
    OBVIOUS
  <2>3. /\ r = [base |-> r.base, end |-> r.end, readable |-> r.readable, id |-> r.id, name |-> r.name]
        /\ r.base = lines[i].base /\ r.end = lines[i].end
    BY DEF LineToRegion
  <2> HIDE DEF r, B, I, N
  <2>4. r \in Region(B, I, N)
    BY <2>1, <2>2, <2>3 DEF Region
  <2> QED
    BY <2>0, <2>3, <2>4 DEF r
<1> HIDE DEF B, I, N
<1>3. /\ t.regions \in Seq(Region(B, I, N)) /\ t.objects \in Seq(Object(I, N))
      /\ Len(t.regions) = top
      /\ \A i \in 1 .. top : t.regions[i] = LineToRegion(lines[i])
      /\ HasObject(t) /\ OnePerFile(t) /\ Spans(t)
  BY <1>2, TablesSpan
<1>a. \A i \in 1 .. top : \A j \in 1 .. top : i < j => lines[i].end <= lines[j].base
  BY DEF MemoryMap
<1> HIDE DEF top
<1>b. InOrderOfAddress(t.regions)
  BY <1>2, <1>3, <1>a DEF InOrderOfAddress
<1>4. Tabled(lines, t, B, I, N)
  BY <1>3, <1>b DEF Tabled, top
<1> HIDE DEF t
<1>5. \E X, Y, Z : Tabled(lines, t, X, Y, Z)
  BY <1>4
<1> QED
  BY <1>5 DEF t

(* Where an address is found.                                              *)
LEMMA AddrFound ==
  ASSUME NEW t, Len(t.regions) \in Nat, InOrderOfAddress(t.regions), NEW a \in Nat
  PROVE  /\ HasAddr(t, a) \in 0 .. Len(t.regions)
         /\ HasAddr(t, a) # 0 => t.regions[HasAddr(t, a)].base <= a /\ a < t.regions[HasAddr(t, a)].end
         /\ HasAddr(t, a) = 0 => \A j \in 1 .. Len(t.regions) : ~(t.regions[j].base <= a /\ a < t.regions[j].end)
<1> DEFINE top == Len(t.regions)
           f == FirstAbove(t, a)
<1>1. \A i \in 1 .. top : /\ t.regions[i].base \in Nat /\ t.regions[i].end \in Nat
                          /\ t.regions[i].base < t.regions[i].end
  BY AddrAssumption DEF InOrderOfAddress, Addrs
<1>2. \A i \in 1 .. top : \A j \in 1 .. top : i < j => t.regions[i].end <= t.regions[j].base
  BY DEF InOrderOfAddress
<1>3. top \in Nat
  OBVIOUS
<1>4. \A i \in 1 .. top : \A j \in 1 .. top : i < j /\ EndsAbove(t, a, i) => EndsAbove(t, a, j)
  BY <1>1, <1>2, <1>3 DEF EndsAbove
<1>5. /\ f \in 1 .. top + 1
      /\ \A i \in 1 .. top : i < f => ~EndsAbove(t, a, i)
      /\ f <= top => EndsAbove(t, a, f)
  BY <1>3, <1>4, FirstAboveFound
<1>6. HasAddr(t, a) = IF f <= top /\ a >= t.regions[f].base /\ a < t.regions[f].end THEN f ELSE 0
  BY DEF HasAddr
<1> HIDE DEF f, top
<1>7. CASE f <= top /\ a >= t.regions[f].base /\ a < t.regions[f].end
  <2>1. HasAddr(t, a) = f /\ f # 0 /\ f \in 1 .. top
    BY <1>3, <1>5, <1>6, <1>7
  <2>2. t.regions[f].base <= a /\ a < t.regions[f].end
    BY <1>1, <1>7, <2>1
  <2>3. f \in 0 .. top
    BY <2>1
  <2> QED
    BY <2>1, <2>2, <2>3 DEF top
<1>8. CASE ~(f <= top /\ a >= t.regions[f].base /\ a < t.regions[f].end)
  <2>1. HasAddr(t, a) = 0
    BY <1>6, <1>8
  <2>2. ASSUME NEW j \in 1 .. top
        PROVE  ~(t.regions[j].base <= a /\ a < t.regions[j].end)
    <3>1. CASE j < f
      BY <1>1, <1>5, <3>1 DEF EndsAbove
    <3>2. CASE j = f
      BY <1>1, <1>3, <1>8, <3>2
    <3>3. CASE f < j
      <4>1. f \in 1 .. top /\ EndsAbove(t, a, f)
        BY <1>3, <1>5, <3>3
      <4>2. t.regions[f].end <= t.regions[j].base
        BY <1>2, <3>3, <4>1
      <4> QED
        BY <1>1, <4>1, <4>2 DEF EndsAbove
    <3> QED
      BY <1>3, <1>5, <3>1, <3>2, <3>3
  <2>3. 0 \in 0 .. top
    BY <1>3
  <2> QED
    BY <2>1, <2>2, <2>3 DEF top
<1> QED
  BY <1>7, <1>8

(* In any memory map, however many lines it has: an address is found where *)
(* it is mapped and only there, and a file's object spans its regions.     *)
THEOREM LookupsAreRight ==
  ASSUME NEW lines, Len(lines) \in Nat, MemoryMap(lines)
  PROVE  LookupFinds(lines)
<1> DEFINE t == Vmmap(lines)
<1>0. PICK B, I, N : Tabled(lines, t, B, I, N)
  BY MapTable
<1>1. /\ t.regions \in Seq(Region(B, I, N)) /\ t.objects \in Seq(Object(I, N))
      /\ Len(t.regions) = Len(lines)
      /\ HasObject(t) /\ OnePerFile(t) /\ Spans(t)
      /\ InOrderOfAddress(t.regions)
  BY <1>0 DEF Tabled
<1> HIDE DEF t
<1>2. Addrs \subseteq Nat
  BY AddrAssumption DEF Addrs
<1> DEFINE holds(i, a) == t.regions[i].base <= a /\ a < t.regions[i].end
           owned(id) == {i \in DOMAIN t.regions : t.regions[i].id = id}
<1>3. ASSUME NEW a \in Addrs
      PROVE  IF HasAddr(t, a) = 0 THEN \A j \in DOMAIN t.regions : ~holds(j, a) ELSE holds(HasAddr(t, a), a)
  <2>1. Len(t.regions) \in Nat /\ DOMAIN t.regions = 1 .. Len(t.regions) /\ a \in Nat
    BY <1>1, <1>2
  <2>2. /\ HasAddr(t, a) # 0 => holds(HasAddr(t, a), a)
        /\ HasAddr(t, a) = 0 => \A j \in 1 .. Len(t.regions) : ~holds(j, a)
    BY <1>1, <2>1, AddrFound
  <2> QED
    BY <2>1, <2>2
<1>4. ASSUME NEW i \in DOMAIN t.regions, t.regions[i].id # NoObject
       PROVE  Cardinality(objectIndex(t, t.regions[i].id)) = 1
  <2>1. PICK k \in DOMAIN t.objects : t.objects[k].id = t.regions[i].id
    BY <1>1, <1>4 DEF HasObject
  <2>2. objectIndex(t, t.regions[i].id) = {k}
    BY <1>1, <2>1 DEF objectIndex, OnePerFile
  <2> QED
    BY <2>2, FS_Singleton
<1>5. ASSUME NEW k \in DOMAIN t.objects
       PROVE  LET o == t.objects[k] IN
              /\ \A i \in owned(o.id) : o.base <= t.regions[i].base /\ t.regions[i].end <= o.end
              /\ \E i, j \in owned(o.id) : o.base = t.regions[i].base /\ o.end = t.regions[j].end
  <2> DEFINE o == t.objects[k]
  <2>1. Around(t, o) /\ Reached(t, o)
    BY <1>1 DEF Spans
  <2> HIDE DEF o
  <2>2. \A i \in owned(o.id) : o.base <= t.regions[i].base /\ t.regions[i].end <= o.end
    BY <2>1 DEF Around
  <2>3. PICK i \in DOMAIN t.regions : t.regions[i].id = o.id /\ o.base = t.regions[i].base
    BY <2>1 DEF Reached
  <2>4. PICK j \in DOMAIN t.regions : t.regions[j].id = o.id /\ o.end = t.regions[j].end
    BY <2>1 DEF Reached
  <2>5. i \in owned(o.id) /\ j \in owned(o.id)
    BY <2>3, <2>4
  <2>6. \E x, y \in owned(o.id) : o.base = t.regions[x].base /\ o.end = t.regions[y].end
    BY <2>3, <2>4, <2>5
  <2> QED
    BY <2>2, <2>6 DEF o
<1> QED
  BY <1>3, <1>4, <1>5 DEF LookupFinds, t

-----------------------------------------------------------------------------
(* The probes of MCCommands.                                               *)

(* A probe stays what it was chosen to be.                                 *)
LEMMA ProbeStays ==
  MCSpec => [](probe \in {NoProbe} \cup [kind : {"line"}, cmd : DOMAIN Tree, args : ArgLists] \cup [kind : {"maps"}, maps : SortedMaps])
<1> DEFINE Inv == probe \in {NoProbe} \cup [kind : {"line"}, cmd : DOMAIN Tree, args : ArgLists] \cup [kind : {"maps"}, maps : SortedMaps]
<1>1. MCInit => Inv
  BY DEF MCInit
<1>2. Inv /\ [MCNext]_<<vars, probe>> => Inv'
  BY DEF MCNext
<1> HIDE DEF Inv
<1>3. MCSpec => []Inv
  BY <1>1, <1>2, PTL DEF MCSpec
<1> QED
  BY <1>3 DEF Inv

(* The maps looked at are memory maps.                                     *)
LEMMA MapsAreMaps ==
  ASSUME NEW lines \in SortedMaps
  PROVE  Len(lines) \in Nat /\ MemoryMap(lines)
<1>1. MemoryMap(lines) /\ (lines \in ShortMaps \/ lines \in LongMaps)
  BY DEF SortedMaps
<1>2. CASE lines \in ShortMaps
  <2>1. PICK n \in 0 .. 2 : lines \in [1 .. n -> Segments]
    BY <1>2 DEF ShortMaps
  <2> QED
    BY <1>1, <2>1
<1>3. CASE lines \in LongMaps
  <2>1. PICK a, b, c : lines = <<a, b, c>>
    BY <1>3 DEF LongMaps
  <2> QED
    BY <1>1, <2>1
<1> QED
  BY <1>1, <1>2, <1>3

(* In every memory map that is looked at, lookups are right.               *)
THEOREM MapsAreLookedUp == MCSpec => []MapsLookedUp
<1> DEFINE Chosen == probe \in {NoProbe} \cup [kind : {"line"}, cmd : DOMAIN Tree, args : ArgLists] \cup [kind : {"maps"}, maps : SortedMaps]
<1>1. Chosen => MapsLookedUp
  <2> SUFFICES ASSUME Chosen, probe.kind = "maps"
               PROVE  LookupFinds(probe.maps)
    BY DEF MapsLookedUp
  <2>1. NoProbe.kind # "maps"
    BY DEF NoProbe
  <2>2. probe.maps \in SortedMaps
    BY <2>1
  <2> QED
    BY <2>2, MapsAreMaps, LookupsAreRight
<1> HIDE DEF Chosen
<1>2. MCSpec => []Chosen
  BY ProbeStays DEF Chosen
<1> QED
  BY <1>1, <1>2, PTL

-----------------------------------------------------------------------------
(* Numbers and their bytes.                                                *)

(* A number is what division leaves of it, and the rest.                   *)
LEMMA Divided ==
  ASSUME NEW x \in Nat, NEW d \in Nat \ {0}
  PROVE  x \div d \in Nat /\ x % d \in 0 .. d - 1 /\ (x \div d) * d + (x % d) = x
OBVIOUS

(* The quotient and the rest are the only ones.                            *)
LEMMA DividedOnce ==
  ASSUME NEW q \in Nat, NEW r \in Nat, NEW d \in Nat \ {0}, r < d
  PROVE  (d * q + r) \div d = q /\ (d * q + r) % d = r
<1> DEFINE x == d * q + r
           p == x \div d
           s == x % d
<1>1. x \in Nat
  OBVIOUS
<1>2. p \in Nat /\ s \in Nat /\ s < d /\ p * d + s = x
  BY <1>1, Divided
<1>3. p * d + s = d * q + r
  BY <1>2
<1> HIDE DEF x, p, s
<1>4. ASSUME p < q
      PROVE  FALSE
  <2>1. (p + 1) * d <= q * d
    BY <1>2, <1>4
  <2> QED
    BY <1>2, <1>3, <2>1
<1>5. ASSUME q < p
      PROVE  FALSE
  <2>1. (q + 1) * d <= p * d
    BY <1>2, <1>5
  <2> QED
    BY <1>2, <1>3, <2>1
<1>6. p = q
  <2>1. p \in Nat
    BY <1>2
  <2> QED
    BY <1>4, <1>5, <2>1
<1>7. s = r
  BY <1>2, <1>3, <1>6
<1> QED
  BY <1>6, <1>7 DEF p, s, x

(* Division leaves a number below the divisor as it is.                    *)
LEMMA SmallRest ==
  ASSUME NEW x \in Nat, NEW d \in Nat \ {0}, x < d
  PROVE  x \div d = 0 /\ x % d = x
<1>1. d * 0 + x = x
  OBVIOUS
<1>2. (d * 0 + x) \div d = 0 /\ (d * 0 + x) % d = x
  <2>1. 0 \in Nat
    OBVIOUS
  <2> QED
    BY <2>1, DividedOnce
<1> QED
  BY <1>1, <1>2

(* A function of the numbers up to n is a sequence.                        *)
LEMMA FunctionSeq ==
  ASSUME NEW S, NEW n \in Nat, NEW f \in [1 .. n -> S]
  PROVE  f \in Seq(S) /\ Len(f) = n
OBVIOUS

(* The shifts of a number are those of the definition.                      *)
LEMMA ShiftedDefined ==
  ASSUME NEW n, NEW w \in Nat
  PROVE  Shifted(n, w) = [k \in 0 .. w |-> IF k = 0 THEN n ELSE Shifted(n, w)[k - 1] \div ByteLimit]
<1> DEFINE top == w
           start == n
           Following(k, prev) == prev \div ByteLimit
           Solves(g, m) == g = [k \in 0 .. m |-> IF k = 0 THEN start ELSE Following(k, g[k - 1])]
           Good == {m \in 0 .. top : \E g : Solves(g, m)}
<1>0. top \in Nat
  OBVIOUS
<1> HIDE DEF top, start, Following
<1>1. 0 \in Good
  <2>1. Solves([k \in 0 .. 0 |-> start], 0)
    OBVIOUS
  <2>2. \E g : Solves(g, 0)
    BY <2>1
  <2> QED
    BY <1>0, <2>2
<1>2. ASSUME NEW m \in 0 .. top - 1, m \in Good
      PROVE  m + 1 \in Good
  <2>1. PICK g : Solves(g, m)
    BY <1>2
  <2> DEFINE h == [k \in 0 .. m + 1 |-> IF k = 0 THEN start ELSE Following(k, g[k - 1])]
  <2>2. \A k \in 0 .. m : h[k] = g[k]
    BY <1>0, <2>1
  <2>3. \A k \in 0 .. m + 1 : k # 0 => k - 1 \in 0 .. m
    BY <1>0
  <2>4. Solves(h, m + 1)
    BY <2>2, <2>3
  <2>5. \E f : Solves(f, m + 1)
    BY <2>4
  <2>6. m + 1 \in 0 .. top
    BY <1>0
  <2> QED
    BY <2>5, <2>6
<1>3. \E g : Solves(g, top)
  <2> HIDE DEF Good
  <2>1. \A m \in 0 .. top : m \in Good
    BY <1>0, <1>1, <1>2, Counting
  <2>2. top \in Good
    BY <1>0, <2>1
  <2> HIDE DEF Solves
  <2> QED
    BY <2>2 DEF Good
<1> QED
  BY <1>3 DEF Shifted, top, start, Following

(* A shifted number is a number.                                           *)
LEMMA ShiftedTypes ==
  ASSUME NEW n \in Nat, NEW w \in Nat
  PROVE  /\ \A i \in 0 .. w : Shifted(n, w)[i] \in Nat
         /\ Shifted(n, w)[0] = n
         /\ \A i \in 1 .. w : Shifted(n, w)[i] = Shifted(n, w)[i - 1] \div ByteLimit
<1> DEFINE shift == Shifted(n, w)
           Good == {i \in 0 .. w : shift[i] \in Nat}
<1>1. \A i \in 0 .. w : shift[i] = IF i = 0 THEN n ELSE shift[i - 1] \div ByteLimit
  <2>1. shift = [i \in 0 .. w |-> IF i = 0 THEN n ELSE shift[i - 1] \div ByteLimit]
    BY ShiftedDefined
  <2> HIDE DEF shift
  <2> QED
    BY <2>1
<1> HIDE DEF shift
<1>2. ByteLimit \in Nat \ {0}
  BY ByteAssumption
<1>3. 0 \in Good
  BY <1>1
<1>4. ASSUME NEW i \in 0 .. w - 1, i \in Good
      PROVE  i + 1 \in Good
  <2>1. i + 1 \in 0 .. w /\ (i + 1) - 1 = i /\ i + 1 # 0
    OBVIOUS
  <2>2. shift[i + 1] = shift[i] \div ByteLimit
    BY <1>1, <2>1
  <2> QED
    BY <1>2, <1>4, <2>1, <2>2, Divided
<1>5. \A i \in 0 .. w : i \in Good
  <2> HIDE DEF Good
  <2> QED
    BY <1>3, <1>4, Counting
<1>6. shift[0] = n
  BY <1>1
<1>7. \A i \in 1 .. w : shift[i] = shift[i - 1] \div ByteLimit
  BY <1>1
<1> QED
  BY <1>5, <1>6, <1>7 DEF shift

(* The digits of a number are bytes.                                       *)
LEMMA DigitsTypes ==
  ASSUME NEW n \in Nat, NEW w \in Nat
  PROVE  Digits(n, w) \in Seq(0 .. ByteLimit - 1) /\ Len(Digits(n, w)) = w
<1>1. ASSUME NEW i \in 1 .. w
      PROVE  Shifted(n, w)[w - i] % ByteLimit \in 0 .. ByteLimit - 1
  <2>1. w - i \in 0 .. w
    OBVIOUS
  <2>2. Shifted(n, w)[w - i] \in Nat
    BY <2>1, ShiftedTypes
  <2>3. ByteLimit \in Nat \ {0}
    BY ByteAssumption
  <2> QED
    BY <2>2, <2>3, Divided
<1>2. Digits(n, w) \in [1 .. w -> 0 .. ByteLimit - 1]
  BY <1>1 DEF Digits
<1> QED
  BY <1>2, FunctionSeq

(* The numbers of a sequence of digits are those of the definition.         *)
LEMMA NumbersDefined ==
  ASSUME NEW s, Len(s) \in Nat
  PROVE  NumbersOf(s) = [k \in 0 .. Len(s) |-> IF k = 0 THEN 0 ELSE NumbersOf(s)[k - 1] * ByteLimit + s[k]]
<1> DEFINE top == Len(s)
           start == 0
           Following(k, prev) == prev * ByteLimit + s[k]
           Solves(g, m) == g = [k \in 0 .. m |-> IF k = 0 THEN start ELSE Following(k, g[k - 1])]
           Good == {m \in 0 .. top : \E g : Solves(g, m)}
<1>0. top \in Nat
  OBVIOUS
<1> HIDE DEF top, start, Following
<1>1. 0 \in Good
  <2>1. Solves([k \in 0 .. 0 |-> start], 0)
    OBVIOUS
  <2>2. \E g : Solves(g, 0)
    BY <2>1
  <2> QED
    BY <1>0, <2>2
<1>2. ASSUME NEW m \in 0 .. top - 1, m \in Good
      PROVE  m + 1 \in Good
  <2>1. PICK g : Solves(g, m)
    BY <1>2
  <2> DEFINE h == [k \in 0 .. m + 1 |-> IF k = 0 THEN start ELSE Following(k, g[k - 1])]
  <2>2. \A k \in 0 .. m : h[k] = g[k]
    BY <1>0, <2>1
  <2>3. \A k \in 0 .. m + 1 : k # 0 => k - 1 \in 0 .. m
    BY <1>0
  <2>4. Solves(h, m + 1)
    BY <2>2, <2>3
  <2>5. \E f : Solves(f, m + 1)
    BY <2>4
  <2>6. m + 1 \in 0 .. top
    BY <1>0
  <2> QED
    BY <2>5, <2>6
<1>3. \E g : Solves(g, top)
  <2> HIDE DEF Good
  <2>1. \A m \in 0 .. top : m \in Good
    BY <1>0, <1>1, <1>2, Counting
  <2>2. top \in Good
    BY <1>0, <2>1
  <2> HIDE DEF Solves
  <2> QED
    BY <2>2 DEF Good
<1> QED
  BY <1>3 DEF NumbersOf, top, start, Following

(* A number that fits is the number of its digits.                         *)
LEMMA DigitsRoundTrip ==
  ASSUME NEW n \in Nat, NEW w \in Nat, Fits(n, w)
  PROVE  FromDigits(Digits(n, w)) = n
<1> DEFINE s == Digits(n, w)
           shift == Shifted(n, w)
<1>1. Len(s) = w /\ \A i \in 1 .. w : s[i] = shift[w - i] % ByteLimit
  BY DigitsTypes DEF Digits
<1>2. /\ \A i \in 0 .. w : shift[i] \in Nat
      /\ shift[0] = n /\ shift[w] = 0
      /\ \A i \in 1 .. w : shift[i] = shift[i - 1] \div ByteLimit
  BY ShiftedTypes DEF Fits
<1>3. ByteLimit \in Nat \ {0}
  BY ByteAssumption
<1> DEFINE number == NumbersOf(s)
<1> HIDE DEF s, shift
<1>4. number = [i \in 0 .. Len(s) |-> IF i = 0 THEN 0 ELSE number[i - 1] * ByteLimit + s[i]] /\ FromDigits(s) = number[Len(s)]
  BY <1>1, NumbersDefined DEF FromDigits
<1> HIDE DEF number
<1>5. \A i \in 0 .. w : number[i] = IF i = 0 THEN 0 ELSE number[i - 1] * ByteLimit + s[i]
  BY <1>1, <1>4
<1> DEFINE Good == {i \in 0 .. w : number[i] = shift[w - i]}
<1>6. 0 \in Good
  BY <1>2, <1>5
<1>7. ASSUME NEW i \in 0 .. w - 1, i \in Good
      PROVE  i + 1 \in Good
  <2> DEFINE j == w - (i + 1)
  <2>1. j \in 0 .. w /\ j + 1 \in 1 .. w /\ (j + 1) - 1 = j /\ w - i = j + 1
        /\ i + 1 \in 1 .. w /\ i + 1 \in 0 .. w /\ (i + 1) - 1 = i /\ i + 1 # 0
    OBVIOUS
  <2>2. number[i + 1] = number[i] * ByteLimit + s[i + 1]
    BY <1>5, <2>1
  <2>3. number[i] = shift[j + 1] /\ shift[j + 1] = shift[j] \div ByteLimit
    BY <1>2, <1>7, <2>1
  <2>4. s[i + 1] = shift[j] % ByteLimit
    BY <1>1, <2>1
  <2>5. shift[j] \in Nat
    BY <1>2, <2>1
  <2>6. number[i + 1] = shift[j]
    BY <1>3, <2>2, <2>3, <2>4, <2>5, Divided
  <2> QED
    BY <2>1, <2>6
<1>8. \A i \in 0 .. w : i \in Good
  <2> HIDE DEF Good
  <2> QED
    BY <1>6, <1>7, Counting
<1>9. number[w] = n
  BY <1>2, <1>8
<1> QED
  BY <1>1, <1>4, <1>9 DEF s

Byte == 0 .. ByteLimit - 1

(* Bytes in the other order, twice.                                        *)
LEMMA Ordered ==
  ASSUME NEW S, NEW s \in Seq(S), NEW big \in BOOLEAN
  PROVE  /\ InOrder(s, big) \in Seq(S) /\ Len(InOrder(s, big)) = Len(s)
         /\ InOrder(InOrder(s, big), big) = s
<1> DEFINE n == Len(s)
           r == Reverse(s)
<1>1. n \in Nat /\ \A i \in 1 .. n : s[i] \in S /\ (n - i) + 1 \in 1 .. n
  OBVIOUS
<1>2. r \in [1 .. n -> S]
  BY <1>1 DEF Reverse
<1>3. r \in Seq(S) /\ Len(r) = n /\ \A i \in 1 .. n : r[i] = s[(n - i) + 1]
  BY <1>1, <1>2, FunctionSeq DEF Reverse
<1>4. Reverse(r) = s
  <2> HIDE DEF r
  <2>1. Reverse(r) = [i \in 1 .. n |-> r[(n - i) + 1]]
    BY <1>3 DEF Reverse
  <2>2. \A i \in 1 .. n : (n - ((n - i) + 1)) + 1 = i
    BY <1>1
  <2>3. \A i \in 1 .. n : r[(n - i) + 1] = s[i]
    BY <1>1, <1>3, <2>2
  <2>4. s = [i \in 1 .. n |-> s[i]]
    OBVIOUS
  <2> HIDE DEF n
  <2> QED
    BY <2>1, <2>3, <2>4
<1> QED
  BY <1>3, <1>4 DEF InOrder

(* Where a byte of a number is among the bytes of all of them.             *)
LEMMA Places ==
  ASSUME NEW n \in Nat, NEW w \in Nat \ {0}
  PROVE  /\ w * n \in Nat /\ (w * n) \div w = n
         /\ \A k \in 1 .. w * n : ((k - 1) \div w) + 1 \in 1 .. n /\ ((k - 1) % w) + 1 \in 1 .. w
         /\ \A i \in 1 .. n : \A j \in 1 .. w :
               LET k == w * (i - 1) + j
               IN k \in 1 .. w * n /\ ((k - 1) \div w) + 1 = i /\ ((k - 1) % w) + 1 = j
<1>1. w * n \in Nat /\ (w * n) \div w = n
  <2>1. (w * n + 0) \div w = n
    BY DividedOnce
  <2> QED
    BY <2>1
<1>2. ASSUME NEW k \in 1 .. w * n
      PROVE  ((k - 1) \div w) + 1 \in 1 .. n /\ ((k - 1) % w) + 1 \in 1 .. w
  <2> DEFINE q == (k - 1) \div w
             r == (k - 1) % w
  <2>1. k - 1 \in Nat /\ k - 1 < w * n
    OBVIOUS
  <2>2. q \in Nat /\ r \in 0 .. w - 1 /\ q * w + r = k - 1
    BY <2>1, Divided
  <2> HIDE DEF q, r
  <2>3. ASSUME q >= n
        PROVE  FALSE
    <3>1. q * w >= n * w
      BY <2>2, <2>3
    <3> QED
      BY <2>1, <2>2, <3>1
  <2>4. q \in Nat /\ q < n /\ r \in Nat /\ r < w
    BY <2>2, <2>3
  <2>5. q + 1 \in 1 .. n /\ r + 1 \in 1 .. w
    BY <2>4
  <2> QED
    BY <2>5 DEF q, r
<1>3. ASSUME NEW i \in 1 .. n, NEW j \in 1 .. w
      PROVE  LET k == w * (i - 1) + j
             IN k \in 1 .. w * n /\ ((k - 1) \div w) + 1 = i /\ ((k - 1) % w) + 1 = j
  <2> DEFINE q == i - 1
             r == j - 1
  <2>1. q \in Nat /\ r \in Nat /\ r < w /\ q + 1 <= n /\ q + 1 = i /\ r + 1 = j
    OBVIOUS
  <2> HIDE DEF q, r
  <2>2. (w * q + r) \div w = q /\ (w * q + r) % w = r
    BY <2>1, DividedOnce
  <2>3. w * (q + 1) <= w * n
    BY <2>1
  <2>4. (w * q + j) - 1 = w * q + r /\ w * q + j \in 1 .. w * n
    BY <2>1, <2>3
  <2>5. /\ w * q + j \in 1 .. w * n
        /\ (((w * q + j) - 1) \div w) + 1 = i /\ (((w * q + j) - 1) % w) + 1 = j
    BY <2>1, <2>2, <2>4
  <2> QED
    BY <2>5 DEF q
<1> QED
  BY <1>1, <1>2, <1>3

(* The bytes of numbers, one after the other.                              *)
LEMMA UnitsTypes ==
  ASSUME NEW s \in Seq(Nat), NEW w \in Nat \ {0}, NEW big \in BOOLEAN
  PROVE  /\ Units(s, w, big) \in Seq(Byte) /\ Len(Units(s, w, big)) = w * Len(s)
         /\ \A i \in 1 .. Len(s) : \A j \in 1 .. w :
               Units(s, w, big)[w * (i - 1) + j] = InOrder(Digits(s[i], w), big)[j]
<1> DEFINE n == Len(s)
           digits(i) == InOrder(Digits(s[i], w), big)
           b == Units(s, w, big)
<1>1. n \in Nat /\ \A i \in 1 .. n : s[i] \in Nat
  OBVIOUS
<1>2. ASSUME NEW i \in 1 .. n
      PROVE  digits(i) \in Seq(Byte) /\ Len(digits(i)) = w
  <2>1. Digits(s[i], w) \in Seq(Byte) /\ Len(Digits(s[i], w)) = w
    BY <1>1, DigitsTypes DEF Byte
  <2> QED
    BY <2>1, Ordered
<1>3. b = [k \in 1 .. w * n |-> digits(((k - 1) \div w) + 1)[((k - 1) % w) + 1]]
  BY DEF Units
<1> HIDE DEF digits, n, b
<1>4. ASSUME NEW k \in 1 .. w * n
      PROVE  digits(((k - 1) \div w) + 1)[((k - 1) % w) + 1] \in Byte
  <2>1. ((k - 1) \div w) + 1 \in 1 .. n /\ ((k - 1) % w) + 1 \in 1 .. w
    BY <1>1, Places
  <2> DEFINE i == ((k - 1) \div w) + 1
             j == ((k - 1) % w) + 1
  <2>2. i \in 1 .. n /\ j \in 1 .. w
    BY <2>1
  <2> HIDE DEF i, j
  <2>3. digits(i)[j] \in Byte
    <3>1. digits(i) \in Seq(Byte) /\ j \in 1 .. Len(digits(i))
      BY <1>2, <2>2
    <3> HIDE DEF Byte
    <3> QED
      BY <3>1
  <2> QED
    BY <2>3 DEF i, j
<1>5. w * n \in Nat
  BY <1>1, Places
<1>6. b \in [1 .. w * n -> Byte]
  BY <1>3, <1>4
<1>7. b \in Seq(Byte) /\ Len(b) = w * n
  BY <1>5, <1>6, FunctionSeq
<1>8. ASSUME NEW i \in 1 .. n, NEW j \in 1 .. w
      PROVE  b[w * (i - 1) + j] = digits(i)[j]
  <2> DEFINE k == w * (i - 1) + j
  <2>1. k \in 1 .. w * n /\ ((k - 1) \div w) + 1 = i /\ ((k - 1) % w) + 1 = j
    BY <1>1, Places
  <2> HIDE DEF k
  <2>2. b[k] = digits(((k - 1) \div w) + 1)[((k - 1) % w) + 1]
    BY <1>3, <2>1
  <2>3. b[k] = digits(i)[j]
    BY <2>1, <2>2
  <2> QED
    BY <2>3 DEF k
<1> QED
  BY <1>7, <1>8 DEF b, n, digits

(* Numbers that fit are those of their bytes, in either order.             *)
LEMMA UnitsRoundTrip ==
  ASSUME NEW s \in Seq(Nat), NEW w \in Nat \ {0}, NEW big \in BOOLEAN, \A i \in 1 .. Len(s) : Fits(s[i], w)
  PROVE  FromUnits(Units(s, w, big), w, big) = s
<1> DEFINE n == Len(s)
           b == Units(s, w, big)
           part(i) == [j \in 1 .. w |-> b[w * (i - 1) + j]]
<1>1. n \in Nat /\ (\A i \in 1 .. n : s[i] \in Nat /\ Fits(s[i], w)) /\ s = [i \in 1 .. n |-> s[i]]
  OBVIOUS
<1>2. Len(b) \div w = n
  <2>1. Len(b) = w * n
    BY UnitsTypes
  <2>2. (w * n) \div w = n
    BY <1>1, Places
  <2> HIDE DEF b, n
  <2> QED
    BY <2>1, <2>2
<1>3. FromUnits(b, w, big) = [i \in 1 .. n |-> FromDigits(InOrder(part(i), big))]
  <2> HIDE DEF b, n
  <2> QED
    BY <1>2 DEF FromUnits
<1>4. ASSUME NEW i \in 1 .. n
      PROVE  FromDigits(InOrder(part(i), big)) = s[i]
  <2> DEFINE d == Digits(s[i], w)
  <2>1. d \in Seq(Byte) /\ Len(d) = w
    BY <1>1, DigitsTypes DEF Byte
  <2>2. InOrder(d, big) \in Seq(Byte) /\ Len(InOrder(d, big)) = w /\ InOrder(InOrder(d, big), big) = d
    BY <2>1, Ordered
  <2>3. \A j \in 1 .. w : b[w * (i - 1) + j] = InOrder(d, big)[j]
    BY UnitsTypes
  <2>4. FromDigits(d) = s[i]
    BY <1>1, DigitsRoundTrip
  <2> HIDE DEF d, b
  <2>5. part(i) = InOrder(d, big)
    <3> DEFINE e == InOrder(d, big)
    <3>1. e = [j \in 1 .. w |-> e[j]]
      <4> HIDE DEF Byte, e
      <4>1. e \in Seq(Byte) /\ Len(e) = w
        BY <2>2 DEF e
      <4> QED
        BY <4>1
    <3>2. \A j \in 1 .. w : b[w * (i - 1) + j] = e[j]
      BY <2>3
    <3> HIDE DEF e
    <3> QED
      BY <3>1, <3>2 DEF e
  <2> HIDE DEF part
  <2> QED
    BY <2>2, <2>4, <2>5
<1> HIDE DEF part, b, n
<1> QED
  BY <1>1, <1>3, <1>4 DEF b

-----------------------------------------------------------------------------
(* Values and their bytes.                                                 *)

(* What can be a value of a type: one number that fits, or bytes.          *)
Valued(d, v) ==
  IF TypeOf[d].family \in Numeric THEN \E n \in Nat : v = <<n>> /\ Fits(n, Width[TypeOf[d].family])
  ELSE v \in Seq(Byte)

(* A byte fits two bytes.                                                  *)
LEMMA ByteFits ==
  ASSUME NEW x \in Byte
  PROVE  x \in Nat /\ Fits(x, 2)
<1>1. x \in Nat /\ x < ByteLimit /\ ByteLimit \in Nat \ {0}
  BY ByteAssumption DEF Byte
<1>2. /\ Shifted(x, 2)[0] = x /\ Shifted(x, 2)[1] = Shifted(x, 2)[0] \div ByteLimit
      /\ Shifted(x, 2)[2] = Shifted(x, 2)[1] \div ByteLimit
  <2>1. /\ Shifted(x, 2)[0] = x
        /\ \A i \in 1 .. 2 : Shifted(x, 2)[i] = Shifted(x, 2)[i - 1] \div ByteLimit
    BY <1>1, ShiftedTypes
  <2>2. 1 \in 1 .. 2 /\ 2 \in 1 .. 2 /\ 1 - 1 = 0 /\ 2 - 1 = 1
    OBVIOUS
  <2> QED
    BY <2>1, <2>2
<1>3. x \div ByteLimit = 0
  BY <1>1, SmallRest
<1>4. 0 \div ByteLimit = 0
  BY <1>1, SmallRest
<1>5. Shifted(x, 2)[2] = 0
  BY <1>2, <1>3, <1>4
<1> QED
  BY <1>1, <1>5 DEF Fits

(* A value of numbers of w bytes that fit.                                 *)
LEMMA ValuedUnits ==
  ASSUME NEW d \in DOMAIN TypeOf, NEW v, Valued(d, v)
  PROVE  /\ TypeOf[d].family \in Numeric =>
               /\ Width[TypeOf[d].family] \in Nat \ {0} /\ v \in Seq(Nat)
               /\ \A i \in 1 .. Len(v) : Fits(v[i], Width[TypeOf[d].family])
         /\ TypeOf[d].family \notin Numeric =>
               /\ v \in Seq(Byte) /\ v \in Seq(Nat)
               /\ \A i \in 1 .. Len(v) : Fits(v[i], 2)
<1>1. CASE TypeOf[d].family \in Numeric
  <2>1. PICK n \in Nat : v = <<n>> /\ Fits(n, Width[TypeOf[d].family])
    BY <1>1 DEF Valued
  <2>2. Width[TypeOf[d].family] \in Nat \ {0}
    BY <1>1, TypeAssumption DEF Numeric
  <2> QED
    BY <1>1, <2>1, <2>2
<1>2. CASE TypeOf[d].family \notin Numeric
  <2>1. v \in Seq(Byte)
    BY <1>2 DEF Valued
  <2>2. Len(v) \in Nat /\ v \in [1 .. Len(v) -> Byte]
    BY <2>1
  <2>3. \A i \in 1 .. Len(v) : v[i] \in Nat /\ Fits(v[i], 2)
    BY <2>2, ByteFits
  <2>4. v \in [1 .. Len(v) -> Nat]
    BY <2>2, <2>3
  <2>5. v \in Seq(Nat)
    BY <2>2, <2>4, FunctionSeq
  <2> QED
    BY <1>2, <2>1, <2>3, <2>5
<1> QED
  BY <1>1, <1>2

(* The encoding of a value is bytes.                                       *)
LEMMA EncodeTypes ==
  ASSUME NEW d \in DOMAIN TypeOf, NEW v, Valued(d, v)
  PROVE  Encode(d, v) \in Seq(Byte)
<1> DEFINE f == TypeOf[d].family
<1>1. WriteBig(d) \in BOOLEAN
  BY DEF WriteBig
<1>a. f \in Numeric => f # "utf16" /\ f # "cstring"
  BY TypeAssumption DEF Numeric
<1> HIDE DEF f
<1>2. CASE f \in Numeric
  <2>1. Encode(d, v) = Units(v, Width[f], WriteBig(d))
    BY <1>2, <1>a DEF Encode, f
  <2> QED
    BY <1>1, <1>2, <2>1, ValuedUnits, UnitsTypes DEF f
<1>3. CASE f \notin Numeric /\ f = "utf16"
  <2>1. Encode(d, v) = Units(v, 2, WriteBig(d))
    BY <1>3 DEF Encode, f
  <2> QED
    BY <1>1, <1>3, <2>1, ValuedUnits, UnitsTypes DEF f
<1>4. CASE f \notin Numeric /\ f = "cstring"
  <2>1. Encode(d, v) = Append(v, 0)
    BY <1>4 DEF Encode, f
  <2>2. v \in Seq(Byte)
    BY <1>4, ValuedUnits DEF f
  <2>3. 0 \in Byte
    BY ByteAssumption DEF Byte
  <2> QED
    BY <2>1, <2>2, <2>3
<1>5. CASE f \notin Numeric /\ f # "utf16" /\ f # "cstring"
  <2>1. Encode(d, v) = v
    BY <1>5 DEF Encode, f
  <2> QED
    BY <1>5, <2>1, ValuedUnits DEF f
<1> QED
  BY <1>2, <1>3, <1>4, <1>5

(* readm makes of the bytes that writem makes of a value that value again, *)
(* for every type but those whose byte order readm has wrong.              *)
LEMMA DecodeEncoded ==
  ASSUME NEW d \in DOMAIN TypeOf, NEW v, Valued(d, v), d \notin Misread, TypeOf[d].family # "cstring"
  PROVE  Decode(d, Encode(d, v)) = v
<1> DEFINE f == TypeOf[d].family
<1>1. WriteBig(d) \in BOOLEAN
  BY DEF WriteBig
<1>2. ReadBig(d) = WriteBig(d)
  <2>1. CASE f \in Numeric
    <3>1. WriteBig(d) => d = "uint16be"
      BY <2>1 DEF Misread
    <3>2. d = "uint16be" => WriteBig(d)
      BY TypeAssumption DEF WriteBig
    <3>3. ReadBig(d) = (d = "uint16be")
      BY <2>1 DEF ReadBig
    <3> QED
      BY <1>1, <3>1, <3>2, <3>3
  <2>2. CASE f \notin Numeric
    BY <2>2 DEF ReadBig, WriteBig
  <2> QED
    BY <2>1, <2>2
<1>a. f \in Numeric => f # "utf16" /\ f # "cstring"
  BY TypeAssumption DEF Numeric
<1> HIDE DEF f
<1>3. CASE f \in Numeric
  <2>1. Encode(d, v) = Units(v, Width[f], WriteBig(d))
    BY <1>3, <1>a DEF Encode, f
  <2>2. Decode(d, Encode(d, v)) = FromUnits(Encode(d, v), Width[f], WriteBig(d))
    BY <1>2, <1>3, <1>a DEF Decode, f
  <2> QED
    <3>1. /\ Width[f] \in Nat \ {0} /\ v \in Seq(Nat)
          /\ \A i \in 1 .. Len(v) : Fits(v[i], Width[f])
      BY <1>3, ValuedUnits DEF f
    <3>2. FromUnits(Units(v, Width[f], WriteBig(d)), Width[f], WriteBig(d)) = v
      BY <1>1, <3>1, UnitsRoundTrip
    <3> QED
      BY <2>1, <2>2, <3>2
<1>4. CASE f \notin Numeric /\ f = "utf16"
  <2>1. Encode(d, v) = Units(v, 2, WriteBig(d))
    BY <1>4 DEF Encode, f
  <2>2. Decode(d, Encode(d, v)) = FromUnits(Encode(d, v), 2, WriteBig(d))
    BY <1>2, <1>4 DEF Decode, f
  <2> QED
    BY <1>1, <1>4, <2>1, <2>2, ValuedUnits, UnitsRoundTrip DEF f
<1>5. CASE f \notin Numeric /\ f # "utf16"
  BY <1>5 DEF Encode, Decode, f
<1> QED
  BY <1>3, <1>4, <1>5

(* One word with spaces between.                                           *)
LEMMA SpacedOne ==
  ASSUME NEW v
  PROVE  Spaced(<<v>>) = v
<1> DEFINE words == <<v>>
           Solves(g) == g = [k \in 1 .. Len(words) |-> IF k = 1 THEN words[1] ELSE g[k - 1] \o <<Space>> \o words[k]]
           text == CHOOSE g : Solves(g)
<1>1. Len(words) = 1 /\ words[1] = v
  OBVIOUS
<1>2. \E g : Solves(g)
  <2>1. 1 .. Len(words) = {1}
    BY <1>1
  <2>2. Solves([k \in {1} |-> words[1]])
    BY <2>1
  <2> HIDE DEF Solves
  <2> QED
    BY <2>2
<1>3. Solves(text)
  BY <1>2
<1>4. Spaced(<<v>>) = text[Len(words)]
  BY DEF Spaced
<1> HIDE DEF words, text
<1>5. text[1] = v
  BY <1>1, <1>3
<1> QED
  BY <1>1, <1>4, <1>5

(* The pattern of a value is the bytes written for it.                     *)
LEMMA PatternEncoded ==
  ASSUME NEW d \in DOMAIN TypeOf, NEW v, Valued(d, v)
  PROVE  Encode(d, v) = Pattern(d, <<v>>)
<1> DEFINE f == TypeOf[d].family
<1>1. Spaced(<<v>>) = v /\ SearchBig(d) = WriteBig(d)
  BY SpacedOne DEF SearchBig, WriteBig
<1>2. f \in Numeric => [i \in DOMAIN <<v>> |-> <<v>>[i][1]] = v
  <2> SUFFICES ASSUME f \in Numeric
               PROVE  [i \in DOMAIN <<v>> |-> <<v>>[i][1]] = v
    OBVIOUS
  <2>1. PICK n \in Nat : v = <<n>>
    BY DEF Valued
  <2> QED
    BY <2>1
<1> HIDE DEF f
<1>3. CASE f \in Numeric
  BY <1>1, <1>2, <1>3 DEF Encode, Pattern, f
<1>4. CASE f \notin Numeric
  BY <1>1, <1>4 DEF Encode, Pattern, f
<1> QED
  BY <1>3, <1>4

(* What is written depends on the type's family and order.                 *)
LEMMA EncodeByType ==
  ASSUME NEW d, NEW e, TypeOf[d] = TypeOf[e], NEW v
  PROVE  Encode(d, v) = Encode(e, v) /\ (Valued(d, v) <=> Valued(e, v))
BY DEF Encode, Valued, WriteBig

-----------------------------------------------------------------------------
(* Where a command looks.                                                  *)

(* The pointers that are followed are those of the definition.              *)
LEMMA FollowedDefined ==
  ASSUME NEW base, NEW offsets, NEW read, Len(offsets) \in Nat \ {0}
  PROVE  Followed(base, offsets, read) = [k \in 0 .. Len(offsets) - 1 |-> IF k = 0 THEN base ELSE IF Followed(base, offsets, read)[k - 1] = Failed THEN Failed ELSE read[Offset(Followed(base, offsets, read)[k - 1], offsets[k])]]
<1> DEFINE top == Len(offsets) - 1
           start == base
           Following(k, prev) == IF prev = Failed THEN Failed ELSE read[Offset(prev, offsets[k])]
           Solves(g, m) == g = [k \in 0 .. m |-> IF k = 0 THEN start ELSE Following(k, g[k - 1])]
           Good == {m \in 0 .. top : \E g : Solves(g, m)}
<1>0. top \in Nat
  OBVIOUS
<1> HIDE DEF top, start, Following
<1>1. 0 \in Good
  <2>1. Solves([k \in 0 .. 0 |-> start], 0)
    OBVIOUS
  <2>2. \E g : Solves(g, 0)
    BY <2>1
  <2> QED
    BY <1>0, <2>2
<1>2. ASSUME NEW m \in 0 .. top - 1, m \in Good
      PROVE  m + 1 \in Good
  <2>1. PICK g : Solves(g, m)
    BY <1>2
  <2> DEFINE h == [k \in 0 .. m + 1 |-> IF k = 0 THEN start ELSE Following(k, g[k - 1])]
  <2>2. \A k \in 0 .. m : h[k] = g[k]
    BY <1>0, <2>1
  <2>3. \A k \in 0 .. m + 1 : k # 0 => k - 1 \in 0 .. m
    BY <1>0
  <2>4. Solves(h, m + 1)
    BY <2>2, <2>3
  <2>5. \E f : Solves(f, m + 1)
    BY <2>4
  <2>6. m + 1 \in 0 .. top
    BY <1>0
  <2> QED
    BY <2>5, <2>6
<1>3. \E g : Solves(g, top)
  <2> HIDE DEF Good
  <2>1. \A m \in 0 .. top : m \in Good
    BY <1>0, <1>1, <1>2, Counting
  <2>2. top \in Good
    BY <1>0, <2>1
  <2> HIDE DEF Solves
  <2> QED
    BY <2>2 DEF Good
<1> QED
  BY <1>3 DEF Followed, top, start, Following

(* An offset of a number is an address.                                    *)
LEMMA OffsetTypes ==
  ASSUME NEW a \in Nat, NEW n \in Nat
  PROVE  Offset(a, n) \in Addrs
<1>1. a + n \in Nat /\ AddrLimit \in Nat \ {0}
  BY AddrAssumption
<1>2. (a + n) % AddrLimit \in 0 .. AddrLimit - 1
  BY <1>1, Divided
<1> QED
  BY <1>2 DEF Offset, Addrs

(* A chain that is followed leads to an address, or it fails.              *)
LEMMA ChainTypes ==
  ASSUME NEW base \in Nat, NEW offsets \in Seq(Addrs), Len(offsets) > 0,
         NEW read, \A a \in Addrs : read[a] \in Nat \cup {Failed}
  PROVE  ResolvePointerChain(base, offsets, read) \in Addrs \cup {Failed}
<1> DEFINE n == Len(offsets)
           follow == Followed(base, offsets, read)
           Good == {k \in 0 .. n - 1 : follow[k] \in Nat \cup {Failed}}
<1>1. n \in Nat \ {0} /\ \A i \in 1 .. n : offsets[i] \in Nat
  <2>1. Addrs \subseteq Nat
    BY AddrAssumption DEF Addrs
  <2>2. n \in Nat \ {0}
    OBVIOUS
  <2>3. \A i \in 1 .. n : offsets[i] \in Addrs
    OBVIOUS
  <2> QED
    BY <2>1, <2>2, <2>3
<1>2. \A k \in 0 .. n - 1 : follow[k] = IF k = 0 THEN base ELSE IF follow[k - 1] = Failed THEN Failed ELSE read[Offset(follow[k - 1], offsets[k])]
  <2>1. follow = [k \in 0 .. n - 1 |-> IF k = 0 THEN base ELSE IF follow[k - 1] = Failed THEN Failed ELSE read[Offset(follow[k - 1], offsets[k])]]
    BY <1>1, FollowedDefined
  <2> HIDE DEF follow
  <2> QED
    BY <2>1
<1>3. ResolvePointerChain(base, offsets, read) = IF follow[n - 1] = Failed THEN Failed ELSE Offset(follow[n - 1], offsets[n])
  BY DEF ResolvePointerChain
<1> HIDE DEF follow, n
<1>4. 0 \in Good
  BY <1>1, <1>2
<1>5. ASSUME NEW k \in 0 .. (n - 1) - 1, k \in Good
      PROVE  k + 1 \in Good
  <2>1. k + 1 \in 0 .. n - 1 /\ k + 1 \in 1 .. n /\ k + 1 # 0 /\ (k + 1) - 1 = k
    BY <1>1
  <2>2. follow[k + 1] = IF follow[k] = Failed THEN Failed ELSE read[Offset(follow[k], offsets[k + 1])]
    BY <1>2, <2>1
  <2>3. CASE follow[k] = Failed
    BY <2>1, <2>2, <2>3
  <2>4. CASE follow[k] # Failed
    <3>1. Offset(follow[k], offsets[k + 1]) \in Addrs
      BY <1>1, <1>5, <2>1, <2>4, OffsetTypes
    <3> QED
      BY <2>1, <2>2, <2>4, <3>1
  <2> QED
    BY <2>3, <2>4
<1>6. \A k \in 0 .. n - 1 : k \in Good
  <2> HIDE DEF Good
  <2>1. n - 1 \in Nat
    BY <1>1
  <2> QED
    BY <1>4, <1>5, <2>1, Counting
<1>7. follow[n - 1] \in Nat \cup {Failed} /\ offsets[n] \in Nat
  BY <1>1, <1>6
<1>8. CASE follow[n - 1] = Failed
  BY <1>3, <1>8
<1>9. CASE follow[n - 1] # Failed
  BY <1>3, <1>7, <1>9, OffsetTypes
<1> QED
  BY <1>8, <1>9

(* The table of the process: regions end at addresses, objects begin at    *)
(* numbers.                                                                *)
LEMMA TableTypes ==
  /\ Len(Table.regions) \in Nat
  /\ InOrderOfAddress(Table.regions)
  /\ DOMAIN Table.objects \in SUBSET Nat
  /\ \A k \in DOMAIN Table.objects : Table.objects[k].base \in Nat
<1> DEFINE t == Vmmap(Maps)
<1>0. PICK B, I, N : Tabled(Maps, t, B, I, N)
  BY ProcessAssumption, MapTable
<1>1. /\ t.regions \in Seq(Region(B, I, N)) /\ t.objects \in Seq(Object(I, N))
      /\ Len(t.regions) = Len(Maps)
      /\ HasObject(t) /\ OnePerFile(t) /\ Spans(t)
      /\ InOrderOfAddress(t.regions)
  BY <1>0 DEF Tabled
<1> HIDE DEF t
<1>3. \A k \in DOMAIN t.objects : t.objects[k] \in Object(I, N)
  BY <1>1
<1>4. \A k \in DOMAIN t.objects : t.objects[k].base \in Nat
  BY <1>3 DEF Object
<1>5. Len(t.regions) \in Nat /\ DOMAIN t.objects \in SUBSET Nat
  BY <1>1, ProcessAssumption
<1> QED
  BY <1>1, <1>4, <1>5 DEF t, Table

(* A mapped address is below the limit by more than one: a region ends     *)
(* at an address.                                                          *)
LEMMA MappedBelow ==
  ASSUME NEW a \in Nat, Mapped(a)
  PROVE  a + 1 < AddrLimit
<1> DEFINE i == HasAddr(Table, a)
<1>1. i # 0
  BY DEF Mapped
<1>2. i \in 0 .. Len(Table.regions) /\ a < Table.regions[i].end
  BY <1>1, TableTypes, AddrFound
<1> HIDE DEF i
<1>3. Table.regions[i].end \in Addrs
  BY <1>1, <1>2, TableTypes DEF InOrderOfAddress
<1> QED
  BY <1>2, <1>3, AddrAssumption DEF Addrs

(* An access ends below the limit, and has its bytes in memory.            *)
LEMMA AccessTypes ==
  ASSUME NEW a \in Addrs, NEW n \in Nat, Accessible(a, n)
  PROVE  /\ a + n < AddrLimit /\ Behind(a, n) = a + n /\ a + n \in Addrs
         /\ \A i \in 0 .. n - 1 : a + i \in DOMAIN InitialMem
<1>1. a \in Nat /\ a < AddrLimit /\ AddrLimit \in Nat \ {0}
  BY AddrAssumption DEF Addrs
<1>2. ASSUME NEW i \in 0 .. n - 1
      PROVE  (a + i) + 1 < AddrLimit /\ a + i \in DOMAIN InitialMem
  <2>1. Mapped(a + i)
    BY DEF Accessible
  <2>2. a + i \in Nat
    BY <1>1
  <2>3. (a + i) + 1 < AddrLimit
    BY <2>1, <2>2, MappedBelow
  <2>4. a + i \in Addrs
    BY <1>1, <2>2, <2>3 DEF Addrs
  <2> QED
    BY <2>1, <2>3, <2>4, MemoryAssumption
<1>3. a + n < AddrLimit
  <2>1. CASE n = 0
    BY <1>1, <2>1
  <2>2. CASE n # 0
    <3>1. n - 1 \in 0 .. n - 1 /\ (a + (n - 1)) + 1 = a + n
      BY <1>1, <2>2
    <3>2. (a + (n - 1)) + 1 < AddrLimit
      BY <1>2, <3>1
    <3> QED
      BY <3>1, <3>2
  <2> QED
    BY <2>1, <2>2
<1> DEFINE m == a + n
<1>4. m \in Nat /\ m < AddrLimit
  BY <1>1, <1>3
<1> HIDE DEF m
<1>5. m % AddrLimit = m /\ m \in Addrs
  BY <1>1, <1>4, SmallRest DEF Addrs
<1> QED
  BY <1>2, <1>3, <1>5 DEF Behind, m

(* The lookup of an address finds an address, or it fails.                 *)
LEMMA ResolveTypes ==
  ASSUME mem \in [DOMAIN InitialMem -> Byte], NEW text
  PROVE  Resolve(text) \in Addrs \cup {Failed}
<1> DEFINE ptr == PointerOf[text]
           k == FirstObjectMatching(Table, ptr.mod)
<1>1. \A a \in Addrs : ReadPtr[a] \in Nat \cup {Failed}
  BY MemoryAssumption, ByteAssumption DEF ReadPtr, Byte
<1>2. CASE text \in DOMAIN PointerOf
  <2>1. ptr.addrs \in Seq(Addrs) /\ Len(ptr.addrs) > 0
    BY <1>2, TextAssumption
  <2>2. Resolve(text) = ResolvePointer(Table, ExeBase, ptr, ReadPtr)
    BY <1>2 DEF Resolve
  <2>3. ExeBase \in Nat
    BY ProcessAssumption
  <2>4. k # 0 => Table.objects[k].base \in Nat
    <3> DEFINE m == {l \in DOMAIN Table.objects : Table.objects[l].name = ptr.mod}
    <3>1. CASE m = {}
      BY <3>1 DEF FirstObjectMatching
    <3>2. CASE m # {}
      <4>1. m \in SUBSET Nat
        BY TableTypes
      <4>2. \E x \in m : \A l \in m : x <= l
        BY <3>2, <4>1, LeastNatural
      <4>3. k = CHOOSE x \in m : \A l \in m : x <= l
        BY <3>2 DEF FirstObjectMatching
      <4>4. k \in m
        BY <4>2, <4>3
      <4> QED
        BY <4>4, TableTypes
    <3> QED
      BY <3>1, <3>2
  <2> HIDE DEF k, ptr
  <2>5. CASE ~IsChain(ptr)
    <3>1. ptr.addrs[1] \in Addrs
      BY <2>1
    <3> QED
      BY <2>2, <2>5, <3>1 DEF ResolvePointer
  <2>6. CASE IsChain(ptr) /\ ptr.mod = NoObject
    <3>1. Resolve(text) = ResolvePointerChain(ExeBase, ptr.addrs, ReadPtr)
      BY <2>2, <2>6 DEF ResolvePointer
    <3> QED
      BY <1>1, <2>1, <2>3, <3>1, ChainTypes
  <2>7. CASE IsChain(ptr) /\ ptr.mod # NoObject /\ k = 0
    BY <2>2, <2>7 DEF ResolvePointer, k
  <2>8. CASE IsChain(ptr) /\ ptr.mod # NoObject /\ k # 0
    <3>1. Resolve(text) = ResolvePointerChain(Table.objects[k].base, ptr.addrs, ReadPtr)
      BY <2>2, <2>8 DEF ResolvePointer, k
    <3> QED
      BY <1>1, <2>1, <2>4, <2>8, <3>1, ChainTypes
  <2> QED
    BY <2>5, <2>6, <2>7, <2>8
<1>3. CASE text \notin DOMAIN PointerOf
  BY <1>3 DEF Resolve
<1> QED
  BY <1>2, <1>3

-----------------------------------------------------------------------------
(* The state of the commands.                                              *)

(* A command that runs, once its line is parsed.                           *)
Sound(j) ==
  \/ j = NoJob
  \/ j.what = "read" /\ j.type \in DOMAIN TypeOf /\ j.size \in Nat /\ j.times \in Nat
  \/ j.what = "write" /\ j.type \in DOMAIN TypeOf /\ Valued(j.type, j.value) /\ j.times \in Nat

(* Who wrote a byte: nobody, or it is that byte of an encoded value.       *)
Origins == {NoOrigin} \cup [type : DOMAIN TypeOf, value : {<<n>> : n \in Nat} \cup Seq(Byte), at : Nat, of : Nat]
Written(o, b) ==
  /\ o.type \in DOMAIN TypeOf /\ Valued(o.type, o.value)
  /\ o.of = Len(Encode(o.type, o.value)) /\ o.at \in 1 .. o.of /\ b = Encode(o.type, o.value)[o.at]
Known == {c \in [byte : Byte, origin : Origins] : c.origin = NoOrigin \/ Written(c.origin, c.byte)}
Instance(d, a, n, c) ==
  [type |-> d, at |-> a, length |-> n, value |-> Decode(d, [i \in DOMAIN c |-> c[i].byte]),
   origins |-> [i \in DOMAIN c |-> c[i].origin]]
Instances == {Instance(d, a, n, c) : d \in DOMAIN TypeOf, a \in Int, n \in Nat, c \in Seq(Known)}

Located == DOMAIN InitialMem
Traced ==
  /\ mem \in [Located -> Byte] /\ origin \in [Located -> Origins]
  /\ \A a \in Located : origin[a] = NoOrigin \/ Written(origin[a], mem[a])
Running ==
  /\ job \in [Users -> Jobs \cup {NoJob}]
  /\ next \in [Users -> Addrs] /\ left \in [Users -> Nat]
  /\ got \in [Users -> Seq(Known)] /\ shown \in [Users -> Seq(Instances)] /\ wrote \in [Users -> Seq(Addrs \X Nat)]
TypesInv == Traced /\ Running

(* What users type is sound.                                               *)
LEMMA JobsSound ==
  ASSUME NEW j \in Jobs \cup {NoJob}
  PROVE  Sound(j)
<1>1. CASE j = NoJob
  BY <1>1 DEF Sound
<1>2. CASE j # NoJob
  <2>1. PICK line \in Lines : j = JobOf(Run(Commands[line.command], line.args))
    BY <1>2 DEF Jobs
  <2> DEFINE p == Run(Commands[line.command], line.args)
             d == Arg(p, "datatype")
             text == Arg(p, "value")
  <2>2. j.times \in Nat /\ (j.what = "read" => j.size \in Nat)
    BY <1>2, CountAssumption
  <2>3. j = JobOf(p)
    BY <2>1
  <2> HIDE DEF p
  <2>4. j = ReadJob(p) \/ j = WriteJob(p)
    BY <1>2, <2>3 DEF JobOf
  <2>5. CASE j = ReadJob(p)
    <3>1. d \in DOMAIN TypeOf /\ j.what = "read" /\ j.type = d
      BY <1>2, <2>5 DEF ReadJob
    <3> QED
      BY <2>2, <3>1 DEF Sound
  <2>6. CASE j = WriteJob(p)
    <3>1. d \in DOMAIN TypeOf /\ Parses(d, Arg(p, "input-format"), text)
      BY <1>2, <2>6 DEF WriteJob
    <3>2. j.what = "write" /\ j.type = d /\ j.value = Value(d, text)
      BY <1>2, <2>6, <3>1 DEF WriteJob
    <3> HIDE DEF d, text
    <3>3. Valued(d, Value(d, text))
      <4>1. CASE TypeOf[d].family \in Numeric
        <5>1. text \in Numbers /\ Fits(NumberOf[text], Width[TypeOf[d].family])
          BY <3>1, <4>1 DEF Parses
        <5>2. NumberOf[text] \in Nat
          BY <5>1, TextAssumption
        <5>3. Value(d, text) = <<NumberOf[text]>>
          BY <4>1 DEF Value
        <5> QED
          BY <4>1, <5>1, <5>2, <5>3 DEF Valued
      <4>2. CASE TypeOf[d].family \notin Numeric
        <5>1. text \in DOMAIN BytesOf
          BY <3>1, <4>2 DEF Parses
        <5>2. BytesOf[text] \in Seq(Byte)
          BY <5>1, TextAssumption DEF Byte
        <5>3. Value(d, text) = BytesOf[text]
          BY <4>2 DEF Value
        <5> QED
          BY <4>2, <5>2, <5>3 DEF Valued
      <4> QED
        BY <4>1, <4>2
    <3> QED
      BY <2>2, <3>1, <3>2, <3>3 DEF Sound
  <2> QED
    BY <2>4, <2>5, <2>6
<1> QED
  BY <1>1, <1>2

(* A job that reads or writes.                                             *)
LEMMA SoundWhat ==
  ASSUME NEW j, Sound(j)
  PROVE  /\ j.what = "read" => j.type \in DOMAIN TypeOf /\ j.size \in Nat /\ ReadSize(j.type, j.size) \in Nat
         /\ j.what = "write" => j.type \in DOMAIN TypeOf /\ Valued(j.type, j.value)
<1>1. NoJob.what = "idle"
  BY DEF NoJob
<1>2. j.what = "write" => j.type \in DOMAIN TypeOf /\ Valued(j.type, j.value)
  BY <1>1 DEF Sound
<1>3. j.what = "read" => j.type \in DOMAIN TypeOf /\ j.size \in Nat
  BY <1>1 DEF Sound
<1>4. ASSUME NEW d \in DOMAIN TypeOf, NEW n \in Nat
      PROVE  ReadSize(d, n) \in Nat
  <2> DEFINE f == TypeOf[d].family
  <2>1. f \in Numeric => Width[f] \in Nat /\ f # "utf16" /\ f # "cstring"
    BY TypeAssumption DEF Numeric
  <2>2. ReadSize(d, n) = CASE f \in Numeric -> Width[f] [] f = "utf16" -> 2 * n [] f = "cstring" -> 1 [] OTHER -> n
    BY DEF ReadSize
  <2> HIDE DEF f
  <2> QED
    BY <2>1, <2>2
<1> QED
  BY <1>2, <1>3, <1>4

(* The cells of an access are known.                                       *)
LEMMA CellsKnown ==
  ASSUME Traced, NEW a \in Addrs, NEW n \in Nat, Accessible(a, n)
  PROVE  Cells(a, n) \in Seq(Known) /\ Len(Cells(a, n)) = n
<1>1. ASSUME NEW i \in 1 .. n
      PROVE  [byte |-> mem[a + i - 1], origin |-> origin[a + i - 1]] \in Known
  <2>1. i - 1 \in 0 .. n - 1 /\ a + (i - 1) = a + i - 1
    BY AddrAssumption DEF Addrs
  <2>2. a + i - 1 \in Located
    BY <2>1, AccessTypes DEF Located
  <2> DEFINE x == a + i - 1
  <2> HIDE DEF x
  <2>3. mem[x] \in Byte /\ origin[x] \in Origins /\ (origin[x] = NoOrigin \/ Written(origin[x], mem[x]))
    BY <2>2 DEF Traced, x
  <2>4. [byte |-> mem[x], origin |-> origin[x]] \in Known
    BY <2>3 DEF Known
  <2> QED
    BY <2>4 DEF x
<1>2. Cells(a, n) \in [1 .. n -> Known]
  BY <1>1 DEF Cells
<1> QED
  BY <1>2, FunctionSeq

(* What a read shows, if its format is one that it has.                    *)
LEMMA ShowsTypes ==
  ASSUME Running, NEW u \in Users, left[u] > 0, job[u].type \in DOMAIN TypeOf,
         NEW cells \in Seq(Known), NEW at \in Int, NEW length \in Nat, Shows(u, cells, at, length)
  PROVE  /\ shown' \in [Users -> Seq(Instances)] /\ left' \in [Users -> Nat] /\ got' \in [Users -> Seq(Known)]
         /\ got'[u] = <<>>
         /\ \/ shown'[u] = <<>> /\ left'[u] = 0
            \/ shown'[u] = Append(shown[u], Instance(job[u].type, at, length, cells))
         /\ \A v \in Users \ {u} : shown'[v] = shown[v] /\ left'[v] = left[v] /\ got'[v] = got[v]
<1> DEFINE e == Instance(job[u].type, at, length, cells)
<1>1. e \in Instances
  BY DEF Instances
<1>2. shown' = [shown EXCEPT ![u] = IF ~Prints(job[u]) THEN <<>> ELSE Append(@, e)]
  BY DEF Shows, Instance
<1>3. left' = [left EXCEPT ![u] = IF Prints(job[u]) THEN @ - 1 ELSE 0] /\ got' = [got EXCEPT ![u] = <<>>]
  BY DEF Shows
<1>4. /\ shown \in [Users -> Seq(Instances)] /\ left \in [Users -> Nat] /\ got \in [Users -> Seq(Known)]
  BY DEF Running
<1> HIDE DEF e
<1>5. shown[u] \in Seq(Instances) /\ Append(shown[u], e) \in Seq(Instances) /\ <<>> \in Seq(Instances) /\ <<>> \in Seq(Known)
  BY <1>1, <1>4
<1>6. left[u] - 1 \in Nat
  BY <1>4
<1>7. CASE Prints(job[u])
  <2>1. shown' = [shown EXCEPT ![u] = Append(shown[u], e)] /\ left' = [left EXCEPT ![u] = left[u] - 1]
    BY <1>2, <1>3, <1>7
  <2> QED
    BY <1>3, <1>4, <1>5, <1>6, <2>1 DEF e
<1>8. CASE ~Prints(job[u])
  <2>1. shown' = [shown EXCEPT ![u] = <<>>] /\ left' = [left EXCEPT ![u] = 0]
    BY <1>2, <1>3, <1>8
  <2> QED
    BY <1>3, <1>4, <1>5, <2>1
<1> QED
  BY <1>7, <1>8

(* Every step keeps the types.                                             *)
LEMMA TypesStart ==
  ASSUME Init
  PROVE  TypesInv
<1>1. Traced
  <2>1. mem \in [Located -> Byte]
    BY MemoryAssumption DEF Init, Located, Byte
  <2>2. origin = [a \in Located |-> NoOrigin]
    BY DEF Init, Located
  <2> QED
    BY <2>1, <2>2 DEF Traced, Origins
<1>2. Running
  <2>1. 0 \in Addrs
    BY AddrAssumption DEF Addrs
  <2> QED
    BY <2>1 DEF Init, Running
<1> QED
  BY <1>1, <1>2 DEF TypesInv

(* A user who starts a job starts with nothing shown or written.           *)
LEMMA TypesStarted ==
  ASSUME TypesInv, NEW u \in Users, Start(u)
  PROVE  TypesInv'
<1>1. Traced'
  BY DEF TypesInv, Traced, Start
<1>2. PICK j \in Jobs : /\ job' = [job EXCEPT ![u] = j]
                        /\ left' = [left EXCEPT ![u] = IF j = NoJob THEN 0 ELSE j.times]
  BY DEF Start
<1>3. j # NoJob => j.times \in Nat
  BY CountAssumption
<1>4. 0 \in Addrs
  BY AddrAssumption DEF Addrs
<1>5. Running'
  BY <1>2, <1>3, <1>4 DEF TypesInv, Running, Start
<1> QED
  BY <1>1, <1>5 DEF TypesInv

(* A user whose job ends goes back to the prompt.                          *)
LEMMA TypesEnded ==
  ASSUME TypesInv, NEW u \in Users, Done(u) \/ Fails(u)
  PROVE  TypesInv'
<1>1. Traced'
  BY DEF TypesInv, Traced, Done, Fails
<1>2. Running'
  <2>1. job' = [job EXCEPT ![u] = NoJob]
    BY DEF Done, Fails, Finish
  <2>2. CASE Done(u)
    BY <2>1, <2>2 DEF TypesInv, Running, Done
  <2>3. CASE Fails(u)
    BY <2>1, <2>3 DEF TypesInv, Running, Fails
  <2> QED
    BY <2>2, <2>3
<1> QED
  BY <1>1, <1>2 DEF TypesInv

(* An address that is found is one of the process, and not zero.           *)
LEMMA TypesLocated ==
  ASSUME TypesInv, NEW u \in Users, Locate(u)
  PROVE  TypesInv' /\ next'[u] \in Addrs \ {0} /\ next' = [next EXCEPT ![u] = next'[u]]
<1> DEFINE a == Resolve(job[u].addr)
<1>1. Traced'
  BY DEF TypesInv, Traced, Locate
<1>2. a \in Addrs \cup {Failed}
  BY ResolveTypes DEF TypesInv, Traced, Located
<1>3. a \notin {Failed, 0} /\ next' = [next EXCEPT ![u] = a]
  BY DEF Locate
<1> HIDE DEF a
<1>4. Running'
  BY <1>2, <1>3 DEF TypesInv, Running, Locate
<1>5. next'[u] = a
  BY <1>3 DEF TypesInv, Running
<1> QED
  BY <1>1, <1>2, <1>3, <1>4, <1>5 DEF TypesInv

(* A read of one instance.                                                 *)
LEMMA TypesRead ==
  ASSUME TypesInv, NEW u \in Users, Read(u)
  PROVE  LET a == next[u]
             n == ReadSize(job[u].type, job[u].size)
         IN /\ TypesInv' /\ n \in Nat /\ a + n # 0
            /\ next' = [next EXCEPT ![u] = a + n]
            /\ got'[u] = <<>>
            /\ \/ shown'[u] = <<>> /\ left'[u] = 0
               \/ \E c \in Seq(Known) : shown'[u] = Append(shown[u], Instance(job[u].type, a, n, c))
            /\ \A v \in Users \ {u} : shown'[v] = shown[v] /\ left'[v] = left[v] /\ got'[v] = got[v]
<1> DEFINE a == next[u]
           n == ReadSize(job[u].type, job[u].size)
<1>1. Traced /\ Running /\ Traced'
  BY DEF TypesInv, Traced, Read
<1>2. job[u].type \in DOMAIN TypeOf /\ n \in Nat
  BY <1>1, JobsSound, SoundWhat DEF Running, Read
<1>3. a \in Addrs /\ a > 0 /\ Accessible(a, n) /\ left[u] > 0
  BY <1>1 DEF Running, Read
<1>4. Shows(u, Cells(a, n), a, n) /\ next' = [next EXCEPT ![u] = Behind(a, n)] /\ job' = job /\ wrote' = wrote
  BY DEF Read
<1> HIDE DEF a, n
<1>5. Behind(a, n) = a + n /\ a + n \in Addrs
  BY <1>2, <1>3, AccessTypes
<1>6. Cells(a, n) \in Seq(Known) /\ a \in Int
  BY <1>1, <1>2, <1>3, CellsKnown, AddrAssumption DEF Addrs
<1>7. /\ shown' \in [Users -> Seq(Instances)] /\ left' \in [Users -> Nat] /\ got' \in [Users -> Seq(Known)]
      /\ got'[u] = <<>>
      /\ \/ shown'[u] = <<>> /\ left'[u] = 0
         \/ shown'[u] = Append(shown[u], Instance(job[u].type, a, n, Cells(a, n)))
      /\ \A v \in Users \ {u} : shown'[v] = shown[v] /\ left'[v] = left[v] /\ got'[v] = got[v]
  BY <1>1, <1>2, <1>3, <1>4, <1>6, ShowsTypes
<1>8. Running'
  BY <1>1, <1>4, <1>5, <1>7 DEF Running
<1>9. a + n # 0
  BY <1>2, <1>3, AddrAssumption DEF Addrs
<1> QED
  BY <1>1, <1>2, <1>4, <1>5, <1>6, <1>7, <1>8, <1>9 DEF TypesInv, a, n

(* A byte of a C string.                                                   *)
LEMMA TypesCstring ==
  ASSUME TypesInv, NEW u \in Users, ReadOneCstring(u)
  PROVE  LET a == next[u]
             n == Len(got[u]) + 1
         IN /\ TypesInv' /\ a + 1 # 0
            /\ next' = [next EXCEPT ![u] = a + 1]
            /\ \/ /\ got'[u] = <<>>
                  /\ \/ shown'[u] = <<>> /\ left'[u] = 0
                     \/ \E c \in Seq(Known) : shown'[u] = Append(shown[u], Instance(job[u].type, a + 1 - n, n, c))
               \/ shown'[u] = shown[u] /\ left'[u] = left[u] /\ Len(got'[u]) = n
            /\ \A v \in Users \ {u} : shown'[v] = shown[v] /\ left'[v] = left[v] /\ got'[v] = got[v]
<1> DEFINE a == next[u]
           n == Len(got[u]) + 1
           cell == Cells(a, 1)
<1>1. Traced /\ Running /\ Traced'
  BY DEF TypesInv, Traced, ReadOneCstring
<1>2. job[u].type \in DOMAIN TypeOf
  BY <1>1, JobsSound, SoundWhat DEF Running, ReadOneCstring
<1>3. a \in Addrs /\ a > 0 /\ Accessible(a, 1) /\ left[u] > 0 /\ got[u] \in Seq(Known) /\ n \in Nat
  BY <1>1 DEF Running, ReadOneCstring
<1>4. /\ \/ Shows(u, got[u], a + 1 - n, n)
         \/ Shows(u, got[u] \o cell, a + 1 - n, n)
         \/ got' = [got EXCEPT ![u] = @ \o cell] /\ UNCHANGED <<shown, left>>
      /\ next' = [next EXCEPT ![u] = Behind(a, 1)] /\ job' = job /\ wrote' = wrote
  BY DEF ReadOneCstring
<1>5. Behind(a, 1) = a + 1 /\ a + 1 \in Addrs /\ a + 1 # 0 /\ a \in Int
  BY <1>3, AccessTypes, AddrAssumption DEF Addrs
<1>6. cell \in Seq(Known) /\ Len(cell) = 1
  BY <1>1, <1>3, CellsKnown
<1> HIDE DEF cell
<1>7. got[u] \o cell \in Seq(Known) /\ Len(got[u] \o cell) = n
  <2> DEFINE s == got[u]
  <2>1. s \in Seq(Known) /\ Len(s) + 1 = n
    BY <1>3
  <2> HIDE DEF s, n
  <2>2. s \o cell \in Seq(Known) /\ Len(s \o cell) = Len(s) + Len(cell)
    BY <1>6, <2>1, ConcatProperties
  <2>3. s \o cell \in Seq(Known) /\ Len(s \o cell) = n
    BY <1>6, <2>1, <2>2
  <2> QED
    BY <2>3 DEF s
<1> HIDE DEF a, n
<1>8. a + 1 - n \in Int
  BY <1>3, <1>5
<1> DEFINE at == a + 1 - n
<1> HIDE DEF at
<1>9. ASSUME NEW c \in Seq(Known), Shows(u, c, at, n)
      PROVE  /\ shown' \in [Users -> Seq(Instances)] /\ left' \in [Users -> Nat] /\ got' \in [Users -> Seq(Known)]
             /\ got'[u] = <<>>
             /\ \/ shown'[u] = <<>> /\ left'[u] = 0
                \/ \E x \in Seq(Known) : shown'[u] = Append(shown[u], Instance(job[u].type, at, n, x))
             /\ \A v \in Users \ {u} : shown'[v] = shown[v] /\ left'[v] = left[v] /\ got'[v] = got[v]
  <2>1. at \in Int
    BY <1>8 DEF at
  <2>2. /\ shown' \in [Users -> Seq(Instances)] /\ left' \in [Users -> Nat] /\ got' \in [Users -> Seq(Known)]
        /\ got'[u] = <<>>
        /\ \/ shown'[u] = <<>> /\ left'[u] = 0
           \/ shown'[u] = Append(shown[u], Instance(job[u].type, at, n, c))
        /\ \A v \in Users \ {u} : shown'[v] = shown[v] /\ left'[v] = left[v] /\ got'[v] = got[v]
    BY <1>1, <1>2, <1>3, <1>9, <2>1, ShowsTypes
  <2> QED
    BY <2>2
<1>10. CASE Shows(u, got[u], a + 1 - n, n) \/ Shows(u, got[u] \o cell, a + 1 - n, n)
  <2>1. PICK c \in Seq(Known) : Shows(u, c, at, n)
    BY <1>3, <1>7, <1>10 DEF at
  <2>2. /\ shown' \in [Users -> Seq(Instances)] /\ left' \in [Users -> Nat] /\ got' \in [Users -> Seq(Known)]
        /\ got'[u] = <<>>
        /\ \/ shown'[u] = <<>> /\ left'[u] = 0
           \/ \E x \in Seq(Known) : shown'[u] = Append(shown[u], Instance(job[u].type, at, n, x))
        /\ \A v \in Users \ {u} : shown'[v] = shown[v] /\ left'[v] = left[v] /\ got'[v] = got[v]
    BY <1>9, <2>1
  <2>3. Running'
    BY <1>1, <1>4, <1>5, <2>2 DEF Running
  <2> QED
    BY <1>1, <1>4, <1>5, <2>2, <2>3 DEF TypesInv, a, n, at
<1>11. CASE got' = [got EXCEPT ![u] = @ \o cell] /\ UNCHANGED <<shown, left>>
  <2> DEFINE longer == got[u] \o cell
  <2>1. got' = [got EXCEPT ![u] = longer] /\ shown' = shown /\ left' = left
    BY <1>11
  <2>2. longer \in Seq(Known) /\ Len(longer) = n
    BY <1>7
  <2> HIDE DEF longer
  <2>3. Running'
    BY <1>1, <1>4, <1>5, <2>1, <2>2 DEF Running
  <2>4. Len(got'[u]) = n /\ \A v \in Users \ {u} : got'[v] = got[v]
    BY <1>1, <2>1, <2>2 DEF Running
  <2> QED
    BY <1>1, <1>4, <1>5, <2>1, <2>3, <2>4 DEF TypesInv, a, n
<1> QED
  BY <1>4, <1>10, <1>11

(* A write of one instance.                                                *)
LEMMA TypesWrite ==
  ASSUME TypesInv, NEW u \in Users, Write(u)
  PROVE  LET a == next[u]
             n == Len(Encode(job[u].type, job[u].value))
         IN /\ TypesInv' /\ n \in Nat /\ a + n # 0
            /\ next' = [next EXCEPT ![u] = a + n]
            /\ wrote' = [wrote EXCEPT ![u] = Append(wrote[u], <<a, n>>)]
<1> DEFINE d == job[u].type
           v == job[u].value
           b == Encode(d, v)
           a == next[u]
           n == Len(b)
           written == a .. a + n - 1
<1>1. Traced /\ Running
  BY DEF TypesInv
<1>2. d \in DOMAIN TypeOf /\ Valued(d, v)
  BY <1>1, JobsSound, SoundWhat DEF Running, Write
<1>3. b \in Seq(Byte) /\ n \in Nat
  BY <1>2, EncodeTypes
<1>4. a \in Addrs /\ a > 0 /\ Accessible(a, n) /\ left[u] > 0
  BY <1>1 DEF Running, Write
<1>5. /\ mem' = [x \in DOMAIN mem |-> IF x \in written THEN b[x - a + 1] ELSE mem[x]]
      /\ origin' = [x \in DOMAIN mem |-> IF x \in written
                        THEN [type |-> d, value |-> v, at |-> x - a + 1, of |-> n]
                        ELSE origin[x]]
      /\ wrote' = [wrote EXCEPT ![u] = Append(@, <<a, n>>)]
      /\ left' = [left EXCEPT ![u] = @ - 1]
      /\ next' = [next EXCEPT ![u] = Behind(a, n)]
      /\ UNCHANGED <<job, got, shown>>
  BY DEF Write
<1> HIDE DEF d, v, b, a, n
<1>6. Behind(a, n) = a + n /\ a + n \in Addrs /\ a + n # 0 /\ a \in Nat
  BY <1>3, <1>4, AccessTypes, AddrAssumption DEF Addrs
<1>7. Traced'
  <2>1. DOMAIN mem = Located
    BY <1>1 DEF Traced
  <2>2. ASSUME NEW x \in Located
        PROVE  mem'[x] \in Byte /\ origin'[x] \in Origins /\ (origin'[x] = NoOrigin \/ Written(origin'[x], mem'[x]))
    <3>1. CASE x \in written
      <4> DEFINE i == x - a + 1
                 o == [type |-> d, value |-> v, at |-> i, of |-> n]
      <4>1. i \in 1 .. n
        BY <1>3, <1>6, <3>1
      <4>2. mem'[x] = b[i] /\ origin'[x] = o
        BY <1>5, <2>1, <3>1
      <4>3. b[i] \in Byte
        <5> HIDE DEF i, Byte
        <5> QED
          BY <1>3, <4>1 DEF n
      <4>4. o.type = d /\ o.value = v /\ o.at = i /\ o.of = n
        OBVIOUS
      <4>5. v \in {<<m>> : m \in Nat} \cup Seq(Byte)
        BY <1>2 DEF Valued
      <4> HIDE DEF i
      <4>6. o \in Origins
        BY <1>2, <1>3, <4>1, <4>5 DEF Origins
      <4> HIDE DEF o
      <4>7. Written(o, b[i])
        BY <1>2, <4>1, <4>4 DEF Written, b, n
      <4> QED
        BY <4>2, <4>3, <4>6, <4>7
    <3>2. CASE x \notin written
      <4>1. mem'[x] = mem[x] /\ origin'[x] = origin[x]
        BY <1>5, <2>1, <3>2
      <4> QED
        BY <1>1, <4>1 DEF Traced
    <3> QED
      BY <3>1, <3>2
  <2>3. DOMAIN mem' = Located /\ DOMAIN origin' = Located
    BY <1>5, <2>1
  <2>4. mem' = [x \in Located |-> mem'[x]] /\ origin' = [x \in Located |-> origin'[x]]
    BY <1>5, <2>1
  <2>5. mem' \in [Located -> Byte] /\ origin' \in [Located -> Origins]
    BY <2>2, <2>4
  <2> QED
    BY <2>2, <2>5 DEF Traced, Located
<1>8. Running'
  <2>1. <<a, n>> \in Addrs \X Nat /\ left[u] - 1 \in Nat
    BY <1>1, <1>3, <1>4 DEF Running
  <2> DEFINE w == Append(wrote[u], <<a, n>>)
  <2>2. w \in Seq(Addrs \X Nat)
    BY <1>1, <2>1 DEF Running
  <2>3. wrote' = [wrote EXCEPT ![u] = w] /\ left' = [left EXCEPT ![u] = left[u] - 1] /\ next' = [next EXCEPT ![u] = a + n]
    BY <1>5, <1>6
  <2> HIDE DEF w
  <2>4. wrote' \in [Users -> Seq(Addrs \X Nat)]
    BY <1>1, <2>2, <2>3 DEF Running
  <2>5. left' \in [Users -> Nat]
    BY <1>1, <2>1, <2>3 DEF Running
  <2>6. next' \in [Users -> Addrs]
    BY <1>1, <1>6, <2>3 DEF Running
  <2> QED
    BY <1>1, <1>5, <2>4, <2>5, <2>6 DEF Running
<1> QED
  BY <1>3, <1>5, <1>6, <1>7, <1>8 DEF TypesInv, d, v, b, a, n

(* The types of the state, in every behaviour.                             *)
LEMMA TypesStep ==
  ASSUME TypesInv, [Next]_vars
  PROVE  TypesInv'
<1>1. ASSUME NEW u \in Users, Start(u) \/ Done(u) \/ Locate(u) \/ Fails(u) \/ Read(u) \/ ReadOneCstring(u) \/ Write(u)
      PROVE  TypesInv'
  BY <1>1, TypesStarted, TypesEnded, TypesLocated, TypesRead, TypesCstring, TypesWrite
<1>2. CASE UNCHANGED vars
  BY <1>2 DEF vars, TypesInv, Traced, Running, Located
<1> QED
  BY <1>1, <1>2 DEF Next

(* For any users, lines, memory maps and types: every byte is where its origin *)
(* says, every value shown is what its cells decode to, and every job is sound. *)
THEOREM DataTypesTypes == Spec => []TypesInv
<1>1. Init => TypesInv
  BY TypesStart
<1>2. TypesInv /\ [Next]_vars => TypesInv'
  BY TypesStep
<1> QED
  BY <1>1, <1>2, PTL DEF Spec

-----------------------------------------------------------------------------
(* RoundTrip, PatternIsWritten and InstancesAdjoin.                        *)

(* What a user is shown of a written value is that value.                  *)
LEMMA ShownIsWritten ==
  ASSUME NEW e \in Instances, Whole(e), e.type \notin Misread
  PROVE  e.value = e.origins[1].value
<1>1. PICK d \in DOMAIN TypeOf, a \in Int, n \in Nat, c \in Seq(Known) : e = Instance(d, a, n, c)
  BY DEF Instances
<1> DEFINE m == Len(c)
           b == [i \in 1 .. m |-> c[i].byte]
           origins == [i \in 1 .. m |-> c[i].origin]
           v == origins[1].value
           first == origins[1]
<1>2. m \in Nat /\ DOMAIN c = 1 .. m /\ \A i \in 1 .. m : c[i] \in Known
  OBVIOUS
<1>3. e.type = d /\ e.origins = origins /\ e.value = Decode(d, b)
  BY <1>1, <1>2 DEF Instance
<1>4. Len(origins) = m
  BY <1>2
<1> HIDE DEF b
<1>5. /\ m > 0
      /\ \A i \in 1 .. m : /\ origins[i].type # "none" /\ TypeOf[origins[i].type] = TypeOf[d]
                           /\ origins[i].value = v /\ origins[i].at = i
      /\ m = IF TypeOf[d].family = "cstring" THEN first.of - 1 ELSE first.of
  <2> HIDE DEF m, origins
  <2> QED
    BY <1>3, <1>4 DEF Whole
<1>6. ASSUME NEW i \in 1 .. m
      PROVE  /\ Valued(d, v) /\ origins[i].of = Len(Encode(d, v))
             /\ b[i] = Encode(d, v)[i] /\ b[i] \in Byte
  <2> DEFINE o == origins[i]
  <2>1. c[i].byte = b[i] /\ c[i].origin = o /\ c[i] \in Known
    BY <1>2 DEF b
  <2>2. o.type # "none" /\ TypeOf[o.type] = TypeOf[d] /\ o.value = v /\ o.at = i
    BY <1>5
  <2> HIDE DEF o, v
  <2>3. Written(o, b[i]) /\ b[i] \in Byte
    BY <2>1, <2>2 DEF Known, NoOrigin
  <2>4. /\ Valued(o.type, v) /\ o.of = Len(Encode(o.type, v)) /\ b[i] = Encode(o.type, v)[i]
    BY <2>2, <2>3 DEF Written
  <2>5. Encode(o.type, v) = Encode(d, v) /\ (Valued(o.type, v) <=> Valued(d, v))
    BY <2>2, EncodeByType
  <2> QED
    BY <2>3, <2>4, <2>5 DEF o
<1>7. 1 \in 1 .. m
  BY <1>2, <1>5
<1>8. Valued(d, v) /\ first.of = Len(Encode(d, v))
  BY <1>6, <1>7
<1>9. Encode(d, v) \in Seq(Byte)
  BY <1>8, EncodeTypes
<1>10. b \in [1 .. m -> Byte] /\ b = [i \in 1 .. m |-> b[i]]
  BY <1>6 DEF b
<1> HIDE DEF first, origins, m, v
<1>11. CASE TypeOf[d].family = "cstring"
  <2>1. Encode(d, v) = Append(v, 0) /\ v \in Seq(Byte) /\ Decode(d, b) = b
    <3>1. TypeOf[d].family \notin Numeric
      BY <1>11, TypeAssumption DEF Numeric
    <3> QED
      BY <1>8, <1>11, <3>1, ValuedUnits DEF Encode, Decode
  <2>2. m = Len(v)
    BY <1>5, <1>8, <1>11, <2>1
  <2>3. \A i \in 1 .. m : b[i] = v[i]
    <3>1. \A i \in 1 .. m : b[i] = Append(v, 0)[i]
      BY <1>6, <2>1
    <3> QED
      BY <2>1, <2>2, <3>1
  <2>4. b = v
    <3> HIDE DEF Byte
    <3>1. v = [i \in 1 .. m |-> v[i]]
      BY <2>1, <2>2
    <3> QED
      BY <1>10, <2>3, <3>1
  <2> QED
    BY <1>3, <2>1, <2>4 DEF v
<1>12. CASE TypeOf[d].family # "cstring"
  <2> DEFINE w == Encode(d, v)
  <2>1. m = Len(w)
    BY <1>5, <1>8, <1>12
  <2>2. b = w
    <3>1. \A i \in 1 .. m : b[i] = w[i]
      BY <1>6
    <3> HIDE DEF w, Byte
    <3>2. w = [i \in 1 .. m |-> w[i]]
      BY <1>9, <2>1 DEF w
    <3> QED
      BY <1>10, <3>1, <3>2
  <2>3. Decode(d, w) = v
    BY <1>3, <1>8, <1>12, DecodeEncoded
  <2> QED
    BY <1>3, <2>2, <2>3 DEF v
<1> QED
  BY <1>11, <1>12

(* What was written as a type is read back as that type, by whoever reads  *)
(* it, for every process, memory and set of lines that users can type.     *)
THEOREM ReadsWhatWasWritten == Spec => []RoundTrip
<1>1. TypesInv => RoundTrip
  <2> SUFFICES ASSUME TypesInv, NEW u \in Users, NEW i \in DOMAIN shown[u],
                      Whole(shown[u][i]), shown[u][i].type \notin Misread
               PROVE  shown[u][i].value = shown[u][i].origins[1].value
    BY DEF RoundTrip
  <2>1. shown[u] \in Seq(Instances)
    BY DEF TypesInv, Running
  <2>2. shown[u][i] \in Instances
    BY <2>1
  <2> QED
    BY <2>2, ShownIsWritten
<1> QED
  BY <1>1, DataTypesTypes, PTL

(* The pattern of a value is what writem left of it in memory.             *)
THEOREM PatternMatchesMemory == Spec => []PatternIsWritten
<1>1. TypesInv => PatternIsWritten
  <2> SUFFICES ASSUME TypesInv, NEW a \in DOMAIN mem, origin[a].at = 1,
                      \A i \in 1 .. origin[a].of : a + i - 1 \in DOMAIN mem /\ origin[a + i - 1] = [origin[a] EXCEPT !.at = i]
               PROVE  [i \in 1 .. origin[a].of |-> mem[a + i - 1]] = Pattern(origin[a].type, <<origin[a].value>>)
    BY DEF PatternIsWritten
  <2> DEFINE o == origin[a]
             d == o.type
             v == o.value
             w == Encode(d, v)
  <2>1. DOMAIN mem = Located /\ a \in Located
    BY DEF TypesInv, Traced
  <2>2. Written(o, mem[a])
    BY <2>1 DEF TypesInv, Traced, NoOrigin
  <2>3. d \in DOMAIN TypeOf /\ Valued(d, v) /\ o.of = Len(w) /\ o \in Origins
    BY <2>1, <2>2 DEF Written, TypesInv, Traced
  <2>4. ASSUME NEW i \in 1 .. o.of
        PROVE  mem[a + i - 1] = w[i]
    <3> DEFINE x == a + i - 1
               p == origin[x]
    <3>1. x \in Located /\ p = [o EXCEPT !.at = i]
      BY <2>1
    <3> HIDE DEF x, o
    <3>2. o = [type |-> o.type, value |-> o.value, at |-> o.at, of |-> o.of]
      BY <2>3 DEF Origins, NoOrigin
    <3>3. p.type = d /\ p.value = v /\ p.at = i
      BY <3>1, <3>2
    <3>4. p = NoOrigin \/ Written(p, mem[x])
      BY <3>1 DEF TypesInv, Traced
    <3>5. p.at # 0
      BY <3>3
    <3>6. mem[x] = w[i]
      BY <3>3, <3>4, <3>5 DEF Written, NoOrigin
    <3> QED
      BY <3>6 DEF x
  <2>5. w \in Seq(Byte)
    BY <2>3, EncodeTypes
  <2> HIDE DEF w, d, v, o
  <2>6. [i \in 1 .. o.of |-> mem[a + i - 1]] = w
    <3> HIDE DEF Byte
    <3>1. w = [i \in 1 .. o.of |-> w[i]]
      BY <2>3, <2>5
    <3> QED
      BY <2>4, <3>1
  <2>7. w = Pattern(d, <<v>>)
    BY <2>3, PatternEncoded DEF w
  <2> QED
    BY <2>6, <2>7 DEF d, v, o
<1> QED
  BY <1>1, DataTypesTypes, PTL

(* One user's instances lie behind one another, and the next goes behind   *)
(* them: behind the bytes of a C string that is being read, too.           *)
Adjoining(u) ==
  /\ left[u] > 0 /\ next[u] = 0 => shown[u] = <<>> /\ wrote[u] = <<>>
  /\ job[u].what = "read" => wrote[u] = <<>>
  /\ job[u].what = "read" /\ TypeOf[job[u].type].family # "cstring" => got[u] = <<>>
  /\ job[u].what = "write" => shown[u] = <<>>
  /\ shown[u] # <<>> =>
        next[u] = shown[u][Len(shown[u])].at + shown[u][Len(shown[u])].length + Len(got[u])
  /\ wrote[u] # <<>> => next[u] = wrote[u][Len(wrote[u])][1] + wrote[u][Len(wrote[u])][2]
  /\ \A i \in 1 .. Len(shown[u]) - 1 : shown[u][i + 1].at = shown[u][i].at + shown[u][i].length
  /\ \A i \in 1 .. Len(wrote[u]) - 1 : wrote[u][i + 1][1] = wrote[u][i][1] + wrote[u][i][2]

(* One more instance behind the last.                                      *)
LEMMA OneMoreShown ==
  ASSUME NEW s \in Seq(Instances), NEW e \in Instances,
         s # <<>> => e.at = s[Len(s)].at + s[Len(s)].length,
         \A i \in 1 .. Len(s) - 1 : s[i + 1].at = s[i].at + s[i].length,
         NEW t, t = Append(s, e)
  PROVE  /\ t # <<>> /\ t[Len(t)] = e
         /\ \A i \in 1 .. Len(t) - 1 : t[i + 1].at = t[i].at + t[i].length
<1> DEFINE m == Len(s)
<1>2. m \in Nat /\ Len(t) = m + 1 /\ t[m + 1] = e /\ \A i \in 1 .. m : t[i] = s[i]
  OBVIOUS
<1>3. s # <<>> <=> m # 0
  BY EmptySeq
<1> HIDE DEF m
<1>4. t # <<>>
  BY <1>2
<1>5. ASSUME NEW i \in 1 .. Len(t) - 1
      PROVE  t[i + 1].at = t[i].at + t[i].length
  <2>1. CASE i = m
    BY <1>2, <1>3, <2>1 DEF m
  <2>2. CASE i # m
    <3>1. i \in 1 .. m - 1 /\ i \in 1 .. m /\ i + 1 \in 1 .. m
      BY <1>2, <2>2
    <3> QED
      BY <1>2, <3>1 DEF m
  <2> QED
    BY <2>1, <2>2
<1> QED
  BY <1>2, <1>4, <1>5

(* Likewise one more place that was written.                               *)
LEMMA OneMoreWritten ==
  ASSUME NEW s \in Seq(Addrs \X Nat), NEW e \in Addrs \X Nat,
         s # <<>> => e[1] = s[Len(s)][1] + s[Len(s)][2],
         \A i \in 1 .. Len(s) - 1 : s[i + 1][1] = s[i][1] + s[i][2],
         NEW t, t = Append(s, e)
  PROVE  /\ t # <<>> /\ t[Len(t)] = e
         /\ \A i \in 1 .. Len(t) - 1 : t[i + 1][1] = t[i][1] + t[i][2]
<1> DEFINE m == Len(s)
<1>2. m \in Nat /\ Len(t) = m + 1 /\ t[m + 1] = e /\ \A i \in 1 .. m : t[i] = s[i]
  OBVIOUS
<1>3. s # <<>> <=> m # 0
  BY EmptySeq
<1> HIDE DEF m
<1>4. t # <<>>
  BY <1>2
<1>5. ASSUME NEW i \in 1 .. Len(t) - 1
      PROVE  t[i + 1][1] = t[i][1] + t[i][2]
  <2>1. CASE i = m
    BY <1>2, <1>3, <2>1 DEF m
  <2>2. CASE i # m
    <3>1. i \in 1 .. m - 1 /\ i \in 1 .. m /\ i + 1 \in 1 .. m
      BY <1>2, <2>2
    <3> QED
      BY <1>2, <3>1 DEF m
  <2> QED
    BY <2>1, <2>2
<1> QED
  BY <1>2, <1>4, <1>5

(* An instance has its place and length.                                   *)
LEMMA InstancePlace ==
  ASSUME NEW s \in Seq(Instances), s # <<>>
  PROVE  s[Len(s)].at \in Int /\ s[Len(s)].length \in Nat
<1>1. Len(s) \in 1 .. Len(s)
  OBVIOUS
<1>2. s[Len(s)] \in Instances
  BY <1>1
<1>3. PICK d \in DOMAIN TypeOf, a \in Int, n \in Nat, c \in Seq(Known) : s[Len(s)] = Instance(d, a, n, c)
  BY <1>2 DEF Instances
<1> QED
  BY <1>3 DEF Instance

(* Whoever is not in the step is as before.                                *)
LEMMA OthersAdjoin ==
  ASSUME NEW v, Adjoining(v), job'[v] = job[v], next'[v] = next[v], left'[v] = left[v], got'[v] = got[v],
         shown'[v] = shown[v], wrote'[v] = wrote[v]
  PROVE  Adjoining(v)'
BY DEF Adjoining

(* Nothing is shown or written when a job starts.                          *)
LEMMA AdjoinStarted ==
  ASSUME TypesInv, NEW u \in Users, Start(u)
  PROVE  Adjoining(u)'
<1>1. next'[u] = 0 /\ got'[u] = <<>> /\ shown'[u] = <<>> /\ wrote'[u] = <<>>
  BY DEF Start, TypesInv, Running
<1> QED
  BY <1>1 DEF Adjoining

(* What was shown stays when a job ends.                                   *)
LEMMA AdjoinEnded ==
  ASSUME TypesInv, NEW u \in Users, Adjoining(u), Done(u) \/ Fails(u)
  PROVE  Adjoining(u)'
<1>1. job'[u] = NoJob /\ NoJob.what = "idle"
  BY DEF Done, Fails, Finish, TypesInv, Running, NoJob
<1>2. next' = next /\ got' = got /\ wrote' = wrote
  BY DEF Done, Fails
<1>3. left'[u] = 0 /\ (shown'[u] = shown[u] \/ shown'[u] = <<>>)
  BY DEF Done, Fails, TypesInv, Running
<1>4. CASE shown'[u] = shown[u]
  BY <1>1, <1>2, <1>3, <1>4 DEF Adjoining
<1>5. CASE shown'[u] = <<>>
  BY <1>1, <1>2, <1>3, <1>5 DEF Adjoining
<1> QED
  BY <1>3, <1>4, <1>5

(* The first instance is not there yet when its address is found.          *)
LEMMA AdjoinLocated ==
  ASSUME TypesInv, NEW u \in Users, Adjoining(u), Locate(u)
  PROVE  Adjoining(u)'
<1>1. next'[u] # 0
  BY TypesLocated
<1>2. shown[u] = <<>> /\ wrote[u] = <<>>
  BY DEF Adjoining, Locate
<1>3. job' = job /\ left' = left /\ got' = got /\ shown' = shown /\ wrote' = wrote
  BY DEF Locate
<1> QED
  BY <1>1, <1>2, <1>3 DEF Adjoining

(* The instance a read shows lies behind the last one.                     *)
LEMMA AdjoinShown ==
  ASSUME TypesInv, NEW u \in Users, Adjoining(u), job[u].what = "read",
         NEW d \in DOMAIN TypeOf, NEW a \in Int, NEW n \in Nat, NEW c \in Seq(Known),
         shown[u] # <<>> => a = shown[u][Len(shown[u])].at + shown[u][Len(shown[u])].length,
         shown'[u] = Append(shown[u], Instance(d, a, n, c)),
         next'[u] = a + n, a + n # 0, got'[u] = <<>>, job' = job, wrote' = wrote
  PROVE  Adjoining(u)'
<1> DEFINE s == shown[u]
           t == shown'[u]
<1>1. s \in Seq(Instances)
  BY DEF TypesInv, Running
<1>2. \A i \in 1 .. Len(s) - 1 : s[i + 1].at = s[i].at + s[i].length
  BY DEF Adjoining
<1> DEFINE e == Instance(d, a, n, c)
<1>a. e \in Instances
  BY DEF Instances
<1>b. e.at = a /\ e.length = n
  BY DEF Instance
<1>c. t = Append(s, e)
  OBVIOUS
<1>d. s # <<>> => e.at = s[Len(s)].at + s[Len(s)].length
  BY <1>b
<1> HIDE DEF e, s, t
<1>3. /\ t # <<>> /\ t[Len(t)] = e
      /\ \A i \in 1 .. Len(t) - 1 : t[i + 1].at = t[i].at + t[i].length
  BY ONLY <1>1, <1>2, <1>a, <1>c, <1>d, OneMoreShown
<1>5. wrote[u] = <<>>
  BY DEF Adjoining
<1>6. Len(<<>>) = 0 /\ a + n = a + n + 0
  OBVIOUS
<1>7. /\ t # <<>> => next'[u] = t[Len(t)].at + t[Len(t)].length + Len(got'[u])
      /\ \A i \in 1 .. Len(t) - 1 : t[i + 1].at = t[i].at + t[i].length
  BY <1>3, <1>6, <1>b
<1>8. job'[u] = job[u] /\ wrote'[u] = <<>> /\ next'[u] # 0
  BY <1>5
<1>9. /\ shown'[u] # <<>> =>
            next'[u] = shown'[u][Len(shown'[u])].at + shown'[u][Len(shown'[u])].length + Len(got'[u])
      /\ \A i \in 1 .. Len(shown'[u]) - 1 : shown'[u][i + 1].at = shown'[u][i].at + shown'[u][i].length
  BY <1>7 DEF t
<1>10. \A i \in 1 .. Len(<<>>) - 1 : FALSE
  OBVIOUS
<1> QED
  BY <1>8, <1>9, <1>10 DEF Adjoining

(* A read whose format its type does not have shows nothing.               *)
LEMMA AdjoinNothing ==
  ASSUME NEW u \in Users, Adjoining(u), job[u].what = "read",
         shown'[u] = <<>>, left'[u] = 0, got'[u] = <<>>, job' = job, wrote' = wrote
  PROVE  Adjoining(u)'
<1>1. wrote'[u] = <<>> /\ job'[u] = job[u]
  BY DEF Adjoining
<1>2. \A i \in 1 .. Len(<<>>) - 1 : FALSE
  OBVIOUS
<1> QED
  BY <1>1, <1>2 DEF Adjoining

(* The next instance that is read starts where the one before it ended.    *)
LEMMA AdjoinRead ==
  ASSUME TypesInv, NEW u \in Users, Adjoining(u), Read(u)
  PROVE  Adjoining(u)'
<1> DEFINE a == next[u]
           n == ReadSize(job[u].type, job[u].size)
<1>1. /\ TypesInv' /\ n \in Nat /\ a + n # 0
      /\ next' = [next EXCEPT ![u] = a + n]
      /\ got'[u] = <<>>
      /\ \/ shown'[u] = <<>> /\ left'[u] = 0
         \/ \E c \in Seq(Known) : shown'[u] = Append(shown[u], Instance(job[u].type, a, n, c))
  BY TypesRead
<1>2. job[u].what = "read" /\ TypeOf[job[u].type].family # "cstring" /\ job' = job /\ wrote' = wrote
  BY DEF Read
<1>3. next \in [Users -> Addrs] /\ shown[u] \in Seq(Instances)
  BY DEF TypesInv, Running
<1>4. next'[u] = a + n /\ a \in Int
  BY <1>1, <1>3, AddrAssumption DEF Addrs
<1>5. job[u].type \in DOMAIN TypeOf
  BY <1>2, JobsSound, SoundWhat DEF TypesInv, Running
<1>6. got[u] = <<>>
  BY <1>2 DEF Adjoining
<1>7. shown[u] # <<>> => a = shown[u][Len(shown[u])].at + shown[u][Len(shown[u])].length
  <2> SUFFICES ASSUME shown[u] # <<>>
               PROVE  a = shown[u][Len(shown[u])].at + shown[u][Len(shown[u])].length
    OBVIOUS
  <2> DEFINE at == shown[u][Len(shown[u])].at
             length == shown[u][Len(shown[u])].length
  <2>1. a = at + length + Len(<<>>)
    BY <1>6 DEF Adjoining
  <2>2. at \in Int /\ length \in Nat
    BY <1>3, InstancePlace
  <2> HIDE DEF at, length, a
  <2>3. a = at + length
    BY <2>1, <2>2
  <2> QED
    BY <2>3 DEF a, at, length
<1> HIDE DEF a, n
<1>8. CASE shown'[u] = <<>> /\ left'[u] = 0
  BY <1>1, <1>2, <1>8, AdjoinNothing
<1>9. CASE \E c \in Seq(Known) : shown'[u] = Append(shown[u], Instance(job[u].type, a, n, c))
  <2>1. PICK c \in Seq(Known) : shown'[u] = Append(shown[u], Instance(job[u].type, a, n, c))
    BY <1>9
  <2> QED
    BY <1>1, <1>2, <1>4, <1>5, <1>7, <2>1, AdjoinShown
<1> QED
  BY <1>1, <1>8, <1>9

(* Likewise for a string that is read byte by byte up to its end.          *)
LEMMA AdjoinCstring ==
  ASSUME TypesInv, NEW u \in Users, Adjoining(u), ReadOneCstring(u)
  PROVE  Adjoining(u)'
<1> DEFINE a == next[u]
           g == Len(got[u])
           n == g + 1
           at == a + 1 - n
<1>1. /\ a + 1 # 0
      /\ next' = [next EXCEPT ![u] = a + 1]
      /\ \/ /\ got'[u] = <<>>
            /\ \/ shown'[u] = <<>> /\ left'[u] = 0
               \/ \E c \in Seq(Known) : shown'[u] = Append(shown[u], Instance(job[u].type, at, n, c))
         \/ shown'[u] = shown[u] /\ left'[u] = left[u] /\ Len(got'[u]) = n
  BY TypesCstring
<1>2. job[u].what = "read" /\ TypeOf[job[u].type].family = "cstring" /\ job' = job /\ wrote' = wrote
  BY DEF ReadOneCstring
<1>3. next \in [Users -> Addrs] /\ shown[u] \in Seq(Instances) /\ got[u] \in Seq(Known)
  BY DEF TypesInv, Running
<1>4. next'[u] = a + 1 /\ a \in Int /\ g \in Nat
  BY <1>1, <1>3, AddrAssumption DEF Addrs
<1>5. job[u].type \in DOMAIN TypeOf
  BY <1>2, JobsSound, SoundWhat DEF TypesInv, Running
<1> DEFINE last == shown[u][Len(shown[u])].at
           length == shown[u][Len(shown[u])].length
<1>6. shown[u] # <<>> => a = last + length + g /\ last \in Int /\ length \in Nat
  <2>1. shown[u] # <<>> => a = last + length + g
    BY DEF Adjoining
  <2>2. shown[u] # <<>> => last \in Int /\ length \in Nat
    BY <1>3, InstancePlace
  <2> QED
    BY <2>1, <2>2
<1> HIDE DEF a, g, last, length
<1>7. (shown[u] # <<>> => at = last + length) /\ at \in Int /\ n \in Nat /\ a + 1 = at + n
  BY <1>4, <1>6
<1> HIDE DEF at, n
<1>8. CASE got'[u] = <<>> /\ shown'[u] = <<>> /\ left'[u] = 0
  BY <1>2, <1>8, AdjoinNothing
<1>9. CASE got'[u] = <<>> /\ \E c \in Seq(Known) : shown'[u] = Append(shown[u], Instance(job[u].type, at, n, c))
  <2>1. PICK c \in Seq(Known) : shown'[u] = Append(shown[u], Instance(job[u].type, at, n, c))
    BY <1>9
  <2>2. next'[u] = at + n /\ at + n # 0
    BY <1>1, <1>4, <1>7
  <2>3. shown[u] # <<>> => at = shown[u][Len(shown[u])].at + shown[u][Len(shown[u])].length
    BY <1>7 DEF last, length
  <2> QED
    BY <1>2, <1>5, <1>7, <1>9, <2>1, <2>2, <2>3, AdjoinShown
<1>10. CASE shown'[u] = shown[u] /\ left'[u] = left[u] /\ Len(got'[u]) = n
  <2>1. shown[u] # <<>> => next'[u] = last + length + n
    BY <1>4, <1>6 DEF n
  <2>2. shown'[u] # <<>> => next'[u] = shown'[u][Len(shown'[u])].at + shown'[u][Len(shown'[u])].length + Len(got'[u])
    BY <1>10, <2>1 DEF last, length
  <2>3. /\ wrote'[u] = <<>> /\ job'[u] = job[u] /\ next'[u] # 0
        /\ \A i \in 1 .. Len(shown'[u]) - 1 : shown'[u][i + 1].at = shown'[u][i].at + shown'[u][i].length
    BY <1>1, <1>2, <1>4, <1>10 DEF Adjoining
  <2>4. \A i \in 1 .. Len(<<>>) - 1 : FALSE
    OBVIOUS
  <2> QED
    BY <1>2, <2>2, <2>3, <2>4 DEF Adjoining
<1> QED
  BY <1>1, <1>8, <1>9, <1>10

(* The next instance that is written starts where the one before it ended. *)
LEMMA AdjoinWrite ==
  ASSUME TypesInv, NEW u \in Users, Adjoining(u), Write(u)
  PROVE  Adjoining(u)'
<1> DEFINE a == next[u]
           n == Len(Encode(job[u].type, job[u].value))
           s == wrote[u]
           t == wrote'[u]
<1>1. /\ n \in Nat /\ a + n # 0
      /\ next' = [next EXCEPT ![u] = a + n]
      /\ wrote' = [wrote EXCEPT ![u] = Append(wrote[u], <<a, n>>)]
  BY TypesWrite
<1>2. job[u].what = "write" /\ job' = job /\ got' = got /\ shown' = shown
  BY DEF Write
<1>3. next \in [Users -> Addrs] /\ s \in Seq(Addrs \X Nat) /\ wrote \in [Users -> Seq(Addrs \X Nat)]
  BY DEF TypesInv, Running
<1> DEFINE e == <<a, n>>
<1>4. next'[u] = a + n /\ a \in Addrs /\ t = Append(s, e)
  BY <1>1, <1>3
<1>5. /\ s # <<>> => a = s[Len(s)][1] + s[Len(s)][2]
      /\ \A i \in 1 .. Len(s) - 1 : s[i + 1][1] = s[i][1] + s[i][2]
  BY DEF Adjoining
<1>6. shown[u] = <<>>
  BY <1>2 DEF Adjoining
<1> HIDE DEF a, n, s, t
<1>a. e \in Addrs \X Nat /\ e[1] = a /\ e[2] = n
  BY <1>1, <1>4
<1> HIDE DEF e
<1>7. /\ t # <<>> /\ t[Len(t)] = e
      /\ \A i \in 1 .. Len(t) - 1 : t[i + 1][1] = t[i][1] + t[i][2]
  BY <1>3, <1>4, <1>5, <1>a, OneMoreWritten
<1>8. /\ t # <<>> => next'[u] = t[Len(t)][1] + t[Len(t)][2]
      /\ \A i \in 1 .. Len(t) - 1 : t[i + 1][1] = t[i][1] + t[i][2]
  BY <1>4, <1>7, <1>a
<1>9. /\ wrote'[u] # <<>> => next'[u] = wrote'[u][Len(wrote'[u])][1] + wrote'[u][Len(wrote'[u])][2]
      /\ \A i \in 1 .. Len(wrote'[u]) - 1 : wrote'[u][i + 1][1] = wrote'[u][i][1] + wrote'[u][i][2]
  BY <1>8 DEF t
<1>10. shown'[u] = <<>> /\ job'[u] = job[u] /\ next'[u] # 0 /\ job'[u].what # "read"
  BY <1>1, <1>2, <1>4, <1>6
<1>11. \A i \in 1 .. Len(<<>>) - 1 : FALSE
  OBVIOUS
<1> QED
  BY <1>9, <1>10, <1>11 DEF Adjoining

(* A step of one user leaves the others where they are.                    *)
LEMMA OthersStay ==
  ASSUME TypesInv, NEW u \in Users, NEW v \in Users \ {u},
         Start(u) \/ Done(u) \/ Locate(u) \/ Fails(u) \/ Read(u) \/ ReadOneCstring(u) \/ Write(u)
  PROVE  /\ job'[v] = job[v] /\ next'[v] = next[v] /\ left'[v] = left[v] /\ got'[v] = got[v]
         /\ shown'[v] = shown[v] /\ wrote'[v] = wrote[v]
<1>1. Running
  BY DEF TypesInv
<1>2. CASE Start(u)
  BY <1>1, <1>2 DEF Start, Running
<1>3. CASE Done(u) \/ Fails(u)
  BY <1>1, <1>3 DEF Done, Fails, Finish, Running
<1>4. CASE Locate(u)
  BY <1>1, <1>4 DEF Locate, Running
<1>5. CASE Read(u)
  <2>1. job' = job /\ wrote' = wrote
    BY <1>5 DEF Read
  <2>2. next'[v] = next[v]
    BY <1>1, <1>5 DEF Read, Running
  <2>3. shown'[v] = shown[v] /\ left'[v] = left[v] /\ got'[v] = got[v]
    BY <1>5, TypesRead
  <2> QED
    BY <2>1, <2>2, <2>3
<1>6. CASE ReadOneCstring(u)
  <2>1. job' = job /\ wrote' = wrote
    BY <1>6 DEF ReadOneCstring
  <2>2. next'[v] = next[v]
    BY <1>1, <1>6 DEF ReadOneCstring, Running
  <2>3. shown'[v] = shown[v] /\ left'[v] = left[v] /\ got'[v] = got[v]
    BY <1>6, TypesCstring
  <2> QED
    BY <2>1, <2>2, <2>3
<1>7. CASE Write(u)
  BY <1>1, <1>7 DEF Write, Running
<1> QED
  BY <1>2, <1>3, <1>4, <1>5, <1>6, <1>7

(* The instances of one command lie behind one another, whatever the       *)
(* commands of other users, or the command itself, write.                  *)
THEOREM InstancesAreAdjacent == Spec => []InstancesAdjoin
<1> DEFINE Inv == TypesInv /\ \A u \in Users : Adjoining(u)
<1>1. Init => Inv
  <2> SUFFICES ASSUME Init
               PROVE  \A u \in Users : Adjoining(u)
    BY TypesStart
  <2>1. \A i \in 1 .. Len(<<>>) - 1 : FALSE
    OBVIOUS
  <2> QED
    BY <2>1 DEF Init, Adjoining, NoJob
<1>2. Inv /\ [Next]_vars => Inv'
  <2> SUFFICES ASSUME Inv, [Next]_vars
               PROVE  \A v \in Users : Adjoining(v)'
    BY TypesStep
  <2>1. ASSUME NEW u \in Users, NEW v \in Users,
               Start(u) \/ Done(u) \/ Locate(u) \/ Fails(u) \/ Read(u) \/ ReadOneCstring(u) \/ Write(u)
        PROVE  Adjoining(v)'
    <3>1. CASE v = u
      <4>1. Adjoining(u)'
        BY <2>1, AdjoinStarted, AdjoinEnded, AdjoinLocated, AdjoinRead, AdjoinCstring, AdjoinWrite
      <4> QED
        BY <3>1, <4>1
    <3>2. CASE v # u
      BY <2>1, <3>2, OthersStay, OthersAdjoin
    <3> QED
      BY <3>1, <3>2
  <2>2. CASE UNCHANGED vars
    BY <2>2, OthersAdjoin DEF vars
  <2> QED
    BY <2>1, <2>2 DEF Next
<1>3. Inv => InstancesAdjoin
  BY DEF Adjoining, InstancesAdjoin
<1> QED
  BY <1>1, <1>2, <1>3, PTL DEF Spec

-----------------------------------------------------------------------------
(* A line that is parsed.                                                  *)

(* The names of flags are those of the definition.                          *)
LEMMA FlagSetsDefined ==
  ASSUME NEW cmd, Len(Declared(cmd)) \in Nat
  PROVE  FlagSets(cmd) = [k \in 0 .. Len(Declared(cmd)) |-> IF k = 0 THEN [alias |-> <<>>, required |-> {}] ELSE RegisterFlag(FlagSets(cmd)[k - 1], Declared(cmd)[k])]
<1> DEFINE top == Len(Declared(cmd))
           start == [alias |-> <<>>, required |-> {}]
           Following(k, prev) == RegisterFlag(prev, Declared(cmd)[k])
           Solves(g, m) == g = [k \in 0 .. m |-> IF k = 0 THEN start ELSE Following(k, g[k - 1])]
           Good == {m \in 0 .. top : \E g : Solves(g, m)}
<1>0. top \in Nat
  OBVIOUS
<1> HIDE DEF top, start, Following
<1>1. 0 \in Good
  <2>1. Solves([k \in 0 .. 0 |-> start], 0)
    OBVIOUS
  <2>2. \E g : Solves(g, 0)
    BY <2>1
  <2> QED
    BY <1>0, <2>2
<1>2. ASSUME NEW m \in 0 .. top - 1, m \in Good
      PROVE  m + 1 \in Good
  <2>1. PICK g : Solves(g, m)
    BY <1>2
  <2> DEFINE h == [k \in 0 .. m + 1 |-> IF k = 0 THEN start ELSE Following(k, g[k - 1])]
  <2>2. \A k \in 0 .. m : h[k] = g[k]
    BY <1>0, <2>1
  <2>3. \A k \in 0 .. m + 1 : k # 0 => k - 1 \in 0 .. m
    BY <1>0
  <2>4. Solves(h, m + 1)
    BY <2>2, <2>3
  <2>5. \E f : Solves(f, m + 1)
    BY <2>4
  <2>6. m + 1 \in 0 .. top
    BY <1>0
  <2> QED
    BY <2>5, <2>6
<1>3. \E g : Solves(g, top)
  <2> HIDE DEF Good
  <2>1. \A m \in 0 .. top : m \in Good
    BY <1>0, <1>1, <1>2, Counting
  <2>2. top \in Good
    BY <1>0, <2>1
  <2> HIDE DEF Solves
  <2> QED
    BY <2>2 DEF Good
<1> QED
  BY <1>3 DEF FlagSets, top, start, Following

(* What is parsed is that of the definition.                                *)
LEMMA ParsedDefined ==
  ASSUME NEW cmd, NEW args, Len(args) \in Nat
  PROVE  ParsedUpTo(cmd, args) = [k \in 0 .. Len(args) |-> IF k = 0 THEN NothingParsed(cmd) ELSE ParseArg(cmd, ParsedUpTo(cmd, args)[k - 1], args[k])]
<1> DEFINE top == Len(args)
           start == NothingParsed(cmd)
           Following(k, prev) == ParseArg(cmd, prev, args[k])
           Solves(g, m) == g = [k \in 0 .. m |-> IF k = 0 THEN start ELSE Following(k, g[k - 1])]
           Good == {m \in 0 .. top : \E g : Solves(g, m)}
<1>0. top \in Nat
  OBVIOUS
<1> HIDE DEF top, start, Following
<1>1. 0 \in Good
  <2>1. Solves([k \in 0 .. 0 |-> start], 0)
    OBVIOUS
  <2>2. \E g : Solves(g, 0)
    BY <2>1
  <2> QED
    BY <1>0, <2>2
<1>2. ASSUME NEW m \in 0 .. top - 1, m \in Good
      PROVE  m + 1 \in Good
  <2>1. PICK g : Solves(g, m)
    BY <1>2
  <2> DEFINE h == [k \in 0 .. m + 1 |-> IF k = 0 THEN start ELSE Following(k, g[k - 1])]
  <2>2. \A k \in 0 .. m : h[k] = g[k]
    BY <1>0, <2>1
  <2>3. \A k \in 0 .. m + 1 : k # 0 => k - 1 \in 0 .. m
    BY <1>0
  <2>4. Solves(h, m + 1)
    BY <2>2, <2>3
  <2>5. \E f : Solves(f, m + 1)
    BY <2>4
  <2>6. m + 1 \in 0 .. top
    BY <1>0
  <2> QED
    BY <2>5, <2>6
<1>3. \E g : Solves(g, top)
  <2> HIDE DEF Good
  <2>1. \A m \in 0 .. top : m \in Good
    BY <1>0, <1>1, <1>2, Counting
  <2>2. top \in Good
    BY <1>0, <2>1
  <2> HIDE DEF Solves
  <2> QED
    BY <2>2 DEF Good
<1> QED
  BY <1>3 DEF ParsedUpTo, top, start, Following

(* What positional arguments are set to is that of the definition.          *)
LEMMA NonflagsDefined ==
  ASSUME NEW cmd, NEW rest, NEW stored, Len(cmd.nonflags) \in Nat
  PROVE  NonflagsSet(cmd, rest, stored) = [k \in 0 .. Len(cmd.nonflags) |-> IF k = 0 THEN [err |-> FALSE, left |-> rest, values |-> stored] ELSE SetNonflag(NonflagsSet(cmd, rest, stored)[k - 1], cmd.nonflags[k])]
<1> DEFINE top == Len(cmd.nonflags)
           start == [err |-> FALSE, left |-> rest, values |-> stored]
           Following(k, prev) == SetNonflag(prev, cmd.nonflags[k])
           Solves(g, m) == g = [k \in 0 .. m |-> IF k = 0 THEN start ELSE Following(k, g[k - 1])]
           Good == {m \in 0 .. top : \E g : Solves(g, m)}
<1>0. top \in Nat
  OBVIOUS
<1> HIDE DEF top, start, Following
<1>1. 0 \in Good
  <2>1. Solves([k \in 0 .. 0 |-> start], 0)
    OBVIOUS
  <2>2. \E g : Solves(g, 0)
    BY <2>1
  <2> QED
    BY <1>0, <2>2
<1>2. ASSUME NEW m \in 0 .. top - 1, m \in Good
      PROVE  m + 1 \in Good
  <2>1. PICK g : Solves(g, m)
    BY <1>2
  <2> DEFINE h == [k \in 0 .. m + 1 |-> IF k = 0 THEN start ELSE Following(k, g[k - 1])]
  <2>2. \A k \in 0 .. m : h[k] = g[k]
    BY <1>0, <2>1
  <2>3. \A k \in 0 .. m + 1 : k # 0 => k - 1 \in 0 .. m
    BY <1>0
  <2>4. Solves(h, m + 1)
    BY <2>2, <2>3
  <2>5. \E f : Solves(f, m + 1)
    BY <2>4
  <2>6. m + 1 \in 0 .. top
    BY <1>0
  <2> QED
    BY <2>5, <2>6
<1>3. \E g : Solves(g, top)
  <2> HIDE DEF Good
  <2>1. \A m \in 0 .. top : m \in Good
    BY <1>0, <1>1, <1>2, Counting
  <2>2. top \in Good
    BY <1>0, <2>1
  <2> HIDE DEF Solves
  <2> QED
    BY <2>2 DEF Good
<1> QED
  BY <1>3 DEF NonflagsSet, top, start, Following

(* The calls are those of the definition.                                   *)
LEMMA CallsDefined ==
  ASSUME NEW cmd, NEW args, Len(args) \in Nat
  PROVE  Calls(cmd, args) = [k \in 0 .. Len(args) + 1 |-> IF k = 0 THEN Call(<<>>, cmd, args, <<>>) ELSE RunRecurse(Calls(cmd, args)[k - 1])]
<1> DEFINE top == Len(args) + 1
           start == Call(<<>>, cmd, args, <<>>)
           Following(k, prev) == RunRecurse(prev)
           Solves(g, m) == g = [k \in 0 .. m |-> IF k = 0 THEN start ELSE Following(k, g[k - 1])]
           Good == {m \in 0 .. top : \E g : Solves(g, m)}
<1>0. top \in Nat
  OBVIOUS
<1> HIDE DEF top, start, Following
<1>1. 0 \in Good
  <2>1. Solves([k \in 0 .. 0 |-> start], 0)
    OBVIOUS
  <2>2. \E g : Solves(g, 0)
    BY <2>1
  <2> QED
    BY <1>0, <2>2
<1>2. ASSUME NEW m \in 0 .. top - 1, m \in Good
      PROVE  m + 1 \in Good
  <2>1. PICK g : Solves(g, m)
    BY <1>2
  <2> DEFINE h == [k \in 0 .. m + 1 |-> IF k = 0 THEN start ELSE Following(k, g[k - 1])]
  <2>2. \A k \in 0 .. m : h[k] = g[k]
    BY <1>0, <2>1
  <2>3. \A k \in 0 .. m + 1 : k # 0 => k - 1 \in 0 .. m
    BY <1>0
  <2>4. Solves(h, m + 1)
    BY <2>2, <2>3
  <2>5. \E f : Solves(f, m + 1)
    BY <2>4
  <2>6. m + 1 \in 0 .. top
    BY <1>0
  <2> QED
    BY <2>5, <2>6
<1>3. \E g : Solves(g, top)
  <2> HIDE DEF Good
  <2>1. \A m \in 0 .. top : m \in Good
    BY <1>0, <1>1, <1>2, Counting
  <2>2. top \in Good
    BY <1>0, <2>1
  <2> HIDE DEF Solves
  <2> QED
    BY <2>2 DEF Good
<1> QED
  BY <1>3 DEF Calls, top, start, Following

(* What an argument does to what is parsed so far: s before, r after it.   *)
Fields == {"pending", "rest", "done", "err", "provided", "values"}
FlagOf(cmd, token) == FlagNamed(cmd, FlagSet(cmd).alias[token])
HasFlag(cmd, token) == token \in DOMAIN FlagSet(cmd).alias
Fitting(cmd, token, text) == Accepts(FlagOf(cmd, token).kind, text)
Given(cmd, values, token, text) ==
  [values EXCEPT ![FlagOf(cmd, token).name] = Stored(FlagOf(cmd, token).kind, values[FlagOf(cmd, token).name], text)]

Refused(s, r) ==
  /\ DOMAIN r = Fields /\ r.err = TRUE /\ r.rest = s.rest /\ r.done = s.done
  /\ r.pending = s.pending /\ r.provided = s.provided /\ r.values = s.values
Provided(cmd, s, token, text, r) ==
  /\ DOMAIN r = Fields /\ r.err = s.err /\ r.rest = s.rest /\ r.done = s.done
  /\ r.pending = "" /\ r.provided = s.provided \cup {token} /\ r.values = Given(cmd, s.values, token, text)
Waits(s, token, r) ==
  /\ DOMAIN r = Fields /\ r.err = s.err /\ r.rest = s.rest /\ r.done = s.done
  /\ r.pending = token /\ r.provided = s.provided /\ r.values = s.values
Ends(s, rest, r) ==
  /\ DOMAIN r = Fields /\ r.err = s.err /\ r.rest = rest /\ r.done = TRUE
  /\ r.pending = s.pending /\ r.provided = s.provided /\ r.values = s.values

Sets(cmd, s, token, text, r) ==
  \/ ~Fitting(cmd, token, text) /\ Refused(s, r)
  \/ Fitting(cmd, token, text) /\ Provided(cmd, s, token, text, r)
FlagEffect(cmd, s, a, r) ==
  \/ ~HasFlag(cmd, a.name) /\ Refused(s, r)
  \/ HasFlag(cmd, a.name) /\ a.form = "assign" /\ Sets(cmd, s, a.name, a.value, r)
  \/ HasFlag(cmd, a.name) /\ a.form # "assign" /\ FlagOf(cmd, a.name).kind = "bool" /\ Sets(cmd, s, a.name, "true", r)
  \/ HasFlag(cmd, a.name) /\ a.form # "assign" /\ FlagOf(cmd, a.name).kind # "bool" /\ Waits(s, a.name, r)
Open(s) == s.err = FALSE /\ s.done = FALSE
ArgEffect(cmd, s, a, r) ==
  \/ s.err = TRUE /\ r = s
  \/ s.err = FALSE /\ s.done = TRUE /\ Ends(s, Append(s.rest, a), r)
  \/ Open(s) /\ s.pending # "" /\ Sets(cmd, s, s.pending, a.text, r)
  \/ Open(s) /\ s.pending = "" /\ a.form = "word" /\ Ends(s, <<a>>, r)
  \/ Open(s) /\ s.pending = "" /\ a.form = "end" /\ Ends(s, s.rest, r)
  \/ Open(s) /\ s.pending = "" /\ a.form \notin {"word", "end"} /\ FlagEffect(cmd, s, a, r)

(* Setting a flag.                                                         *)
LEMMA SetFlagEffect ==
  ASSUME NEW cmd, NEW s, DOMAIN s = Fields, NEW token, NEW text
  PROVE  Sets(cmd, s, token, text, SetFlag(cmd, s, token, text))
<1> DEFINE f == FlagOf(cmd, token)
           r == SetFlag(cmd, s, token, text)
           values == Given(cmd, s.values, token, text)
<1>1. ~Accepts(f.kind, text) => r = [s EXCEPT !.err = TRUE]
  BY DEF SetFlag, FlagOf
<1>2. Accepts(f.kind, text) =>
        r = [s EXCEPT !.pending = "", !.provided = s.provided \cup {token}, !.values = values]
  BY DEF SetFlag, FlagOf, Given
<1> HIDE DEF r, values
<1>3. CASE ~Accepts(f.kind, text)
  <2>1. Refused(s, r)
    BY <1>1, <1>3 DEF Fields, Refused
  <2> QED
    BY <1>3, <2>1 DEF Sets, Fitting, r
<1>4. CASE Accepts(f.kind, text)
  <2>1. Provided(cmd, s, token, text, r)
    BY <1>2, <1>4 DEF Fields, Provided, values
  <2> QED
    BY <1>4, <2>1 DEF Sets, Fitting, r
<1> QED
  BY <1>3, <1>4

(* An argument in the place of a flag.                                     *)
LEMMA ParseFlagEffect ==
  ASSUME NEW cmd, NEW s, DOMAIN s = Fields, NEW a
  PROVE  FlagEffect(cmd, s, a, ParseFlag(cmd, s, a))
<1> DEFINE r == ParseFlag(cmd, s, a)
<1>1. CASE ~HasFlag(cmd, a.name)
  <2>1. r = [s EXCEPT !.err = TRUE]
    BY <1>1 DEF ParseFlag, HasFlag
  <2> HIDE DEF r
  <2>2. Refused(s, r)
    BY <2>1 DEF Fields, Refused
  <2> QED
    BY <1>1, <2>2 DEF FlagEffect, r
<1>2. CASE HasFlag(cmd, a.name) /\ a.form = "assign"
  <2>1. r = SetFlag(cmd, s, a.name, a.value)
    BY <1>2 DEF ParseFlag, HasFlag
  <2>2. Sets(cmd, s, a.name, a.value, SetFlag(cmd, s, a.name, a.value))
    BY SetFlagEffect
  <2> HIDE DEF r
  <2> QED
    BY <1>2, <2>1, <2>2 DEF FlagEffect, r
<1>3. CASE HasFlag(cmd, a.name) /\ a.form # "assign" /\ FlagOf(cmd, a.name).kind = "bool"
  <2>1. r = SetFlag(cmd, s, a.name, "true")
    BY <1>3 DEF ParseFlag, HasFlag, FlagOf
  <2>2. Sets(cmd, s, a.name, "true", SetFlag(cmd, s, a.name, "true"))
    BY SetFlagEffect
  <2> HIDE DEF r
  <2> QED
    BY <1>3, <2>1, <2>2 DEF FlagEffect, r
<1>4. CASE HasFlag(cmd, a.name) /\ a.form # "assign" /\ FlagOf(cmd, a.name).kind # "bool"
  <2>1. r = [s EXCEPT !.pending = a.name]
    BY <1>4 DEF ParseFlag, HasFlag, FlagOf
  <2> HIDE DEF r
  <2>2. Waits(s, a.name, r)
    BY <2>1 DEF Fields, Waits
  <2> QED
    BY <1>4, <2>2 DEF FlagEffect, r
<1> QED
  BY <1>1, <1>2, <1>3, <1>4

(* Any argument.                                                           *)
LEMMA ParseArgEffect ==
  ASSUME NEW cmd, NEW s, DOMAIN s = Fields, s.err \in BOOLEAN, s.done \in BOOLEAN, NEW a
  PROVE  ArgEffect(cmd, s, a, ParseArg(cmd, s, a))
<1> DEFINE r == ParseArg(cmd, s, a)
<1>1. CASE s.err = TRUE
  <2>1. r = s
    BY <1>1 DEF ParseArg
  <2> QED
    BY <1>1, <2>1 DEF ArgEffect
<1>2. CASE s.err = FALSE /\ s.done = TRUE
  <2>1. r = [s EXCEPT !.rest = Append(s.rest, a)]
    BY <1>2 DEF ParseArg
  <2> HIDE DEF r
  <2>2. Ends(s, Append(s.rest, a), r)
    BY <1>2, <2>1 DEF Fields, Ends
  <2> QED
    BY <1>2, <2>2 DEF ArgEffect, r
<1>3. CASE Open(s) /\ s.pending # ""
  <2>1. r = SetFlag(cmd, s, s.pending, a.text)
    BY <1>3 DEF ParseArg, Open
  <2>2. Sets(cmd, s, s.pending, a.text, SetFlag(cmd, s, s.pending, a.text))
    BY SetFlagEffect
  <2> HIDE DEF r
  <2> QED
    BY <1>3, <2>1, <2>2 DEF ArgEffect, r
<1>4. CASE Open(s) /\ s.pending = "" /\ a.form = "word"
  <2>1. r = [s EXCEPT !.done = TRUE, !.rest = <<a>>]
    BY <1>4 DEF ParseArg, Open
  <2> HIDE DEF r
  <2>2. Ends(s, <<a>>, r)
    BY <2>1 DEF Fields, Ends
  <2> QED
    BY <1>4, <2>2 DEF ArgEffect, r
<1>5. CASE Open(s) /\ s.pending = "" /\ a.form = "end"
  <2>1. r = [s EXCEPT !.done = TRUE]
    BY <1>5 DEF ParseArg, Open
  <2> HIDE DEF r
  <2>2. Ends(s, s.rest, r)
    BY <2>1 DEF Fields, Ends
  <2> QED
    BY <1>5, <2>2 DEF ArgEffect, r
<1>6. CASE Open(s) /\ s.pending = "" /\ a.form \notin {"word", "end"}
  <2>1. r = ParseFlag(cmd, s, a)
    BY <1>6 DEF ParseArg, Open
  <2>2. FlagEffect(cmd, s, a, ParseFlag(cmd, s, a))
    BY ParseFlagEffect
  <2> HIDE DEF r
  <2> QED
    BY <1>6, <2>1, <2>2 DEF ArgEffect, r
<1> QED
  BY <1>1, <1>2, <1>3, <1>4, <1>5, <1>6 DEF Open

(* After k arguments no more than k of them are left for a subcommand.     *)
Shaped(T, s, k) ==
  /\ DOMAIN s = Fields /\ s.err \in BOOLEAN /\ s.done \in BOOLEAN
  /\ s.rest \in Seq(Argument(T)) /\ Len(s.rest) <= k
  /\ s.done = FALSE => s.rest = <<>>

(* One more argument.                                                      *)
LEMMA ShapeKept ==
  ASSUME NEW T, NEW cmd, NEW k \in Nat, NEW s, Shaped(T, s, k), NEW a \in Argument(T)
  PROVE  Shaped(T, ParseArg(cmd, s, a), k + 1)
<1> DEFINE r == ParseArg(cmd, s, a)
           Fine(x) == /\ DOMAIN r = Fields /\ r.err \in BOOLEAN /\ r.done \in BOOLEAN
                      /\ r.rest = x /\ (r.done = FALSE => x = <<>>)
<1>1. ArgEffect(cmd, s, a, r)
  BY ParseArgEffect DEF Shaped
<1> HIDE DEF r
<1>2. /\ DOMAIN s = Fields /\ s.err \in BOOLEAN /\ s.done \in BOOLEAN
      /\ s.rest \in Seq(Argument(T)) /\ Len(s.rest) \in Nat /\ Len(s.rest) <= k
      /\ s.done = FALSE => s.rest = <<>>
  BY DEF Shaped
<1>3. Len(s.rest) <= k + 1
  BY <1>2
<1>4. Append(s.rest, a) \in Seq(Argument(T)) /\ Len(Append(s.rest, a)) <= k + 1
  <2>1. Append(s.rest, a) \in Seq(Argument(T)) /\ Len(Append(s.rest, a)) = Len(s.rest) + 1
    BY <1>2
  <2> QED
    BY <1>2, <2>1
<1>5. <<a>> \in Seq(Argument(T)) /\ Len(<<a>>) <= k + 1
  <2>1. <<a>> \in Seq(Argument(T)) /\ Len(<<a>>) = 1 /\ 1 <= k + 1
    OBVIOUS
  <2> QED
    BY <2>1
<1>6. Fine(s.rest) \/ Fine(Append(s.rest, a)) \/ Fine(<<a>>)
  <2>1. ASSUME NEW token, NEW text, Sets(cmd, s, token, text, r)
        PROVE  Fine(s.rest)
    BY <1>2, <2>1 DEF Sets, Refused, Provided
  <2>2. CASE FlagEffect(cmd, s, a, r)
    <3>1. Refused(s, r) \/ Waits(s, a.name, r) \/ (\E token, text : Sets(cmd, s, token, text, r))
      BY <2>2 DEF FlagEffect
    <3>2. CASE Refused(s, r) \/ Waits(s, a.name, r)
      BY <1>2, <3>2 DEF Refused, Waits
    <3>3. CASE \E token, text : Sets(cmd, s, token, text, r)
      BY <2>1, <3>3
    <3> QED
      BY <3>1, <3>2, <3>3
  <2>3. ASSUME NEW x, Ends(s, x, r)
        PROVE  Fine(x)
    BY <1>2, <2>3 DEF Ends
  <2>4. CASE r = s
    BY <1>2, <2>4
  <2> HIDE DEF Fine
  <2> QED
    BY <1>1, <2>1, <2>2, <2>3, <2>4 DEF ArgEffect
<1>7. ASSUME NEW x \in Seq(Argument(T)), Len(x) <= k + 1, Fine(x)
      PROVE  Shaped(T, r, k + 1)
  BY <1>7 DEF Shaped
<1> HIDE DEF Fine
<1>8. Shaped(T, r, k + 1)
  BY <1>2, <1>3, <1>4, <1>5, <1>6, <1>7
<1> QED
  BY <1>8 DEF r

(* What is parsed before the first argument, and after one more.           *)
LEMMA ParsedStart ==
  ASSUME NEW cmd, NEW args, Len(args) \in Nat
  PROVE  ParsedUpTo(cmd, args)[0] = NothingParsed(cmd)
<1> DEFINE n == Len(args)
           acc == ParsedUpTo(cmd, args)
<1>1. acc = [i \in 0 .. n |-> IF i = 0 THEN NothingParsed(cmd) ELSE ParseArg(cmd, acc[i - 1], args[i])]
  BY ParsedDefined
<1> HIDE DEF acc
<1> QED
  BY <1>1 DEF acc

(* The next argument.                                                      *)
LEMMA ParsedNext ==
  ASSUME NEW cmd, NEW args, Len(args) \in Nat, NEW k \in 1 .. Len(args)
  PROVE  ParsedUpTo(cmd, args)[k] = ParseArg(cmd, ParsedUpTo(cmd, args)[k - 1], args[k])
<1> DEFINE n == Len(args)
           acc == ParsedUpTo(cmd, args)
<1>1. acc = [i \in 0 .. n |-> IF i = 0 THEN NothingParsed(cmd) ELSE ParseArg(cmd, acc[i - 1], args[i])]
  BY ParsedDefined
<1>2. k \in 0 .. n /\ k # 0
  OBVIOUS
<1> HIDE DEF acc, n
<1>3. acc[k] = ParseArg(cmd, acc[k - 1], args[k])
  BY <1>1, <1>2
<1> QED
  BY <1>3 DEF acc

(* What is parsed after each argument.                                     *)
LEMMA ParsedShape ==
  ASSUME NEW T, NEW cmd, NEW args \in Seq(Argument(T)), NEW k \in 0 .. Len(args)
  PROVE  Shaped(T, ParsedUpTo(cmd, args)[k], k)
<1> DEFINE n == Len(args)
           acc == ParsedUpTo(cmd, args)
           Good == {i \in 0 .. n : Shaped(T, acc[i], i)}
<1>1. n \in Nat /\ (\A i \in 1 .. n : args[i] \in Argument(T)) /\ k \in 0 .. n
  OBVIOUS
<1>2. acc[0] = NothingParsed(cmd)
  BY <1>1, ParsedStart
<1>3. \A i \in 1 .. n : acc[i] = ParseArg(cmd, acc[i - 1], args[i])
  BY <1>1, ParsedNext
<1> HIDE DEF acc, n
<1>4. 0 \in Good
  <2>1. Shaped(T, NothingParsed(cmd), 0)
    BY DEF Shaped, NothingParsed, Fields
  <2> QED
    BY <1>1, <1>2, <2>1
<1>5. ASSUME NEW i \in 0 .. n - 1, i \in Good
      PROVE  i + 1 \in Good
  <2>1. i + 1 \in 0 .. n /\ i + 1 \in 1 .. n /\ (i + 1) - 1 = i /\ i \in Nat
    BY <1>1
  <2>2. Shaped(T, acc[i], i) /\ args[i + 1] \in Argument(T)
    BY <1>1, <1>5, <2>1
  <2>3. Shaped(T, ParseArg(cmd, acc[i], args[i + 1]), i + 1)
    BY <2>1, <2>2, ShapeKept
  <2>4. acc[i + 1] = ParseArg(cmd, acc[i], args[i + 1])
    BY <1>3, <2>1
  <2> QED
    BY <2>1, <2>3, <2>4
<1>6. \A i \in 0 .. n : i \in Good
  <2> HIDE DEF Good
  <2> QED
    BY <1>1, <1>4, <1>5, Counting
<1> QED
  BY <1>1, <1>6 DEF acc

(* How a command goes on: with an outcome, or with a subcommand that gets  *)
(* what follows its name.                                                  *)
GoesOn(names, rest, r) ==
  \/ r.ended = TRUE /\ r.outcome.commands = names
  \/ r.ended = FALSE /\ rest # <<>> /\ r.args = Tail(rest) /\ \E x : r.names = Append(names, x)

(* Every call goes on in one of these ways.                                *)
LEMMA RunGoesOn ==
  ASSUME NEW names, NEW cmd, NEW args, NEW p
  PROVE  GoesOn(names, p.rest, RunParsed(names, cmd, args, p))
<1> DEFINE subs == {s \in ToSet(cmd.subs) : p.rest # <<>> /\ s.name = p.rest[1].text}
           r == RunParsed(names, cmd, args, p)
           s == CHOOSE s \in subs : TRUE
<1>1. \/ r = Ended(RunCustom(names, args))
      \/ \E what : r = Ended(Outcome(names, what, p))
      \/ subs # {} /\ r = Call(names, s, Tail(p.rest), p.positional)
  BY DEF RunParsed
<1>2. subs # {} => p.rest # <<>>
  OBVIOUS
<1> HIDE DEF subs, r, s
<1>3. CASE r = Ended(RunCustom(names, args))
  BY <1>3 DEF Ended, RunCustom, GoesOn, r
<1>4. CASE \E what : r = Ended(Outcome(names, what, p))
  BY <1>4 DEF Ended, Outcome, GoesOn, r
<1>5. CASE subs # {} /\ r = Call(names, s, Tail(p.rest), p.positional)
  <2>1. r.ended = FALSE /\ r.args = Tail(p.rest) /\ r.names = Append(names, s.name)
    BY <1>5 DEF Call
  <2> QED
    BY <1>2, <1>5, <2>1 DEF GoesOn, r
<1> QED
  BY <1>1, <1>3, <1>4, <1>5

(* A subcommand is called with fewer arguments.                            *)
LEMMA FewerArguments ==
  ASSUME NEW T, NEW c, c.ended = FALSE, c.args \in Seq(Argument(T))
  PROVE  LET r == RunRecurse(c)
             rest == Parse(c.cmd, c.args, c.stored).rest
         IN /\ GoesOn(c.names, rest, r)
            /\ r.ended = FALSE => r.args \in Seq(Argument(T)) /\ Len(r.args) < Len(c.args)
<1> DEFINE r == RunRecurse(c)
           p == Parse(c.cmd, c.args, c.stored)
           acc == ParsedUpTo(c.cmd, c.args)[Len(c.args)]
<1>1. r = RunParsed(c.names, c.cmd, c.args, p)
  BY DEF RunRecurse
<1>2. GoesOn(c.names, p.rest, r)
  BY <1>1, RunGoesOn
<1>3. p.rest = ParseFlags(c.cmd, c.args).rest
  BY DEF Parse, ParseRest, Parsed
<1>4. Shaped(T, acc, Len(c.args))
  <2>1. Len(c.args) \in 0 .. Len(c.args)
    OBVIOUS
  <2> QED
    BY <2>1, ParsedShape
<1>5. ParseFlags(c.cmd, c.args).rest = acc.rest
  <2>1. ParseFlags(c.cmd, c.args) = [acc EXCEPT !.err = acc.err \/ acc.pending # ""]
    BY DEF ParseFlags
  <2> HIDE DEF acc
  <2> QED
    BY <1>4, <2>1 DEF Shaped, Fields
<1>6. p.rest \in Seq(Argument(T)) /\ Len(p.rest) <= Len(c.args)
  BY <1>3, <1>4, <1>5 DEF Shaped
<1> HIDE DEF p, r, acc
<1>7. r.ended = FALSE => p.rest # <<>> /\ r.args = Tail(p.rest)
  BY <1>2 DEF GoesOn
<1>8. p.rest # <<>> => Tail(p.rest) \in Seq(Argument(T)) /\ Len(Tail(p.rest)) = Len(p.rest) - 1
  BY <1>6
<1>9. r.ended = FALSE => r.args \in Seq(Argument(T)) /\ Len(r.args) < Len(c.args)
  <2>1. SUFFICES ASSUME r.ended = FALSE
                 PROVE  r.args \in Seq(Argument(T)) /\ Len(r.args) < Len(c.args)
    OBVIOUS
  <2>2. r.args \in Seq(Argument(T)) /\ Len(r.args) = Len(p.rest) - 1
    BY <1>7, <1>8, <2>1
  <2>3. Len(p.rest) \in Nat /\ Len(c.args) \in Nat /\ Len(p.rest) <= Len(c.args)
    BY <1>6
  <2> QED
    BY <2>2, <2>3
<1> QED
  BY <1>2, <1>9 DEF p, r

(* A call that has an outcome, or has used up an argument for each call    *)
(* before it.                                                              *)
CallShape(T, c, k, n) == c.ended = TRUE \/ (c.ended = FALSE /\ c.args \in Seq(Argument(T)) /\ Len(c.args) + k <= n)

(* The first call is that of the command.                                  *)
LEMMA FirstCall ==
  ASSUME NEW cmd, NEW args, Len(args) \in Nat
  PROVE  Calls(cmd, args)[0] = Call(<<>>, cmd, args, <<>>)
<1> DEFINE call == Calls(cmd, args)
<1>1. call = [k \in 0 .. Len(args) + 1 |-> IF k = 0 THEN Call(<<>>, cmd, args, <<>>) ELSE RunRecurse(call[k - 1])]
  BY CallsDefined
<1> HIDE DEF call
<1>2. call[0] = Call(<<>>, cmd, args, <<>>)
  BY <1>1
<1> QED
  BY <1>2 DEF call

(* Each call follows from the one before it.                               *)
LEMMA NextCall ==
  ASSUME NEW cmd, NEW args, Len(args) \in Nat, NEW k \in 0 .. Len(args)
  PROVE  Calls(cmd, args)[k + 1] = RunRecurse(Calls(cmd, args)[k])
<1> DEFINE call == Calls(cmd, args)
<1>1. call = [j \in 0 .. Len(args) + 1 |-> IF j = 0 THEN Call(<<>>, cmd, args, <<>>) ELSE RunRecurse(call[j - 1])]
  BY CallsDefined
<1>2. k + 1 \in 0 .. Len(args) + 1 /\ k + 1 # 0 /\ (k + 1) - 1 = k
  OBVIOUS
<1> HIDE DEF call
<1>3. call[k + 1] = RunRecurse(call[k])
  BY <1>1, <1>2
<1> QED
  BY <1>3 DEF call

(* The second call, or the outcome, is what the command makes of its flags. *)
LEMMA SecondCall ==
  ASSUME NEW cmd, NEW args, Len(args) \in Nat
  PROVE  Calls(cmd, args)[1] = RunParsed(<<cmd.name>>, cmd, args, Parse(cmd, args, <<>>))
<1> DEFINE c == Call(<<>>, cmd, args, <<>>)
<1>1. 0 \in 0 .. Len(args) /\ 0 + 1 = 1
  OBVIOUS
<1>2. Calls(cmd, args)[0 + 1] = RunRecurse(Calls(cmd, args)[0])
  BY <1>1, NextCall
<1>3. Calls(cmd, args)[0] = c
  BY FirstCall
<1>4. c.ended = FALSE /\ c.args = args /\ c.names = <<cmd.name>> /\ c.cmd = cmd /\ c.stored = <<>>
  BY DEF Call
<1> HIDE DEF c
<1>5. RunRecurse(c) = RunParsed(<<cmd.name>>, cmd, args, Parse(cmd, args, <<>>))
  BY <1>4 DEF RunRecurse
<1> QED
  BY <1>1, <1>2, <1>3, <1>5

(* There is a call that has an outcome.                                    *)
LEMMA CallsEnd ==
  ASSUME NEW T, NEW cmd, NEW args \in Seq(Argument(T))
  PROVE  /\ \A k \in 0 .. Len(args) + 1 : CallShape(T, Calls(cmd, args)[k], k, Len(args))
         /\ Calls(cmd, args)[Len(args) + 1].ended = TRUE
<1> DEFINE n == Len(args)
           top == n + 1
           call == Calls(cmd, args)
           Good == {k \in 0 .. top : CallShape(T, call[k], k, n)}
<1>1. n \in Nat
  OBVIOUS
<1>2. \A k \in 0 .. n : call[k + 1] = RunRecurse(call[k])
  BY <1>1, NextCall
<1>6. call[0].ended = FALSE /\ call[0].args = args
  <2>1. call[0] = Call(<<>>, cmd, args, <<>>)
    BY <1>1, FirstCall
  <2> HIDE DEF call
  <2> QED
    BY <2>1 DEF Call
<1> HIDE DEF call
<1>8. 0 \in Good
  <2>1. CallShape(T, call[0], 0, n)
    BY <1>1, <1>6 DEF CallShape, n
  <2> QED
    BY <1>1, <2>1
<1>9. ASSUME NEW k \in 0 .. top - 1, k \in Good
      PROVE  k + 1 \in Good
  <2>1. k + 1 \in 0 .. top /\ k \in 0 .. n /\ k \in Nat
    BY <1>1
  <2>2. call[k + 1] = RunRecurse(call[k])
    BY <1>2, <2>1
  <2>3. CASE call[k].ended = TRUE
    <3>1. RunRecurse(call[k]) = call[k]
      BY <2>3 DEF RunRecurse
    <3>2. CallShape(T, call[k + 1], k + 1, n)
      BY <2>2, <2>3, <3>1 DEF CallShape
    <3> QED
      BY <2>1, <3>2
  <2>4. CASE call[k].ended = FALSE
    <3>1. call[k].args \in Seq(Argument(T)) /\ Len(call[k].args) + k <= n
      BY <1>9, <2>4 DEF CallShape
    <3>2. /\ call[k + 1].ended = TRUE \/ call[k + 1].ended = FALSE
          /\ call[k + 1].ended = FALSE =>
                call[k + 1].args \in Seq(Argument(T)) /\ Len(call[k + 1].args) < Len(call[k].args)
      BY <2>2, <2>4, <3>1, FewerArguments DEF GoesOn
    <3>3. CallShape(T, call[k + 1], k + 1, n)
      <4>1. CASE call[k + 1].ended = TRUE
        BY <4>1 DEF CallShape
      <4>2. CASE call[k + 1].ended = FALSE
        <5> DEFINE l == Len(call[k].args)
                   m == Len(call[k + 1].args)
        <5>1. l \in Nat /\ m \in Nat /\ m < l /\ l + k <= n
          BY <3>1, <3>2, <4>2
        <5> HIDE DEF l, m
        <5>2. m + (k + 1) <= n
          BY <1>1, <2>1, <5>1
        <5> QED
          BY <3>2, <4>2, <5>2 DEF CallShape, m
      <4> QED
        BY <3>2, <4>1, <4>2
    <3> QED
      BY <2>1, <3>3
  <2> QED
    BY <1>9, <2>3, <2>4 DEF CallShape
<1>10. \A k \in 0 .. top : CallShape(T, call[k], k, n)
  <2>1. top \in Nat
    BY <1>1
  <2> HIDE DEF Good
  <2>2. \A k \in 0 .. top : k \in Good
    BY <1>8, <1>9, <2>1, Counting
  <2> QED
    BY <2>2 DEF Good
<1>11. call[top].ended = TRUE
  <2>1. top \in 0 .. top /\ top = n + 1
    BY <1>1 DEF top
  <2>2. CallShape(T, call[top], top, n)
    BY <1>10, <2>1
  <2> HIDE DEF top
  <2>3. CASE call[top].ended = FALSE /\ call[top].args \in Seq(Argument(T)) /\ Len(call[top].args) + top <= n
    <3> DEFINE l == Len(call[top].args)
    <3>1. l \in Nat /\ l + top <= n
      BY <2>3
    <3> HIDE DEF l, n
    <3> QED
      BY <1>1, <2>1, <3>1
  <2> QED
    BY <2>2, <2>3 DEF CallShape
<1> QED
  BY <1>10, <1>11 DEF call

(* The first call that has an outcome is the last.                         *)
LEMMA EndedStays ==
  ASSUME NEW cmd, NEW args, Len(args) \in Nat, NEW k \in 0 .. Len(args) + 1, Calls(cmd, args)[k].ended = TRUE
  PROVE  Run(cmd, args) = Calls(cmd, args)[k].outcome
<1> DEFINE n == Len(args)
           top == (n + 1) - k
           call == Calls(cmd, args)
           Same == {j \in 0 .. top : call[k + j] = call[k]}
<1>1. n \in Nat /\ k \in Nat /\ top \in Nat /\ k + top = n + 1
  OBVIOUS
<1>2. \A j \in 0 .. n : call[j + 1] = RunRecurse(call[j])
  BY NextCall
<1>3. RunRecurse(call[k]) = call[k]
  BY DEF RunRecurse
<1>4. Run(cmd, args) = call[n + 1].outcome
  BY DEF Run
<1> HIDE DEF call, n, top
<1>5. 0 \in Same
  <2>1. k + 0 = k
    BY <1>1
  <2> QED
    BY <1>1, <2>1
<1>6. ASSUME NEW j \in 0 .. top - 1, j \in Same
      PROVE  j + 1 \in Same
  <2>1. j + 1 \in 0 .. top /\ k + j \in 0 .. n /\ k + (j + 1) = (k + j) + 1
    BY <1>1
  <2>2. call[(k + j) + 1] = RunRecurse(call[k + j])
    BY <1>2, <2>1
  <2> QED
    BY <1>3, <1>6, <2>1, <2>2
<1>7. top \in Same
  <2> HIDE DEF Same
  <2>1. \A j \in 0 .. top : j \in Same
    BY <1>1, <1>5, <1>6, Counting
  <2> QED
    BY <1>1, <2>1
<1> QED
  BY <1>1, <1>4, <1>7 DEF call

(* What a command line means is what its command makes of the flags.       *)
LEMMA SameFirstCall ==
  ASSUME NEW T, NEW cmd, NEW args \in Seq(Argument(T)), NEW other \in Seq(Argument(T)),
         Len(args) = Len(other) \/ Len(args) = Len(other) + 1,
         RunParsed(<<cmd.name>>, cmd, args, Parse(cmd, args, <<>>)) =
            RunParsed(<<cmd.name>>, cmd, other, Parse(cmd, other, <<>>))
  PROVE  Run(cmd, args) = Run(cmd, other)
<1> DEFINE n == Len(other)
           call == Calls(cmd, args)
           c == Calls(cmd, other)
           Same == {j \in 0 .. n : call[j + 1] = c[j + 1]}
<1>1. n \in Nat
  OBVIOUS
<1>2. \A k \in 1 .. Len(args) : call[k + 1] = RunRecurse(call[k])
  BY NextCall
<1>3. \A k \in 1 .. n : c[k + 1] = RunRecurse(c[k])
  BY NextCall
<1>4. call[1] = c[1] /\ c[n + 1].ended = TRUE
  <2>1. call[1] = RunParsed(<<cmd.name>>, cmd, args, Parse(cmd, args, <<>>))
    <3>1. Len(args) \in Nat
      OBVIOUS
    <3> QED
      BY <3>1, SecondCall
  <2>2. c[1] = RunParsed(<<cmd.name>>, cmd, other, Parse(cmd, other, <<>>))
    BY <1>1, SecondCall
  <2>3. c[n + 1].ended = TRUE
    BY CallsEnd
  <2> HIDE DEF call, c
  <2> QED
    BY <2>1, <2>2, <2>3
<1>5. Run(cmd, args) = call[Len(args) + 1].outcome /\ Run(cmd, other) = c[n + 1].outcome
  BY DEF Run
<1>6. Len(args) = n \/ Len(args) = n + 1
  OBVIOUS
<1> HIDE DEF call, c, n
<1>7. 0 \in Same
  BY <1>1, <1>4
<1>8. ASSUME NEW j \in 0 .. n - 1, j \in Same
      PROVE  j + 1 \in Same
  <2>1. j + 1 \in 1 .. n /\ j + 1 \in 0 .. n /\ j + 1 \in 1 .. Len(args)
    BY <1>1, <1>6
  <2> QED
    BY <1>2, <1>3, <1>8, <2>1
<1>9. call[n + 1] = c[n + 1]
  <2>1. \A j \in 0 .. n : j \in Same
    <3> HIDE DEF Same
    <3> QED
      BY <1>1, <1>7, <1>8, Counting
  <2>2. n \in 0 .. n
    BY <1>1
  <2> QED
    BY <2>1, <2>2
<1>10. CASE Len(args) = n + 1
  <2>1. n + 1 \in 1 .. Len(args)
    BY <1>1, <1>10
  <2>2. call[(n + 1) + 1] = RunRecurse(c[n + 1])
    BY <1>2, <1>9, <2>1
  <2>3. RunRecurse(c[n + 1]) = c[n + 1]
    BY <1>4 DEF RunRecurse
  <2> QED
    BY <1>5, <1>10, <2>2, <2>3
<1> QED
  BY <1>5, <1>6, <1>9, <1>10

-----------------------------------------------------------------------------
(* Names of flags.                                                         *)

(* The flags of a command are help and those it declares.                  *)
LEMMA DeclaredFlags ==
  ASSUME NEW cmd, WellDeclared(cmd)
  PROVE  /\ \A i \in DOMAIN Declared(cmd) : Declared(cmd)[i].required \in BOOLEAN
         /\ DOMAIN Declared(cmd) = 1 .. Len(Declared(cmd))
         /\ Len(Declared(cmd)) \in Nat
<1> DEFINE Form == [name : STRING, letter : STRING, kind : Kinds, default : Seq(STRING), required : BOOLEAN]
<1>1. cmd.flags \in Seq(Form)
  BY DEF WellDeclared
<1> HIDE DEF Form
<1>2. Declared(cmd) \in Seq({Help} \cup Form)
  BY <1>1 DEF Declared
<1>3. DOMAIN Declared(cmd) = 1 .. Len(Declared(cmd)) /\ Len(Declared(cmd)) \in Nat
  BY <1>2
<1>4. \A i \in DOMAIN Declared(cmd) : Declared(cmd)[i] \in {Help} \cup Form
  BY <1>2
<1>5. \A f \in {Help} \cup Form : f.required \in BOOLEAN
  <2>1. Help.required \in BOOLEAN
    BY DEF Help
  <2>2. \A f \in Form : f.required \in BOOLEAN
    BY DEF Form
  <2> QED
    BY <2>1, <2>2
<1> QED
  BY <1>3, <1>4, <1>5

(* Two flags with a name in common are the same.                           *)
LEMMA NamesApart ==
  ASSUME NEW cmd, WellDeclared(cmd),
         NEW i \in DOMAIN Declared(cmd), NEW j \in DOMAIN Declared(cmd),
         NEW token \in Candidates(Declared(cmd)[i]), token \in Candidates(Declared(cmd)[j])
  PROVE  i = j
BY DEF WellDeclared

(* A flag has two names, and neither is empty.                             *)
LEMMA TwoNames ==
  ASSUME NEW cmd, WellDeclared(cmd), NEW i \in DOMAIN Declared(cmd)
  PROVE  /\ Declared(cmd)[i].name # Declared(cmd)[i].letter
         /\ "" \notin Candidates(Declared(cmd)[i])
<1>1. Declared(cmd)[i] \in ToSet(Declared(cmd))
  BY DEF ToSet
<1> QED
  BY <1>1 DEF WellDeclared

(* A flag is found by its long name.                                       *)
LEMMA FlagNamedIs ==
  ASSUME NEW cmd, WellDeclared(cmd), NEW i \in DOMAIN Declared(cmd)
  PROVE  FlagNamed(cmd, Declared(cmd)[i].name) = Declared(cmd)[i]
<1> DEFINE D == Declared(cmd)
           found == FlagNamed(cmd, D[i].name)
<1>1. D[i] \in ToSet(D)
  BY DEF ToSet
<1>2. found \in ToSet(D) /\ found.name = D[i].name
  BY <1>1 DEF FlagNamed
<1> HIDE DEF found
<1>3. PICK j \in DOMAIN D : found = D[j]
  BY <1>2 DEF ToSet
<1>4. D[i].name \in Candidates(D[i]) /\ D[i].name \in Candidates(D[j])
  BY <1>2, <1>3 DEF Candidates
<1>5. i = j
  BY <1>4, NamesApart
<1> QED
  BY <1>3, <1>5 DEF found

(* The flag set of the first k flags.                                      *)
Registered(cmd, set, k) ==
  /\ \A token : token \in DOMAIN set.alias <=> \E i \in 1 .. k : token \in Candidates(Declared(cmd)[i])
  /\ \A i \in 1 .. k : \A token \in Candidates(Declared(cmd)[i]) : set.alias[token] = Declared(cmd)[i].name
  /\ set.required = {Candidates(Declared(cmd)[i]) : i \in {j \in 1 .. k : Declared(cmd)[j].required}}

(* One more flag: nobody has its names.                                    *)
LEMMA RegisterKept ==
  ASSUME NEW cmd, WellDeclared(cmd), NEW k \in Nat, k + 1 \in DOMAIN Declared(cmd),
         NEW set, Registered(cmd, set, k)
  PROVE  Registered(cmd, RegisterFlag(set, Declared(cmd)[k + 1]), k + 1)
<1> DEFINE D == Declared(cmd)
           f == D[k + 1]
           r == RegisterFlag(set, f)
           alias == set.alias
           long == Assigned(alias, f.name, f.name)
<1>1. DOMAIN D = 1 .. Len(D) /\ Len(D) \in Nat
  BY DeclaredFlags
<1>2. f.name # f.letter /\ f.required \in BOOLEAN
  BY <1>1, TwoNames, DeclaredFlags
<1>3. \A i \in 1 .. k : i \in DOMAIN D /\ i # k + 1
  BY <1>1
<1>4. \A i \in 1 .. k : f.name \notin Candidates(D[i]) /\ f.letter \notin Candidates(D[i])
  BY <1>3, NamesApart DEF Candidates
<1>5. f.name \notin DOMAIN alias /\ f.letter \notin DOMAIN alias
  BY <1>4 DEF Registered
<1>6. DOMAIN long = DOMAIN alias \cup {f.name}
  BY DEF Assigned
<1>7. r.alias = Assigned(long, f.letter, f.name)
  BY <1>2, <1>5, <1>6 DEF RegisterFlag
<1>8. r.required = IF f.required THEN set.required \cup {Candidates(f)} ELSE set.required
  BY DEF RegisterFlag
<1>9. /\ DOMAIN r.alias = DOMAIN alias \cup Candidates(f)
      /\ r.alias[f.name] = f.name /\ r.alias[f.letter] = f.name
      /\ \A token \in DOMAIN alias : r.alias[token] = alias[token]
  <2> HIDE DEF f, r, alias
  <2> QED
    BY <1>2, <1>5, <1>7 DEF Assigned, Candidates
<1>10. \A i \in 1 .. k + 1 : i = k + 1 \/ i \in 1 .. k
  OBVIOUS
<1> HIDE DEF r, long, D
<1>11. \A token : token \in DOMAIN r.alias <=> \E i \in 1 .. k + 1 : token \in Candidates(D[i])
  <2>1. \A token : token \in DOMAIN alias <=> \E i \in 1 .. k : token \in Candidates(D[i])
    BY DEF Registered, D
  <2>2. k + 1 \in 1 .. k + 1 /\ \A i \in 1 .. k : i \in 1 .. k + 1
    OBVIOUS
  <2> QED
    BY <1>9, <1>10, <2>1, <2>2
<1>12. \A i \in 1 .. k + 1 : \A token \in Candidates(D[i]) : r.alias[token] = D[i].name
  <2>1. ASSUME NEW i \in 1 .. k, NEW token \in Candidates(D[i])
        PROVE  r.alias[token] = D[i].name
    <3>1. token \in DOMAIN alias /\ alias[token] = D[i].name
      BY DEF Registered, D
    <3> QED
      BY <1>9, <3>1
  <2>2. \A token \in Candidates(D[k + 1]) : r.alias[token] = D[k + 1].name
    BY <1>9 DEF Candidates
  <2> QED
    BY <1>10, <2>1, <2>2
<1>13. r.required = {Candidates(D[i]) : i \in {j \in 1 .. k + 1 : D[j].required}}
  <2>1. set.required = {Candidates(D[i]) : i \in {j \in 1 .. k : D[j].required}}
    BY DEF Registered, D
  <2>2. k + 1 \in 1 .. k + 1 /\ \A i \in 1 .. k : i \in 1 .. k + 1
    OBVIOUS
  <2>3. CASE D[k + 1].required
    <3>1. r.required = set.required \cup {Candidates(D[k + 1])}
      BY <1>8, <2>3
    <3> QED
      BY <1>10, <2>1, <2>2, <2>3, <3>1
  <2>4. CASE ~D[k + 1].required
    <3>1. r.required = set.required
      BY <1>8, <2>4
    <3> QED
      BY <1>10, <2>1, <2>2, <2>4, <3>1
  <2> QED
    BY <2>3, <2>4
<1> QED
  BY <1>11, <1>12, <1>13 DEF Registered, r, D

(* A command has all its flags.                                            *)
LEMMA FlagSetIs ==
  ASSUME NEW cmd, WellDeclared(cmd)
  PROVE  Registered(cmd, FlagSet(cmd), Len(Declared(cmd)))
<1> DEFINE D == Declared(cmd)
           n == Len(D)
           set == FlagSets(cmd)
           Good == {k \in 0 .. n : Registered(cmd, set[k], k)}
<1>1. n \in Nat /\ DOMAIN D = 1 .. n
  BY DeclaredFlags
<1>2. set = [k \in 0 .. n |-> IF k = 0 THEN [alias |-> <<>>, required |-> {}] ELSE RegisterFlag(set[k - 1], D[k])]
  BY <1>1, FlagSetsDefined
<1> HIDE DEF set, n
<1>3. set[0] = [alias |-> <<>>, required |-> {}]
  BY <1>1, <1>2
<1>4. 0 \in Good
  <2>1. DOMAIN set[0].alias = {} /\ set[0].required = {} /\ 1 .. 0 = {}
    BY <1>3
  <2>2. Registered(cmd, set[0], 0)
    BY <2>1 DEF Registered
  <2> QED
    BY <1>1, <2>2
<1>5. ASSUME NEW k \in 0 .. n - 1, k \in Good
      PROVE  k + 1 \in Good
  <2>1. k + 1 \in 0 .. n /\ k + 1 # 0 /\ (k + 1) - 1 = k /\ k \in Nat /\ k + 1 \in DOMAIN D
    BY <1>1
  <2>2. set[k + 1] = RegisterFlag(set[k], D[k + 1])
    BY <1>2, <2>1
  <2>3. Registered(cmd, set[k], k)
    BY <1>5
  <2>4. Registered(cmd, RegisterFlag(set[k], D[k + 1]), k + 1)
    BY <2>1, <2>3, RegisterKept
  <2> QED
    BY <2>1, <2>2, <2>4
<1>6. n \in Good
  <2> HIDE DEF Good
  <2>1. \A k \in 0 .. n : k \in Good
    BY <1>1, <1>4, <1>5, Counting
  <2> QED
    BY <1>1, <2>1
<1> QED
  BY <1>6 DEF FlagSet, set, n

(* A flag goes by either of its names.                                     *)
LEMMA FlagOfIs ==
  ASSUME NEW cmd, WellDeclared(cmd), NEW i \in DOMAIN Declared(cmd),
         NEW token \in Candidates(Declared(cmd)[i])
  PROVE  /\ HasFlag(cmd, token)
         /\ FlagSet(cmd).alias[token] = Declared(cmd)[i].name
         /\ FlagOf(cmd, token) = Declared(cmd)[i]
<1> DEFINE n == Len(Declared(cmd))
<1>1. i \in 1 .. n
  BY DeclaredFlags
<1>2. Registered(cmd, FlagSet(cmd), n)
  BY FlagSetIs
<1> HIDE DEF n
<1>3. token \in DOMAIN FlagSet(cmd).alias
  BY <1>1, <1>2 DEF Registered
<1>4. FlagSet(cmd).alias[token] = Declared(cmd)[i].name
  BY <1>1, <1>2 DEF Registered
<1>5. FlagNamed(cmd, Declared(cmd)[i].name) = Declared(cmd)[i]
  BY FlagNamedIs
<1> QED
  BY <1>3, <1>4, <1>5 DEF HasFlag, FlagOf

(* Every name is that of a flag.                                           *)
LEMMA HasFlagIs ==
  ASSUME NEW cmd, WellDeclared(cmd), NEW token, HasFlag(cmd, token)
  PROVE  \E i \in DOMAIN Declared(cmd) : token \in Candidates(Declared(cmd)[i])
<1> DEFINE n == Len(Declared(cmd))
<1>1. DOMAIN Declared(cmd) = 1 .. n
  BY DeclaredFlags
<1>2. Registered(cmd, FlagSet(cmd), n)
  BY FlagSetIs
<1> HIDE DEF n
<1> QED
  BY <1>1, <1>2 DEF Registered, HasFlag

(* What is missing is a required flag, by either name.                     *)
LEMMA MissingIs ==
  ASSUME NEW cmd, WellDeclared(cmd), NEW provided
  PROVE  Missing(cmd, provided) <=>
            \E i \in DOMAIN Declared(cmd) :
               Declared(cmd)[i].required /\ Candidates(Declared(cmd)[i]) \cap provided = {}
<1> DEFINE n == Len(Declared(cmd))
           D == Declared(cmd)
<1>1. DOMAIN D = 1 .. n
  BY DeclaredFlags
<1>2. Registered(cmd, FlagSet(cmd), n)
  BY FlagSetIs
<1>3. FlagSet(cmd).required = {Candidates(D[i]) : i \in {j \in 1 .. n : D[j].required}}
  BY <1>2 DEF Registered
<1> HIDE DEF n, D
<1> QED
  BY <1>1, <1>3 DEF Missing, D

-----------------------------------------------------------------------------
(* What is required is given.                                              *)

(* The names given are those of arguments in the place of flags.           *)
Placed(cmd, args, token) == \E i \in FlagPlaces(cmd, args) : args[i].name = token
GivenByLine(cmd, args, s) ==
  s.err = FALSE => /\ \A token \in s.provided : Placed(cmd, args, token)
                   /\ s.pending # "" => Placed(cmd, args, s.pending)

(* One more argument.                                                      *)
LEMMA GivenKept ==
  ASSUME NEW T, NEW cmd, NEW args \in Seq(Argument(T)), NEW k \in 0 .. Len(args) - 1, NEW s,
         s = ParsedUpTo(cmd, args)[k], Shaped(T, s, k), GivenByLine(cmd, args, s)
  PROVE  GivenByLine(cmd, args, ParseArg(cmd, s, args[k + 1]))
<1> DEFINE a == args[k + 1]
           r == ParseArg(cmd, s, a)
<1>1. k + 1 \in DOMAIN args /\ (k + 1) - 1 = k /\ a \in Argument(T)
  OBVIOUS
<1>2. ArgEffect(cmd, s, a, r)
  BY ParseArgEffect DEF Shaped
<1>3. Open(s) /\ s.pending = "" /\ a.form \notin {"word", "end"} /\ HasFlag(cmd, a.name) => Placed(cmd, args, a.name)
  <2>1. SUFFICES ASSUME Open(s), s.pending = "", a.form \notin {"word", "end"}, HasFlag(cmd, a.name)
                 PROVE  Placed(cmd, args, a.name)
    OBVIOUS
  <2>2. a.form \in {"flag", "assign"}
    BY <1>1, <2>1 DEF Argument
  <2>3. k + 1 \in FlagPlaces(cmd, args)
    BY <1>1, <2>1, <2>2 DEF FlagPlaces, Open, HasFlag
  <2> QED
    BY <2>3 DEF Placed
<1> HIDE DEF a, r
<1>4. SUFFICES ASSUME r.err = FALSE
               PROVE  /\ \A token \in r.provided : Placed(cmd, args, token)
                      /\ r.pending # "" => Placed(cmd, args, r.pending)
  BY DEF GivenByLine, r, a
<1>5. ASSUME NEW token, Placed(cmd, args, token), NEW text, Sets(cmd, s, token, text, r)
      PROVE  /\ \A t \in r.provided : Placed(cmd, args, t)
             /\ r.pending # "" => Placed(cmd, args, r.pending)
  BY <1>4, <1>5 DEF Sets, Refused, Provided, GivenByLine
<1>6. CASE s.err = TRUE /\ r = s
  BY <1>4, <1>6
<1>7. CASE \E x : Ends(s, x, r)
  BY <1>4, <1>7 DEF Ends, GivenByLine
<1>8. CASE Open(s) /\ s.pending # "" /\ Sets(cmd, s, s.pending, a.text, r)
  <2>1. Placed(cmd, args, s.pending)
    BY <1>8 DEF GivenByLine, Open
  <2> QED
    BY <1>5, <1>8, <2>1
<1>9. CASE Open(s) /\ s.pending = "" /\ a.form \notin {"word", "end"} /\ FlagEffect(cmd, s, a, r)
  <2>1. CASE ~HasFlag(cmd, a.name) /\ Refused(s, r)
    BY <1>4, <2>1 DEF Refused
  <2>2. CASE HasFlag(cmd, a.name) /\ Waits(s, a.name, r)
    BY <1>3, <1>9, <2>2 DEF Waits, Open, GivenByLine
  <2>3. ASSUME HasFlag(cmd, a.name), NEW text, Sets(cmd, s, a.name, text, r)
        PROVE  /\ \A t \in r.provided : Placed(cmd, args, t)
               /\ r.pending # "" => Placed(cmd, args, r.pending)
    BY <1>3, <1>5, <1>9, <2>3
  <2> QED
    BY <1>9, <2>1, <2>2, <2>3 DEF FlagEffect
<1> QED
  BY <1>2, <1>6, <1>7, <1>8, <1>9 DEF ArgEffect

(* After every argument.                                                   *)
LEMMA AllGiven ==
  ASSUME NEW T, NEW cmd, NEW args \in Seq(Argument(T))
  PROVE  GivenByLine(cmd, args, ParsedUpTo(cmd, args)[Len(args)])
<1> DEFINE n == Len(args)
           acc == ParsedUpTo(cmd, args)
           Good == {k \in 0 .. n : GivenByLine(cmd, args, acc[k])}
<1>1. n \in Nat
  OBVIOUS
<1>2. acc[0] = NothingParsed(cmd)
  BY <1>1, ParsedStart
<1>3. \A k \in 1 .. n : acc[k] = ParseArg(cmd, acc[k - 1], args[k])
  BY <1>1, ParsedNext
<1>4. \A k \in 0 .. n : Shaped(T, acc[k], k)
  BY ParsedShape
<1>5. 0 \in Good
  <2>1. GivenByLine(cmd, args, NothingParsed(cmd))
    BY DEF GivenByLine, NothingParsed
  <2> HIDE DEF acc, n
  <2> QED
    BY <1>1, <1>2, <2>1
<1>6. ASSUME NEW k \in 0 .. n - 1, k \in Good
      PROVE  k + 1 \in Good
  <2>1. k + 1 \in 0 .. n /\ k + 1 \in 1 .. n /\ (k + 1) - 1 = k /\ k \in 0 .. n
    BY <1>1
  <2>2. Shaped(T, acc[k], k) /\ GivenByLine(cmd, args, acc[k])
    BY <1>4, <1>6, <2>1
  <2>3. GivenByLine(cmd, args, ParseArg(cmd, acc[k], args[k + 1]))
    BY <2>2, GivenKept
  <2> HIDE DEF acc, n
  <2>4. acc[k + 1] = ParseArg(cmd, acc[k], args[k + 1])
    BY <1>3, <2>1
  <2> QED
    BY <2>1, <2>3, <2>4
<1>7. n \in Good
  <2> HIDE DEF Good, n
  <2>1. \A k \in 0 .. n : k \in Good
    BY <1>1, <1>5, <1>6, Counting
  <2> QED
    BY <1>1, <2>1
<1> QED
  BY <1>7

(* Words of a line: the texts of its arguments.                            *)
TextsOf(S) == {a.text : a \in S}

(* What is left for positional arguments is a part of the line.            *)
LEMMA RestOfLine ==
  ASSUME NEW T, NEW S \in SUBSET Argument(T), NEW cmd, NEW args \in Seq(S)
  PROVE  ParseFlags(cmd, args).rest \in Seq(S)
<1> DEFINE n == Len(args)
           acc == ParsedUpTo(cmd, args)
           Good == {i \in 0 .. n : acc[i].rest \in Seq(S)}
<1>1. n \in Nat /\ (\A i \in 1 .. n : args[i] \in S) /\ args \in Seq(Argument(T))
  OBVIOUS
<1>2. acc[0] = NothingParsed(cmd)
  BY <1>1, ParsedStart
<1>3. \A i \in 1 .. n : acc[i] = ParseArg(cmd, acc[i - 1], args[i])
  BY <1>1, ParsedNext
<1>4. \A i \in 0 .. n : Shaped(T, acc[i], i)
  BY <1>1, ParsedShape
<1>5. ParseFlags(cmd, args) = [acc[n] EXCEPT !.err = acc[n].err \/ acc[n].pending # ""]
  BY DEF ParseFlags
<1> HIDE DEF acc, n
<1>6. 0 \in Good
  <2>1. NothingParsed(cmd).rest = <<>>
    BY DEF NothingParsed
  <2>2. <<>> \in Seq(S) /\ 0 \in 0 .. n
    BY <1>1
  <2>3. acc[0].rest \in Seq(S)
    BY <1>2, <2>1, <2>2
  <2> QED
    BY <2>2, <2>3
<1>7. ASSUME NEW i \in 0 .. n - 1, i \in Good
      PROVE  i + 1 \in Good
  <2> DEFINE s == acc[i]
             a == args[i + 1]
             r == ParseArg(cmd, s, a)
  <2>1. i + 1 \in 0 .. n /\ i + 1 \in 1 .. n /\ (i + 1) - 1 = i /\ i \in 0 .. n
    BY <1>1
  <2>2. acc[i + 1] = r
    BY <1>3, <2>1
  <2>3. ArgEffect(cmd, s, a, r)
    BY <1>4, <2>1, ParseArgEffect DEF Shaped
  <2>4. s.rest \in Seq(S) /\ a \in S
    BY <1>1, <1>7, <2>1
  <2> HIDE DEF s, a, r
  <2>5. Append(s.rest, a) \in Seq(S) /\ <<a>> \in Seq(S)
    BY <2>4
  <2>6. ASSUME NEW token, NEW text, Sets(cmd, s, token, text, r)
        PROVE  r.rest = s.rest
    BY <2>6 DEF Sets, Refused, Provided
  <2>7. FlagEffect(cmd, s, a, r) => r.rest = s.rest
    BY <2>6 DEF FlagEffect, Refused, Waits
  <2>8. r.rest \in {s.rest, Append(s.rest, a), <<a>>}
    BY <2>3, <2>6, <2>7 DEF ArgEffect, Ends
  <2> QED
    BY <2>1, <2>2, <2>4, <2>5, <2>8
<1>8. n \in Good
  <2> HIDE DEF Good
  <2>1. \A i \in 0 .. n : i \in Good
    BY <1>1, <1>6, <1>7, Counting
  <2> QED
    BY <1>1, <2>1
<1>9. Shaped(T, acc[n], n)
  BY <1>1, <1>4
<1> QED
  BY <1>5, <1>8, <1>9 DEF Shaped, Fields

(* The positional arguments set so far, and what is left for the rest.     *)
Filled(S, nf, values) ==
  nf.required => /\ nf.name \in DOMAIN values /\ values[nf.name] # <<>>
                 /\ ToSet(values[nf.name]) \subseteq TextsOf(S)
Filling(S, cmd, s, k) ==
  /\ DOMAIN s = {"err", "left", "values"} /\ s.err \in BOOLEAN /\ s.left \in Seq(S)
  /\ s.err = FALSE => \A j \in 1 .. k : Filled(S, cmd.nonflags[j], s.values)

(* The words that are taken and those that are left are words of the line. *)
LEMMA WordsTaken ==
  ASSUME NEW S, NEW remaining \in Seq(S), NEW one \in BOOLEAN, NEW words,
         words = [i \in DOMAIN remaining |-> remaining[i].text],
         NEW taken, taken = IF one \/ words = <<>> THEN words ELSE <<Head(words)>>
  PROVE  /\ ToSet(taken) \subseteq TextsOf(S)
         /\ SubSeq(remaining, Len(taken) + 1, Len(remaining)) \in Seq(S)
<1>1. DOMAIN remaining = 1 .. Len(remaining) /\ Len(remaining) \in Nat /\ \A i \in 1 .. Len(remaining) : remaining[i] \in S
  OBVIOUS
<1>2. words \in Seq(TextsOf(S)) /\ Len(words) = Len(remaining)
  <2>1. \A i \in 1 .. Len(remaining) : remaining[i].text \in TextsOf(S)
    BY <1>1 DEF TextsOf
  <2> HIDE DEF TextsOf
  <2>2. words \in [1 .. Len(remaining) -> TextsOf(S)]
    BY <1>1, <2>1
  <2> QED
    BY <1>1, <2>2
<1>3. taken \in Seq(TextsOf(S))
  BY <1>2
<1>4. ToSet(taken) \subseteq TextsOf(S) /\ Len(taken) \in Nat
  <2> DEFINE texts == TextsOf(S)
  <2> HIDE DEF texts
  <2>1. taken \in Seq(texts)
    BY <1>3 DEF texts
  <2>2. ASSUME NEW x \in Seq(texts)
        PROVE  Len(x) \in Nat /\ DOMAIN x = 1 .. Len(x) /\ \A i \in 1 .. Len(x) : x[i] \in texts
    OBVIOUS
  <2>3. Len(taken) \in Nat /\ DOMAIN taken = 1 .. Len(taken) /\ \A i \in 1 .. Len(taken) : taken[i] \in texts
    BY <2>1, <2>2
  <2> QED
    BY <2>3 DEF ToSet, texts
<1>5. SubSeq(remaining, Len(taken) + 1, Len(remaining)) \in Seq(S)
  <2>1. \A i \in Len(taken) + 1 .. Len(remaining) : remaining[i] \in S
    BY <1>1, <1>4
  <2> QED
    BY <1>1, <1>4, <2>1
<1> QED
  BY <1>4, <1>5

(* One more positional argument.                                           *)
LEMMA FillingKept ==
  ASSUME NEW S, NEW cmd, NEW k \in Nat, NEW s, Filling(S, cmd, s, k), cmd.nonflags[k + 1].slice \in BOOLEAN
  PROVE  Filling(S, cmd, SetNonflag(s, cmd.nonflags[k + 1]), k + 1)
<1> DEFINE nf == cmd.nonflags[k + 1]
           words == [i \in DOMAIN s.left |-> s.left[i].text]
           taken == IF nf.slice \/ words = <<>> THEN words ELSE <<Head(words)>>
           kept == IF nf.name \in DOMAIN s.values /\ taken = <<>> THEN s.values[nf.name] ELSE taken
           wrong == s.err \/ ~Enough(nf, words) \/ \E i \in DOMAIN taken : ~Accepts(nf.kind, taken[i])
           after == SubSeq(s.left, Len(taken) + 1, Len(s.left))
           values == Assigned(s.values, nf.name, kept)
           r == SetNonflag(s, nf)
<1>1. DOMAIN s = {"err", "left", "values"} /\ s.err \in BOOLEAN /\ s.left \in Seq(S)
  BY DEF Filling
<1>2. wrong => r = [s EXCEPT !.err = TRUE]
  BY DEF SetNonflag
<1>3. ~wrong => r = [err |-> FALSE, left |-> after, values |-> values]
  BY DEF SetNonflag
<1>4. ~wrong => s.err = FALSE /\ (nf.required => words # <<>>)
  BY <1>1 DEF Enough
<1>5. words # <<>> => taken # <<>>
  <2>1. ASSUME NEW x
        PROVE  <<x>> # <<>>
    OBVIOUS
  <2> QED
    BY <2>1
<1>6. taken # <<>> => kept = taken
  OBVIOUS
<1>7. nf.name \in DOMAIN s.values /\ s.values[nf.name] # <<>> => kept # <<>>
  OBVIOUS
<1>8. /\ nf.name \in DOMAIN values /\ values[nf.name] = kept
      /\ \A x \in DOMAIN s.values : x \in DOMAIN values /\ (x # nf.name => values[x] = s.values[x])
  <2> HIDE DEF kept, nf
  <2> QED
    BY DEF Assigned
<1>11. ToSet(taken) \subseteq TextsOf(S) /\ after \in Seq(S)
  <2>1. nf.slice \in BOOLEAN
    OBVIOUS
  <2> HIDE DEF nf
  <2> QED
    BY <1>1, <2>1, WordsTaken
<1>12. kept = taken \/ (nf.name \in DOMAIN s.values /\ kept = s.values[nf.name])
  OBVIOUS
<1> HIDE DEF wrong, after, values, r, taken, words, kept
<1>9. CASE wrong
  BY <1>1, <1>2, <1>9 DEF Filling, r
<1>10. CASE ~wrong
  <2>1. DOMAIN r = {"err", "left", "values"} /\ r.err = FALSE /\ r.values = values /\ r.left \in Seq(S)
    BY <1>3, <1>10, <1>11
  <2>2. Filled(S, nf, values)
    BY <1>4, <1>5, <1>6, <1>8, <1>10, <1>11 DEF Filled
  <2>3. ASSUME NEW j \in 1 .. k
        PROVE  Filled(S, cmd.nonflags[j], values)
    <3>1. Filled(S, cmd.nonflags[j], s.values)
      BY <1>4, <1>10 DEF Filling
    <3> HIDE DEF nf
    <3> QED
      BY <1>7, <1>8, <1>11, <1>12, <3>1 DEF Filled
  <2>4. \A j \in 1 .. k + 1 : j = k + 1 \/ j \in 1 .. k
    OBVIOUS
  <2>5. \A j \in 1 .. k + 1 : Filled(S, cmd.nonflags[j], values)
    BY <2>2, <2>3, <2>4
  <2> QED
    BY <2>1, <2>5 DEF Filling, r
<1> QED
  BY <1>9, <1>10

(* A line that has all positional arguments gives those that are required. *)
LEMMA AllFilled ==
  ASSUME NEW S, NEW cmd, Len(cmd.nonflags) \in Nat, \A j \in 1 .. Len(cmd.nonflags) : cmd.nonflags[j].slice \in BOOLEAN,
         NEW rest \in Seq(S), NEW stored
  PROVE  Filling(S, cmd, SetNonflags(cmd, rest, stored), Len(cmd.nonflags))
<1> DEFINE n == Len(cmd.nonflags)
           acc == NonflagsSet(cmd, rest, stored)
           Good == {k \in 0 .. n : Filling(S, cmd, acc[k], k)}
<1>1. n \in Nat /\ \A j \in 1 .. n : cmd.nonflags[j].slice \in BOOLEAN
  OBVIOUS
<1>2. acc = [k \in 0 .. n |-> IF k = 0 THEN [err |-> FALSE, left |-> rest, values |-> stored]
                              ELSE SetNonflag(acc[k - 1], cmd.nonflags[k])]
  BY NonflagsDefined
<1> HIDE DEF acc, n
<1>3. 0 \in Good
  <2>1. acc[0] = [err |-> FALSE, left |-> rest, values |-> stored]
    BY <1>1, <1>2
  <2>2. 1 .. 0 = {}
    OBVIOUS
  <2>3. Filling(S, cmd, acc[0], 0)
    BY <2>1, <2>2 DEF Filling
  <2> QED
    BY <1>1, <2>3
<1>4. ASSUME NEW k \in 0 .. n - 1, k \in Good
      PROVE  k + 1 \in Good
  <2>1. k + 1 \in 0 .. n /\ k + 1 \in 1 .. n /\ k + 1 # 0 /\ (k + 1) - 1 = k /\ k \in Nat
    BY <1>1
  <2>2. acc[k + 1] = SetNonflag(acc[k], cmd.nonflags[k + 1])
    BY <1>2, <2>1
  <2>3. Filling(S, cmd, acc[k], k)
    BY <1>4
  <2>4. Filling(S, cmd, SetNonflag(acc[k], cmd.nonflags[k + 1]), k + 1)
    BY <1>1, <2>1, <2>3, FillingKept
  <2> QED
    BY <2>1, <2>2, <2>4
<1>5. n \in Good
  <2> HIDE DEF Good
  <2>1. \A k \in 0 .. n : k \in Good
    BY <1>1, <1>3, <1>4, Counting
  <2> QED
    BY <1>1, <2>1
<1> QED
  BY <1>5 DEF SetNonflags, acc, n

(* A call that is parsed without an error gives what is required.          *)
LEMMA CallGives ==
  ASSUME NEW T, NEW c, WellDeclared(c.cmd), c.args \in Seq(Argument(T)),
         ~Parse(c.cmd, c.args, c.stored).err
  PROVE  FlagsGiven(c) /\ WordsGiven(c, Parse(c.cmd, c.args, c.stored).positional)
<1> DEFINE cmd == c.cmd
           args == c.args
           flags == ParseFlags(cmd, args)
           acc == ParsedUpTo(cmd, args)[Len(args)]
           set == SetNonflags(cmd, flags.rest, c.stored)
           p == Parse(cmd, args, c.stored)
           S == ToSet(args)
<1>1. ~p.err /\ args \in Seq(Argument(T)) /\ WellDeclared(cmd)
  OBVIOUS
<1>2. ~flags.err /\ ~Missing(cmd, flags.provided) /\ ~set.err /\ p.positional = set.values
  BY <1>1 DEF Parse, ParseRest, Parsed
<1>3. cmd.nonflags \in Seq([name : STRING, slice : BOOLEAN, required : BOOLEAN, kind : Kinds])
  BY <1>1 DEF WellDeclared
<1>4. /\ DOMAIN cmd.nonflags = 1 .. Len(cmd.nonflags) /\ Len(cmd.nonflags) \in Nat
      /\ \A j \in 1 .. Len(cmd.nonflags) : cmd.nonflags[j].slice \in BOOLEAN
  <2> DEFINE Nonflag == [name : STRING, slice : BOOLEAN, required : BOOLEAN, kind : Kinds]
  <2>1. \A nf \in Nonflag : nf.slice \in BOOLEAN
    OBVIOUS
  <2>2. cmd.nonflags \in Seq(Nonflag)
    BY <1>3
  <2> HIDE DEF Nonflag, cmd
  <2>3. \A j \in 1 .. Len(cmd.nonflags) : cmd.nonflags[j] \in Nonflag
    BY <2>2
  <2> QED
    BY <2>1, <2>2, <2>3
<1>5. Shaped(T, acc, Len(args))
  <2>1. Len(args) \in 0 .. Len(args)
    BY <1>1
  <2> QED
    BY <1>1, <2>1, ParsedShape
<1>6. GivenByLine(cmd, args, acc)
  BY <1>1, AllGiven
<1>7. flags = [acc EXCEPT !.err = acc.err \/ acc.pending # ""]
  BY DEF ParseFlags
<1>8. flags.rest \in Seq(S)
  <2>1. S \in SUBSET Argument(T) /\ args \in Seq(S)
    <3> HIDE DEF args
    <3>1. \A i \in 1 .. Len(args) : args[i] \in S
      BY <1>1 DEF ToSet
    <3>2. S \in SUBSET Argument(T)
      BY <1>1 DEF ToSet
    <3> HIDE DEF S
    <3> QED
      BY <1>1, <3>1, <3>2
  <2> HIDE DEF S, args, cmd
  <2> QED
    BY <2>1, RestOfLine
<1> HIDE DEF S
<1>9. Filling(S, cmd, set, Len(cmd.nonflags))
  BY <1>4, <1>8, AllFilled
<1> HIDE DEF flags, acc, set, p, cmd, args
<1>10. flags.provided = acc.provided /\ acc.err = FALSE
  BY <1>2, <1>5, <1>7 DEF Shaped, Fields
<1>11. ASSUME NEW f \in ToSet(Declared(cmd)), f.required
       PROVE  \E i \in FlagPlaces(cmd, args) : FlagSet(cmd).alias[args[i].name] = f.name
  <2>1. PICK j \in DOMAIN Declared(cmd) : f = Declared(cmd)[j]
    BY DEF ToSet
  <2>2. PICK token \in Candidates(f) : token \in flags.provided
    BY <1>1, <1>2, <1>11, <2>1, MissingIs
  <2>3. PICK i \in FlagPlaces(cmd, args) : args[i].name = token
    BY <1>6, <1>10, <2>2 DEF GivenByLine, Placed
  <2>4. FlagSet(cmd).alias[token] = f.name
    BY <1>1, <2>1, <2>2, FlagOfIs
  <2> QED
    BY <2>3, <2>4
<1>12. ASSUME NEW nf \in ToSet(cmd.nonflags), nf.required
       PROVE  p.positional[nf.name] # <<>> /\ ToSet(p.positional[nf.name]) \subseteq TextsOf(S)
  <2>1. PICK j \in 1 .. Len(cmd.nonflags) : nf = cmd.nonflags[j]
    BY <1>4 DEF ToSet
  <2>2. Filled(S, nf, set.values)
    BY <1>2, <1>9, <2>1 DEF Filling
  <2> QED
    BY <1>2, <1>12, <2>2 DEF Filled
<1>13. FlagsGiven(c)
  BY <1>11 DEF FlagsGiven, cmd, args
<1>14. WordsGiven(c, p.positional)
  BY <1>12 DEF WordsGiven, cmd, args, S, TextsOf
<1> QED
  BY <1>13, <1>14 DEF p, cmd, args

(* What a call comes to: its outcome, or the call of a subcommand.         *)
Follows(names, cmd, args, p, r) ==
  \/ cmd.custom /\ r = Ended(RunCustom(names, args))
  \/ \E what \in {"help", "error"} : r = Ended(Outcome(names, what, p))
  \/ ~p.err /\ r = Ended(Outcome(names, "run", p))
  \/ ~p.err /\ \E s \in ToSet(cmd.subs) : r = Call(names, s, Tail(p.rest), p.positional)

LEMMA RunFollows ==
  ASSUME NEW names, NEW cmd, NEW args, NEW p
  PROVE  Follows(names, cmd, args, p, RunParsed(names, cmd, args, p))
<1> DEFINE subs == {s \in ToSet(cmd.subs) : p.rest # <<>> /\ s.name = p.rest[1].text}
           r == RunParsed(names, cmd, args, p)
           x == CHOOSE s \in subs : TRUE
<1>1. \/ cmd.custom /\ r = Ended(RunCustom(names, args))
      \/ \E what \in {"help", "error"} : r = Ended(Outcome(names, what, p))
      \/ ~p.err /\ r = Ended(Outcome(names, "run", p))
      \/ ~p.err /\ subs # {} /\ r = Call(names, x, Tail(p.rest), p.positional)
  BY DEF RunParsed
<1>2. subs # {} => x \in ToSet(cmd.subs)
  OBVIOUS
<1> HIDE DEF subs, r, x
<1> QED
  BY <1>1, <1>2 DEF Follows, r

(* A call is that of a command of D, and has one more name than there were *)
(* calls before it.                                                        *)
CallOf(T, D, c, k) ==
  \/ c.ended = TRUE
  \/ /\ c.ended = FALSE /\ c.cmd \in D /\ c.args \in Seq(Argument(T))
     /\ c.names \in Seq({x.name : x \in D}) /\ Len(c.names) = k + 1
ClosedSet(D) == \A x \in D : WellDeclared(x) /\ ToSet(x.subs) \subseteq D

(* The subcommands of commands of D are of D.                              *)
LEMMA OneMoreCall ==
  ASSUME NEW T, NEW D, ClosedSet(D), NEW k \in Nat, NEW c, CallOf(T, D, c, k)
  PROVE  CallOf(T, D, RunRecurse(c), k + 1)
<1> DEFINE r == RunRecurse(c)
           p == Parse(c.cmd, c.args, c.stored)
           Names == {x.name : x \in D}
<1>1. CASE c.ended = TRUE
  BY <1>1 DEF RunRecurse, CallOf
<1>2. CASE c.ended = FALSE
  <2>1. c.cmd \in D /\ c.args \in Seq(Argument(T)) /\ c.names \in Seq(Names) /\ Len(c.names) = k + 1
    BY <1>2 DEF CallOf
  <2>2. r.ended = FALSE => r.args \in Seq(Argument(T))
    BY <1>2, <2>1, FewerArguments
  <2>3. r = RunParsed(c.names, c.cmd, c.args, p)
    BY <1>2 DEF RunRecurse
  <2> HIDE DEF r, p
  <2>4. Follows(c.names, c.cmd, c.args, p, r)
    BY <2>3, RunFollows
  <2>5. CASE \E outcome : r = Ended(outcome)
    BY <2>5 DEF Ended, CallOf, r
  <2>6. ASSUME NEW s \in ToSet(c.cmd.subs), r = Call(c.names, s, Tail(p.rest), p.positional)
        PROVE  CallOf(T, D, r, k + 1)
    <3>1. r.ended = FALSE /\ r.cmd = s /\ r.names = Append(c.names, s.name)
      BY <2>6 DEF Call
    <3>2. s \in D
      BY <2>1, <2>6 DEF ClosedSet
    <3>3. s.name \in Names
      BY <3>2
    <3> HIDE DEF Names
    <3>4. Append(c.names, s.name) \in Seq(Names) /\ Len(Append(c.names, s.name)) = (k + 1) + 1
      BY <2>1, <3>3
    <3> QED
      BY <2>2, <3>1, <3>2, <3>4 DEF CallOf, Names
  <2> QED
    BY <2>4, <2>5, <2>6 DEF Follows, r
<1> QED
  BY <1>1, <1>2 DEF CallOf

(* Every call of a line is that of a command of D.                         *)
LEMMA CallsOf ==
  ASSUME NEW T, NEW D, ClosedSet(D), NEW cmd \in D, NEW args \in Seq(Argument(T))
  PROVE  \A k \in 0 .. Len(args) + 1 : CallOf(T, D, Calls(cmd, args)[k], k)
<1> DEFINE top == Len(args) + 1
           call == Calls(cmd, args)
           Good == {k \in 0 .. top : CallOf(T, D, call[k], k)}
<1>1. Len(args) \in Nat /\ top \in Nat /\ top - 1 = Len(args)
  OBVIOUS
<1>2. \A k \in 0 .. Len(args) : call[k + 1] = RunRecurse(call[k])
  BY <1>1, NextCall
<1>3. call[0] = Call(<<>>, cmd, args, <<>>)
  BY <1>1, FirstCall
<1> HIDE DEF call, top
<1>4. 0 \in Good
  <2>1. /\ call[0].ended = FALSE /\ call[0].cmd = cmd /\ call[0].args = args
        /\ call[0].names = Append(<<>>, cmd.name)
    BY <1>3 DEF Call
  <2> DEFINE Names == {x.name : x \in D}
  <2>2. cmd.name \in Names
    OBVIOUS
  <2> HIDE DEF Names
  <2>3. Append(<<>>, cmd.name) \in Seq(Names) /\ Len(Append(<<>>, cmd.name)) = 0 + 1
    BY <2>2
  <2>4. CallOf(T, D, call[0], 0)
    BY <2>1, <2>3 DEF CallOf, Names
  <2> QED
    BY <1>1, <2>4
<1>5. ASSUME NEW k \in 0 .. top - 1, k \in Good
      PROVE  k + 1 \in Good
  <2>1. k \in Nat /\ k \in 0 .. Len(args) /\ k + 1 \in 0 .. top
    BY <1>1
  <2>2. call[k + 1] = RunRecurse(call[k]) /\ CallOf(T, D, call[k], k)
    BY <1>2, <1>5, <2>1
  <2>3. CallOf(T, D, RunRecurse(call[k]), k + 1)
    BY <2>1, <2>2, OneMoreCall
  <2> QED
    BY <2>1, <2>2, <2>3
<1> HIDE DEF Good
<1>6. \A k \in 0 .. top : k \in Good
  BY <1>1, <1>4, <1>5, Counting
<1> QED
  BY <1>6 DEF Good, top, call

(* A call that has no outcome yet, or one further down than k calls.       *)
BeyondCall(c, k) == c.ended = FALSE \/ (c.ended = TRUE /\ Len(c.outcome.commands) > k)

LEMMA BeyondKept ==
  ASSUME NEW T, NEW D, NEW j \in Nat, NEW k \in Nat, k <= j, NEW c, CallOf(T, D, c, j), BeyondCall(c, k)
  PROVE  BeyondCall(RunRecurse(c), k)
<1>1. CASE c.ended = TRUE
  BY <1>1 DEF RunRecurse
<1>2. CASE c.ended = FALSE
  <2> DEFINE r == RunRecurse(c)
             rest == Parse(c.cmd, c.args, c.stored).rest
  <2>1. c.args \in Seq(Argument(T)) /\ Len(c.names) = j + 1
    BY <1>2 DEF CallOf
  <2>2. GoesOn(c.names, rest, r)
    BY <1>2, <2>1, FewerArguments
  <2>3. j + 1 > k
    OBVIOUS
  <2> HIDE DEF r, rest
  <2> QED
    BY <2>1, <2>2, <2>3 DEF GoesOn, BeyondCall, r
<1> QED
  BY <1>1, <1>2 DEF BeyondCall

(* The outcome of a line is further down than any of its calls that is     *)
(* followed by another.                                                    *)
LEMMA OutcomeBeyond ==
  ASSUME NEW T, NEW D, ClosedSet(D), NEW cmd \in D, NEW args \in Seq(Argument(T)),
         NEW k \in 0 .. Len(args) + 1, Calls(cmd, args)[k].ended = FALSE
  PROVE  Len(Run(cmd, args).commands) > k
<1> DEFINE n == Len(args)
           top == (n + 1) - k
           call == Calls(cmd, args)
           Good == {j \in 0 .. top : BeyondCall(call[k + j], k)}
<1>1. n \in Nat /\ k \in Nat /\ top \in Nat /\ k + top = n + 1
  OBVIOUS
<1>2. \A j \in 0 .. n : call[j + 1] = RunRecurse(call[j])
  BY <1>1, NextCall
<1>3. \A j \in 0 .. n + 1 : CallOf(T, D, call[j], j)
  BY CallsOf
<1>4. Run(cmd, args) = call[n + 1].outcome
  BY DEF Run
<1>5. call[n + 1].ended = TRUE
  BY CallsEnd
<1>6. call[k].ended = FALSE
  OBVIOUS
<1> HIDE DEF call, n, top
<1>7. 0 \in Good
  <2>1. k + 0 = k /\ 0 \in 0 .. top
    BY <1>1
  <2> QED
    BY <1>6, <2>1 DEF BeyondCall
<1>8. ASSUME NEW j \in 0 .. top - 1, j \in Good
      PROVE  j + 1 \in Good
  <2> DEFINE i == k + j
  <2>1. j + 1 \in 0 .. top /\ i \in 0 .. n /\ i \in 0 .. n + 1 /\ i \in Nat /\ k <= i /\ k + (j + 1) = i + 1
    BY <1>1
  <2>2. BeyondCall(call[i], k)
    BY <1>8
  <2> HIDE DEF i
  <2>3. CallOf(T, D, call[i], i) /\ call[i + 1] = RunRecurse(call[i])
    BY <1>2, <1>3, <2>1
  <2>4. BeyondCall(RunRecurse(call[i]), k)
    BY <1>1, <2>1, <2>2, <2>3, BeyondKept
  <2> QED
    BY <2>1, <2>3, <2>4
<1>9. BeyondCall(call[n + 1], k)
  <2> HIDE DEF Good
  <2>1. \A j \in 0 .. top : j \in Good
    BY <1>1, <1>7, <1>8, Counting
  <2>2. top \in Good
    BY <1>1, <2>1
  <2> QED
    BY <1>1, <2>2 DEF Good
<1> QED
  BY <1>4, <1>5, <1>9 DEF BeyondCall

(* A command or subcommand runs only with what is required on the way to   *)
(* it.                                                                     *)
LEMMA RequirementsMet ==
  ASSUME NEW T, NEW D, ClosedSet(D), NEW cmd \in D, NEW args \in Seq(Argument(T))
  PROVE  RequiredGiven(cmd, args)
<1> DEFINE n == Len(args)
           run == Run(cmd, args)
           call == Calls(cmd, args)
<1>1. n \in Nat
  OBVIOUS
<1>2. \A k \in 0 .. n + 1 : CallOf(T, D, call[k], k)
  BY CallsOf
<1>3. \A k \in 0 .. n : call[k + 1] = RunRecurse(call[k])
  BY <1>1, NextCall
<1>4. call[n + 1].ended = TRUE
  BY CallsEnd
<1>5. \A k \in 0 .. n + 1 : call[k].ended = TRUE => run = call[k].outcome
  BY <1>1, EndedStays
<1>6. \A k \in 0 .. n + 1 : call[k].ended = FALSE => Len(run.commands) > k
  BY OutcomeBeyond
<1> HIDE DEF n, run, call
<1>7. ASSUME run.outcome = "run", NEW k \in 0 .. n + 1, ~call[k].ended, ~call[k].cmd.custom
      PROVE  FlagsGiven(call[k]) /\ (call[k].names = run.commands => WordsGiven(call[k], run.positional))
  <2> DEFINE c == call[k]
             p == Parse(c.cmd, c.args, c.stored)
             then == call[k + 1]
  <2>1. k \in 0 .. n /\ k \in Nat /\ k + 1 \in 0 .. n + 1
    <3>1. k # n + 1
      BY <1>4, <1>7
    <3> QED
      BY <1>1, <3>1
  <2>2. c.ended = FALSE /\ c.cmd \in D /\ c.args \in Seq(Argument(T)) /\ Len(c.names) = k + 1
    BY <1>2, <1>7 DEF CallOf
  <2>3. then = RunParsed(c.names, c.cmd, c.args, p)
    BY <1>3, <2>1, <2>2 DEF RunRecurse
  <2>4. WellDeclared(c.cmd)
    BY <2>2 DEF ClosedSet
  <2>5. ~p.err => FlagsGiven(c) /\ WordsGiven(c, p.positional)
    BY <2>2, <2>4, CallGives
  <2>6. then.ended = TRUE => run = then.outcome
    BY <1>5, <2>1
  <2>7. then.ended = FALSE => Len(run.commands) > k + 1
    BY <1>6, <2>1
  <2>8. ~c.cmd.custom
    BY <1>7
  <2> HIDE DEF c, p, then
  <2>9. Follows(c.names, c.cmd, c.args, p, then)
    BY <2>3, RunFollows
  <2>10. ASSUME NEW what \in {"help", "error"}, then = Ended(Outcome(c.names, what, p))
         PROVE  FALSE
    <3>1. then.ended = TRUE /\ then.outcome.outcome = what
      BY <2>10 DEF Ended, Outcome
    <3> QED
      BY <1>7, <2>6, <3>1
  <2>11. CASE ~p.err /\ then = Ended(Outcome(c.names, "run", p))
    <3>1. then.ended = TRUE /\ then.outcome.positional = p.positional
      BY <2>11 DEF Ended, Outcome
    <3> QED
      BY <2>5, <2>6, <2>11, <3>1 DEF c
  <2>12. CASE ~p.err /\ \E s \in ToSet(c.cmd.subs) : then = Call(c.names, s, Tail(p.rest), p.positional)
    <3>1. then.ended = FALSE
      BY <2>12 DEF Call
    <3>2. c.names # run.commands
      <4>1. ~(k + 1 > k + 1)
        BY <2>1
      <4> QED
        BY <2>2, <2>7, <3>1, <4>1
    <3> QED
      BY <2>5, <2>12, <3>2 DEF c
  <2> QED
    BY <2>8, <2>9, <2>10, <2>11, <2>12 DEF Follows
<1> QED
  BY <1>7 DEF RequiredGiven, n, run, call

-----------------------------------------------------------------------------
(* A flag by its other name, and with its value joined to it.              *)

(* Two lines parsed so far that mean the same: they agree on everything    *)
(* but on which of its names a flag was given by.                          *)
Meets(cmd, j, provided) == Candidates(Declared(cmd)[j]) \cap provided # {}
SameSoFar(cmd, s, r) ==
  /\ s.rest = r.rest /\ s.done = r.done /\ s.err = r.err /\ s.values = r.values
  /\ s.err = FALSE => \A j \in DOMAIN Declared(cmd) : Meets(cmd, j, s.provided) <=> Meets(cmd, j, r.provided)
SameWait(cmd, s, r) ==
  \/ s.pending = "" /\ r.pending = ""
  \/ \E j \in DOMAIN Declared(cmd) : {s.pending, r.pending} \subseteq Candidates(Declared(cmd)[j])
Alike(cmd, s, r) == SameSoFar(cmd, s, r) /\ (s.err = FALSE => SameWait(cmd, s, r))

(* A flag is set by either name.                                           *)
LEMMA SetsAlike ==
  ASSUME NEW cmd, WellDeclared(cmd), NEW s, NEW r, SameSoFar(cmd, s, r),
         NEW j \in DOMAIN Declared(cmd),
         NEW token \in Candidates(Declared(cmd)[j]), NEW other \in Candidates(Declared(cmd)[j]), NEW text,
         NEW t, Sets(cmd, s, token, text, t), NEW u, Sets(cmd, r, other, text, u)
  PROVE  Alike(cmd, t, u)
<1> DEFINE D == Declared(cmd)
<1>1. FlagOf(cmd, token) = D[j] /\ FlagOf(cmd, other) = D[j]
  BY FlagOfIs
<1>2. Fitting(cmd, token, text) <=> Fitting(cmd, other, text)
  BY <1>1 DEF Fitting
<1>3. Given(cmd, s.values, token, text) = Given(cmd, r.values, other, text)
  BY <1>1 DEF Given, SameSoFar
<1>4. CASE ~Fitting(cmd, token, text)
  <2>1. Refused(s, t) /\ Refused(r, u)
    BY <1>2, <1>4 DEF Sets
  <2> QED
    BY <2>1 DEF Refused, Alike, SameSoFar
<1>5. CASE Fitting(cmd, token, text)
  <2>1. Provided(cmd, s, token, text, t) /\ Provided(cmd, r, other, text, u)
    BY <1>2, <1>5 DEF Sets
  <2>2. ASSUME s.err = FALSE, NEW k \in DOMAIN D
        PROVE  Meets(cmd, k, s.provided \cup {token}) <=> Meets(cmd, k, r.provided \cup {other})
    <3>1. Meets(cmd, k, s.provided) <=> Meets(cmd, k, r.provided)
      BY <2>2 DEF SameSoFar
    <3>2. CASE k = j
      BY <3>2 DEF Meets
    <3>3. CASE k # j
      <4>1. token \notin Candidates(D[k]) /\ other \notin Candidates(D[k])
        BY <3>3, NamesApart
      <4> QED
        BY <3>1, <4>1 DEF Meets
    <3> QED
      BY <3>2, <3>3
  <2>3. /\ t.rest = u.rest /\ t.done = u.done /\ t.err = u.err /\ t.values = u.values
        /\ t.err = s.err /\ t.pending = "" /\ u.pending = ""
        /\ t.provided = s.provided \cup {token} /\ u.provided = r.provided \cup {other}
    BY <1>3, <2>1 DEF Provided, SameSoFar
  <2>4. SameSoFar(cmd, t, u)
    BY <2>2, <2>3 DEF SameSoFar
  <2> QED
    BY <2>3, <2>4 DEF Alike, SameWait
<1> QED
  BY <1>4, <1>5

(* An argument in the place of a flag, by either name.                     *)
LEMMA FlagsAlike ==
  ASSUME NEW cmd, WellDeclared(cmd), NEW s, NEW r, SameSoFar(cmd, s, r), s.pending = "", r.pending = "",
         NEW a, NEW b, a.form = b.form, a.value = b.value,
         a.name = b.name \/ \E j \in DOMAIN Declared(cmd) : {a.name, b.name} \subseteq Candidates(Declared(cmd)[j]),
         NEW t, FlagEffect(cmd, s, a, t), NEW u, FlagEffect(cmd, r, b, u)
  PROVE  Alike(cmd, t, u)
<1> DEFINE D == Declared(cmd)
<1>1. CASE ~HasFlag(cmd, a.name)
  <2>1. a.name = b.name
    BY <1>1, FlagOfIs
  <2>2. Refused(s, t) /\ Refused(r, u)
    BY <1>1, <2>1 DEF FlagEffect
  <2> QED
    BY <2>2 DEF Refused, Alike, SameSoFar
<1>2. CASE HasFlag(cmd, a.name)
  <2>1. PICK j \in DOMAIN D : {a.name, b.name} \subseteq Candidates(D[j])
    BY <1>2, HasFlagIs
  <2>2. /\ a.name \in Candidates(D[j]) /\ b.name \in Candidates(D[j])
        /\ HasFlag(cmd, b.name) /\ FlagOf(cmd, a.name) = D[j] /\ FlagOf(cmd, b.name) = D[j]
    BY <2>1, FlagOfIs
  <2>3. ASSUME NEW text, Sets(cmd, s, a.name, text, t), Sets(cmd, r, b.name, text, u)
        PROVE  Alike(cmd, t, u)
    BY <2>2, <2>3, SetsAlike
  <2>4. CASE a.form = "assign"
    <3>1. Sets(cmd, s, a.name, a.value, t) /\ Sets(cmd, r, b.name, a.value, u)
      BY <1>2, <2>2, <2>4 DEF FlagEffect
    <3> QED
      BY <2>3, <3>1
  <2>5. CASE a.form # "assign" /\ D[j].kind = "bool"
    <3>1. Sets(cmd, s, a.name, "true", t) /\ Sets(cmd, r, b.name, "true", u)
      BY <1>2, <2>2, <2>5 DEF FlagEffect
    <3> QED
      BY <2>3, <3>1
  <2>6. CASE a.form # "assign" /\ D[j].kind # "bool"
    <3>1. Waits(s, a.name, t) /\ Waits(r, b.name, u)
      BY <1>2, <2>2, <2>6 DEF FlagEffect
    <3> QED
      BY <2>1, <3>1 DEF Waits, Alike, SameSoFar, SameWait
  <2> QED
    BY <2>4, <2>5, <2>6
<1> QED
  BY <1>1, <1>2

(* The same argument after lines that mean the same.                       *)
LEMMA AlikeKept ==
  ASSUME NEW T, NEW cmd, WellDeclared(cmd), NEW k, NEW m, NEW s, NEW r,
         Shaped(T, s, k), Shaped(T, r, m), Alike(cmd, s, r), NEW a
  PROVE  Alike(cmd, ParseArg(cmd, s, a), ParseArg(cmd, r, a))
<1> DEFINE t == ParseArg(cmd, s, a)
           u == ParseArg(cmd, r, a)
           D == Declared(cmd)
<1>1. ArgEffect(cmd, s, a, t) /\ ArgEffect(cmd, r, a, u)
  BY ParseArgEffect DEF Shaped
<1>2. SameSoFar(cmd, s, r) /\ (s.err = FALSE => SameWait(cmd, s, r))
  BY DEF Alike
<1>3. s.err = r.err /\ s.done = r.done /\ s.rest = r.rest
  BY <1>2 DEF SameSoFar
<1>4. s.err \in BOOLEAN /\ s.done \in BOOLEAN
  BY DEF Shaped
<1> HIDE DEF t, u, D
<1>5. CASE s.err = TRUE
  <2>1. t = s /\ u = r
    BY <1>1, <1>3, <1>5 DEF ArgEffect, Open
  <2> QED
    BY <2>1 DEF t, u
<1>6. ASSUME s.err = FALSE, NEW x, Ends(s, x, t), Ends(r, x, u)
      PROVE  Alike(cmd, t, u)
  <2>1. /\ t.rest = u.rest /\ t.done = u.done /\ t.err = u.err /\ t.values = u.values
        /\ t.pending = s.pending /\ u.pending = r.pending /\ t.provided = s.provided /\ u.provided = r.provided
        /\ t.err = s.err
    BY <1>2, <1>6 DEF Ends, SameSoFar
  <2>2. SameSoFar(cmd, t, u)
    BY <1>2, <2>1 DEF SameSoFar
  <2>3. SameWait(cmd, t, u)
    BY <1>2, <1>6, <2>1 DEF SameWait
  <2> QED
    BY <2>2, <2>3 DEF Alike
<1>7. CASE s.err = FALSE /\ s.done = TRUE
  <2>1. Ends(s, Append(s.rest, a), t) /\ Ends(r, Append(s.rest, a), u)
    BY <1>1, <1>3, <1>7 DEF ArgEffect, Open
  <2> QED
    BY <1>6, <1>7, <2>1 DEF t, u
<1>8. CASE Open(s) /\ s.pending # ""
  <2>1. PICK j \in DOMAIN Declared(cmd) : {s.pending, r.pending} \subseteq Candidates(Declared(cmd)[j])
    BY <1>2, <1>8 DEF SameWait, Open
  <2>2. s.pending \in Candidates(Declared(cmd)[j]) /\ r.pending \in Candidates(Declared(cmd)[j]) /\ r.pending # ""
    BY <2>1, TwoNames
  <2>3. Open(r)
    BY <1>3, <1>8 DEF Open
  <2>4. Sets(cmd, s, s.pending, a.text, t) /\ Sets(cmd, r, r.pending, a.text, u)
    BY <1>1, <1>8, <2>2, <2>3 DEF ArgEffect, Open
  <2> QED
    BY <1>2, <2>2, <2>4, SetsAlike DEF t, u
<1>9. CASE Open(s) /\ s.pending = ""
  <2>1. r.pending = ""
    BY <1>2, <1>9, TwoNames DEF SameWait, Open
  <2>2. Open(r)
    BY <1>3, <1>9 DEF Open
  <2>3. CASE a.form = "word"
    <3>1. Ends(s, <<a>>, t) /\ Ends(r, <<a>>, u)
      BY <1>1, <1>9, <2>1, <2>2, <2>3 DEF ArgEffect, Open
    <3> QED
      BY <1>6, <1>9, <3>1 DEF t, u, Open
  <2>4. CASE a.form = "end"
    <3>1. Ends(s, s.rest, t) /\ Ends(r, s.rest, u)
      BY <1>1, <1>3, <1>9, <2>1, <2>2, <2>4 DEF ArgEffect, Open
    <3> QED
      BY <1>6, <1>9, <3>1 DEF t, u, Open
  <2>5. CASE a.form \notin {"word", "end"}
    <3>1. FlagEffect(cmd, s, a, t) /\ FlagEffect(cmd, r, a, u)
      BY <1>1, <1>9, <2>1, <2>2, <2>5 DEF ArgEffect, Open
    <3> QED
      BY <1>2, <1>9, <2>1, <3>1, FlagsAlike DEF t, u
  <2> QED
    BY <2>3, <2>4, <2>5
<1> QED
  BY <1>4, <1>5, <1>7, <1>8, <1>9 DEF Open

(* Lines that mean the same are parsed to the same.                        *)
LEMMA ParsedAlike ==
  ASSUME NEW T, NEW cmd, WellDeclared(cmd),
         NEW args \in Seq(Argument(T)), NEW other \in Seq(Argument(T)),
         Alike(cmd, ParsedUpTo(cmd, args)[Len(args)], ParsedUpTo(cmd, other)[Len(other)])
  PROVE  Parse(cmd, args, <<>>) = Parse(cmd, other, <<>>)
<1> DEFINE s == ParsedUpTo(cmd, args)[Len(args)]
           r == ParsedUpTo(cmd, other)[Len(other)]
           t == ParseFlags(cmd, args)
           u == ParseFlags(cmd, other)
           Wrong(x) == x.err \/ x.pending # ""
           Err(x, set) == x.err \/ Missing(cmd, x.provided) \/ set.err
           D == Declared(cmd)
<1>1. Shaped(T, s, Len(args)) /\ Shaped(T, r, Len(other))
  <2>1. Shaped(T, s, Len(args))
    <3>1. Len(args) \in 0 .. Len(args)
      OBVIOUS
    <3> QED
      BY <3>1, ParsedShape
  <2>2. Shaped(T, r, Len(other))
    <3>1. Len(other) \in 0 .. Len(other)
      OBVIOUS
    <3> QED
      BY <3>1, ParsedShape
  <2> QED
    BY <2>1, <2>2
<1>2. Alike(cmd, s, r)
  OBVIOUS
<1>3. t = [s EXCEPT !.err = Wrong(s)] /\ u = [r EXCEPT !.err = Wrong(r)]
  BY DEF ParseFlags
<1>4. Parse(cmd, args, <<>>) = ParseRest(cmd, t, <<>>) /\ Parse(cmd, other, <<>>) = ParseRest(cmd, u, <<>>)
  BY DEF Parse
<1> HIDE DEF s, r, t, u, Wrong
<1>5. /\ t.err = Wrong(s) /\ t.provided = s.provided /\ t.rest = s.rest /\ t.values = s.values
      /\ u.err = Wrong(r) /\ u.provided = r.provided /\ u.rest = r.rest /\ u.values = r.values
  BY <1>1, <1>3 DEF Shaped, Fields
<1>6. t.rest = u.rest /\ t.values = u.values
  BY <1>2, <1>5 DEF Alike, SameSoFar
<1> DEFINE set == SetNonflags(cmd, t.rest, <<>>)
<1>7. set = SetNonflags(cmd, u.rest, <<>>)
  BY <1>6
<1>8. ParseRest(cmd, t, <<>>) = Parsed(cmd, t, set) /\ ParseRest(cmd, u, <<>>) = Parsed(cmd, u, set)
  BY <1>7 DEF ParseRest
<1> HIDE DEF set
<1>9. Err(t, set) <=> Err(u, set)
  <2>1. CASE s.err = TRUE
    <3>1. r.err = TRUE
      BY <1>2, <2>1 DEF Alike, SameSoFar
    <3> QED
      BY <1>5, <2>1, <3>1 DEF Wrong
  <2>2. CASE s.err = FALSE
    <3>1. r.err = FALSE
      BY <1>2, <2>2 DEF Alike, SameSoFar
    <3>2. s.pending = "" <=> r.pending = ""
      BY <1>2, <2>2, TwoNames DEF Alike, SameWait
    <3>3. t.err <=> u.err
      BY <1>5, <2>2, <3>1, <3>2 DEF Wrong
    <3>4. Missing(cmd, t.provided) <=> Missing(cmd, u.provided)
      <4>1. \A j \in DOMAIN D : Meets(cmd, j, t.provided) <=> Meets(cmd, j, u.provided)
        BY <1>2, <1>5, <2>2 DEF Alike, SameSoFar
      <4>2. Missing(cmd, t.provided) <=> \E j \in DOMAIN D : D[j].required /\ ~Meets(cmd, j, t.provided)
        BY MissingIs DEF Meets
      <4>3. Missing(cmd, u.provided) <=> \E j \in DOMAIN D : D[j].required /\ ~Meets(cmd, j, u.provided)
        BY MissingIs DEF Meets
      <4> QED
        BY <4>1, <4>2, <4>3
    <3> QED
      BY <3>3, <3>4
  <2>3. s.err \in BOOLEAN
    BY <1>1 DEF Shaped
  <2> QED
    BY <2>1, <2>2, <2>3
<1>10. Parsed(cmd, t, set) = Parsed(cmd, u, set)
  <2>1. ASSUME NEW x \in {t, u}
        PROVE  Parsed(cmd, x, set) = [help |-> x.values["help"] = <<"true">>, err |-> Err(x, set),
                                      values |-> x.values, positional |-> set.values, rest |-> x.rest]
    BY DEF Parsed
  <2> HIDE DEF Err
  <2>2. Err(t, set) = Err(u, set)
    BY <1>9 DEF Err
  <2> QED
    BY <1>6, <2>1, <2>2
<1> QED
  BY <1>4, <1>8, <1>10

(* Lines that begin with the same arguments are parsed alike so far.       *)
LEMMA SamePrefix ==
  ASSUME NEW T, NEW cmd, NEW args \in Seq(Argument(T)), NEW other \in Seq(Argument(T)),
         NEW m \in Nat, m <= Len(args), m <= Len(other), \A k \in 1 .. m : args[k] = other[k]
  PROVE  ParsedUpTo(cmd, args)[m] = ParsedUpTo(cmd, other)[m]
<1> DEFINE s == ParsedUpTo(cmd, args)
           r == ParsedUpTo(cmd, other)
           Good == {k \in 0 .. m : s[k] = r[k]}
<1>1. Len(args) \in Nat /\ Len(other) \in Nat
  OBVIOUS
<1>2. s[0] = NothingParsed(cmd) /\ \A k \in 1 .. Len(args) : s[k] = ParseArg(cmd, s[k - 1], args[k])
  <2>1. s[0] = NothingParsed(cmd)
    BY <1>1, ParsedStart
  <2>2. \A k \in 1 .. Len(args) : s[k] = ParseArg(cmd, s[k - 1], args[k])
    BY <1>1, ParsedNext
  <2> HIDE DEF s
  <2> QED
    BY <2>1, <2>2
<1>3. r[0] = NothingParsed(cmd) /\ \A k \in 1 .. Len(other) : r[k] = ParseArg(cmd, r[k - 1], other[k])
  <2>1. r[0] = NothingParsed(cmd)
    BY <1>1, ParsedStart
  <2>2. \A k \in 1 .. Len(other) : r[k] = ParseArg(cmd, r[k - 1], other[k])
    BY <1>1, ParsedNext
  <2> HIDE DEF r
  <2> QED
    BY <2>1, <2>2
<1> HIDE DEF s, r
<1>4. 0 \in Good
  BY <1>2, <1>3
<1>5. ASSUME NEW k \in 0 .. m - 1, k \in Good
      PROVE  k + 1 \in Good
  <2>1. /\ k + 1 \in 0 .. m /\ k + 1 \in 1 .. m /\ (k + 1) - 1 = k
        /\ k + 1 \in 1 .. Len(args) /\ k + 1 \in 1 .. Len(other)
    BY <1>1
  <2>2. s[k + 1] = ParseArg(cmd, s[k], args[k + 1]) /\ r[k + 1] = ParseArg(cmd, r[k], other[k + 1])
    BY <1>2, <1>3, <2>1
  <2>3. args[k + 1] = other[k + 1] /\ s[k] = r[k]
    BY <1>5, <2>1
  <2> QED
    BY <2>1, <2>2, <2>3
<1>6. m \in Good
  <2> HIDE DEF Good
  <2>1. \A k \in 0 .. m : k \in Good
    BY <1>4, <1>5, Counting
  <2> QED
    BY <2>1
<1> QED
  BY <1>6 DEF s, r

(* Lines that are alike so far, and go on with the same arguments, are     *)
(* alike; in the first the value of a flag may be an argument of its own.  *)
LEMMA SameSuffix ==
  ASSUME NEW T, NEW cmd, WellDeclared(cmd), NEW args \in Seq(Argument(T)), NEW other \in Seq(Argument(T)),
         NEW d \in {0, 1}, Len(args) = Len(other) + d, NEW m \in 0 .. Len(other),
         Alike(cmd, ParsedUpTo(cmd, args)[m + d], ParsedUpTo(cmd, other)[m]),
         \A k \in m + 1 .. Len(other) : args[k + d] = other[k]
  PROVE  Alike(cmd, ParsedUpTo(cmd, args)[Len(args)], ParsedUpTo(cmd, other)[Len(other)])
<1> DEFINE s == ParsedUpTo(cmd, args)
           r == ParsedUpTo(cmd, other)
           n == Len(other)
           top == n - m
           Good == {k \in 0 .. top : Alike(cmd, s[(m + k) + d], r[m + k])}
<1>1. n \in Nat /\ top \in Nat /\ m \in Nat /\ d \in Nat /\ m + top = n
  OBVIOUS
<1>2. \A k \in 1 .. n + d : s[k] = ParseArg(cmd, s[k - 1], args[k])
  <2>1. Len(args) \in Nat /\ n + d = Len(args)
    OBVIOUS
  <2>2. \A k \in 1 .. Len(args) : s[k] = ParseArg(cmd, s[k - 1], args[k])
    BY <2>1, ParsedNext
  <2> HIDE DEF s, n
  <2> QED
    BY <2>1, <2>2
<1>3. \A k \in 1 .. n : r[k] = ParseArg(cmd, r[k - 1], other[k])
  BY <1>1, ParsedNext
<1>4. \A k \in 0 .. n + d : Shaped(T, s[k], k)
  <2>1. \A k \in 0 .. Len(args) : Shaped(T, s[k], k)
    BY ParsedShape
  <2>2. n + d = Len(args)
    OBVIOUS
  <2> HIDE DEF s, n
  <2> QED
    BY <2>1, <2>2
<1>5. \A k \in 0 .. n : Shaped(T, r[k], k)
  BY ParsedShape
<1>6. Alike(cmd, s[m + d], r[m]) /\ \A k \in m + 1 .. n : args[k + d] = other[k]
  OBVIOUS
<1> HIDE DEF s, r, n, top
<1>7. 0 \in Good
  <2>1. (m + 0) + d = m + d /\ m + 0 = m /\ 0 \in 0 .. top
    BY <1>1
  <2> QED
    BY <1>6, <2>1
<1>8. ASSUME NEW k \in 0 .. top - 1, k \in Good
      PROVE  k + 1 \in Good
  <2> DEFINE i == m + k
             j == i + d
  <2>1. /\ k + 1 \in 0 .. top /\ m + (k + 1) = i + 1 /\ (m + (k + 1)) + d = j + 1
        /\ i + 1 \in 1 .. n /\ j + 1 \in 1 .. n + d /\ i \in 0 .. n /\ j \in 0 .. n + d
        /\ (i + 1) - 1 = i /\ (j + 1) - 1 = j /\ i + 1 \in m + 1 .. n /\ (i + 1) + d = j + 1
    BY <1>1
  <2>2. Alike(cmd, s[j], r[i])
    BY <1>8
  <2> HIDE DEF i, j
  <2>3. s[j + 1] = ParseArg(cmd, s[j], args[j + 1])
    BY <1>2, <2>1
  <2>4. r[i + 1] = ParseArg(cmd, r[i], other[i + 1])
    BY <1>3, <2>1
  <2>5. args[j + 1] = other[i + 1]
    BY <1>6, <2>1
  <2>6. Shaped(T, s[j], j) /\ Shaped(T, r[i], i)
    BY <1>4, <1>5, <2>1
  <2>7. Alike(cmd, s[j + 1], r[i + 1])
    BY <2>2, <2>3, <2>4, <2>5, <2>6, AlikeKept
  <2> QED
    BY <2>1, <2>7
<1>9. top \in Good
  <2> HIDE DEF Good
  <2>1. \A k \in 0 .. top : k \in Good
    BY <1>1, <1>7, <1>8, Counting
  <2> QED
    BY <1>1, <2>1
<1>10. Alike(cmd, s[n + d], r[n])
  BY <1>1, <1>9
<1> QED
  BY <1>10 DEF s, r, n

(* No flag waits for its value.                                            *)
Ready(s) == Open(s) /\ s.pending = ""

(* What an argument in the place of a flag is.                             *)
LEMMA PlaceOfFlag ==
  ASSUME NEW T, NEW cmd, WellDeclared(cmd), NEW args \in Seq(Argument(T)), NEW i \in FlagPlaces(cmd, args)
  PROVE  /\ i \in 1 .. Len(args) /\ i - 1 \in 0 .. Len(args) - 1
         /\ Ready(ParsedUpTo(cmd, args)[i - 1])
         /\ args[i] \in Argument(T) /\ args[i].form \in {"flag", "assign"}
         /\ \E j \in DOMAIN Declared(cmd) :
               args[i].name \in Candidates(Declared(cmd)[j]) /\ FlagOf(cmd, args[i].name) = Declared(cmd)[j]
<1> DEFINE s == ParsedUpTo(cmd, args)[i - 1]
<1>1. i \in 1 .. Len(args) /\ Len(args) \in Nat /\ args[i] \in Argument(T)
  <2>1. i \in DOMAIN args
    BY DEF FlagPlaces
  <2> QED
    BY <2>1
<1>2. /\ ~s.err /\ ~s.done /\ s.pending = ""
      /\ args[i].form \in {"flag", "assign"} /\ HasFlag(cmd, args[i].name)
  BY DEF FlagPlaces, HasFlag
<1>3. i - 1 \in 0 .. Len(args) - 1 /\ i - 1 \in 0 .. Len(args)
  BY <1>1
<1>4. Shaped(T, s, i - 1)
  BY <1>3, ParsedShape
<1>5. PICK j \in DOMAIN Declared(cmd) : args[i].name \in Candidates(Declared(cmd)[j])
  BY <1>2, HasFlagIs
<1>6. FlagOf(cmd, args[i].name) = Declared(cmd)[j]
  BY <1>5, FlagOfIs
<1> HIDE DEF s
<1>7. Ready(s)
  BY <1>2, <1>4 DEF Ready, Open, Shaped
<1> QED
  BY <1>1, <1>2, <1>3, <1>5, <1>6, <1>7 DEF s

(* The state after an argument in the place of a flag.                     *)
LEMMA AfterFlag ==
  ASSUME NEW T, NEW cmd, NEW args \in Seq(Argument(T)), NEW i \in 1 .. Len(args),
         Ready(ParsedUpTo(cmd, args)[i - 1]),
         args[i].form \in {"flag", "assign"}
  PROVE  FlagEffect(cmd, ParsedUpTo(cmd, args)[i - 1], args[i], ParsedUpTo(cmd, args)[i])
<1> DEFINE acc == ParsedUpTo(cmd, args)
           s == acc[i - 1]
<1>1. Len(args) \in Nat
  OBVIOUS
<1>2. i - 1 \in 0 .. Len(args)
  BY <1>1
<1>3. acc[i] = ParseArg(cmd, s, args[i])
  BY <1>1, ParsedNext
<1>4. Shaped(T, s, i - 1)
  BY <1>2, ParsedShape
<1> HIDE DEF acc
<1>5. ArgEffect(cmd, s, args[i], acc[i])
  BY <1>3, <1>4, ParseArgEffect DEF Shaped
<1>6. Open(s) /\ s.pending = "" /\ args[i].form \notin {"word", "end"}
  BY DEF acc, Ready
<1>7. FlagEffect(cmd, s, args[i], acc[i])
  BY <1>5, <1>6 DEF ArgEffect, Open
<1> QED
  BY <1>7 DEF acc

(* A line means the same with the other name of a flag.                    *)
LEMMA OtherNameAgrees ==
  ASSUME NEW T, NEW cmd, WellDeclared(cmd), NEW args \in Seq(Argument(T)), NEW i \in FlagPlaces(cmd, args)
  PROVE  Run(cmd, args) = Run(cmd, [args EXCEPT ![i] = OtherName(cmd, args[i])])
<1> DEFINE a == args[i]
           b == OtherName(cmd, a)
           other == [args EXCEPT ![i] = b]
           n == Len(args)
           s == ParsedUpTo(cmd, args)
           r == ParsedUpTo(cmd, other)
           D == Declared(cmd)
<1>1. /\ i \in 1 .. n /\ i - 1 \in 0 .. n - 1
      /\ Ready(s[i - 1])
      /\ a \in Argument(T) /\ a.form \in {"flag", "assign"}
  BY PlaceOfFlag
<1>2. PICK j \in DOMAIN D : a.name \in Candidates(D[j]) /\ FlagOf(cmd, a.name) = D[j]
  BY PlaceOfFlag
<1> DEFINE S == T \cup Candidates(D[j])
<1>3. \E x \in Candidates(D[j]) : b = [a EXCEPT !.name = x]
  BY <1>2 DEF OtherName, FlagOf, Candidates
<1>4. b \in Argument(S) /\ b.form = a.form /\ b.value = a.value /\ b.text = a.text /\ b.name \in Candidates(D[j])
  <2>1. PICK x \in Candidates(D[j]) : b = [a EXCEPT !.name = x]
    BY <1>3
  <2> HIDE DEF a, b, D
  <2> QED
    BY <1>1, <2>1 DEF Argument
<1>5. args \in Seq(Argument(S))
  <2>1. Argument(T) \subseteq Argument(S)
    <3> HIDE DEF D
    <3> QED
      BY DEF Argument
  <2> HIDE DEF S
  <2> QED
    BY <2>1, SeqMonotonic
<1>6. n \in Nat
  OBVIOUS
<1>7. /\ other \in Seq(Argument(S)) /\ Len(other) = n
      /\ other[i] = b /\ \A k \in 1 .. n : k # i => other[k] = args[k]
  <2> HIDE DEF b, S
  <2>1. other \in Seq(Argument(S)) /\ Len(other) = n
    BY <1>1, <1>4, <1>5, ExceptSeq
  <2> QED
    BY <1>1, <2>1
<1> HIDE DEF other, b, S
<1>8. s[i - 1] = r[i - 1]
  <2> DEFINE m == i - 1
  <2>1. m \in Nat /\ m <= Len(args) /\ m <= Len(other)
    BY <1>1, <1>6, <1>7
  <2>2. \A k \in 1 .. m : args[k] = other[k]
    BY <1>1, <1>6, <1>7
  <2> HIDE DEF m
  <2>3. ParsedUpTo(cmd, args)[m] = ParsedUpTo(cmd, other)[m]
    BY <1>5, <1>7, <2>1, <2>2, SamePrefix
  <2> QED
    BY <2>3 DEF m
<1>9. FlagEffect(cmd, s[i - 1], a, s[i])
  BY <1>1, AfterFlag
<1>10. FlagEffect(cmd, r[i - 1], b, r[i])
  <2>1. i \in 1 .. Len(other) /\ other[i] = b /\ other[i].form \in {"flag", "assign"}
    BY <1>1, <1>4, <1>7
  <2>2. Ready(r[i - 1])
    BY <1>1, <1>8
  <2>3. FlagEffect(cmd, r[i - 1], other[i], r[i])
    BY <1>7, <2>1, <2>2, AfterFlag
  <2> QED
    BY <2>1, <2>3
<1> HIDE DEF s, r, a
<1>11. Alike(cmd, s[i], r[i])
  <2>1. SameSoFar(cmd, s[i - 1], r[i - 1])
    BY <1>8 DEF SameSoFar
  <2>2. {a.name, b.name} \subseteq Candidates(D[j])
    BY <1>2, <1>4
  <2>3. s[i - 1].pending = "" /\ r[i - 1].pending = ""
    BY <1>1, <1>8 DEF Ready
  <2> QED
    BY <1>1, <1>4, <1>9, <1>10, <2>1, <2>2, <2>3, FlagsAlike
<1>12. Alike(cmd, s[n], r[n])
  <2>1. Len(args) = Len(other) + 0 /\ i \in 0 .. Len(other) /\ i + 0 = i
    BY <1>1, <1>6, <1>7
  <2>2. \A k \in i + 1 .. Len(other) : args[k + 0] = other[k]
    BY <1>1, <1>6, <1>7
  <2>3. Alike(cmd, ParsedUpTo(cmd, args)[i + 0], ParsedUpTo(cmd, other)[i])
    BY <1>11, <2>1 DEF s, r
  <2>4. Alike(cmd, ParsedUpTo(cmd, args)[Len(args)], ParsedUpTo(cmd, other)[Len(other)])
    BY <1>5, <1>7, <2>1, <2>2, <2>3, SameSuffix
  <2> QED
    BY <1>7, <2>4 DEF s, r
<1>13. Parse(cmd, args, <<>>) = Parse(cmd, other, <<>>)
  BY <1>5, <1>7, <1>12, ParsedAlike DEF s, r
<1>14. [k \in DOMAIN args |-> args[k].text] = [k \in DOMAIN other |-> other[k].text]
  <2>1. DOMAIN args = 1 .. n /\ DOMAIN other = 1 .. n
    BY <1>7
  <2>2. \A k \in 1 .. n : args[k].text = other[k].text
    BY <1>4, <1>7 DEF a
  <2> HIDE DEF n
  <2> QED
    BY <2>1, <2>2
<1>15. RunParsed(<<cmd.name>>, cmd, args, Parse(cmd, args, <<>>)) = RunParsed(<<cmd.name>>, cmd, other, Parse(cmd, other, <<>>))
  <2> DEFINE p == Parse(cmd, args, <<>>)
             names == <<cmd.name>>
  <2>1. RunCustom(names, args) = RunCustom(names, other)
    BY <1>14 DEF RunCustom
  <2>2. p = Parse(cmd, other, <<>>)
    BY <1>13
  <2> HIDE DEF p, names
  <2>3. RunParsed(names, cmd, args, p) = RunParsed(names, cmd, other, p)
    BY <2>1 DEF RunParsed
  <2> QED
    BY <2>2, <2>3 DEF p, names
<1>16. Run(cmd, args) = Run(cmd, other)
  BY <1>5, <1>7, <1>15, SameFirstCall
<1> QED
  BY <1>16 DEF other, b, a

(* What a line with the value of a flag joined to it is.                   *)
JoinedArg(args, i) == [args[i] EXCEPT !.form = "assign", !.value = args[i + 1].text]
IsJoined(S, args, i, other) ==
  /\ other \in Seq(S) /\ Len(args) = Len(other) + 1
  /\ \A k \in 1 .. i - 1 : other[k] = args[k]
  /\ other[i] = JoinedArg(args, i)
  /\ \A k \in i + 1 .. Len(other) : other[k] = args[k + 1]

(* It is one argument shorter, and the others are as they were.            *)
LEMMA JoinedLine ==
  ASSUME NEW S, NEW args \in Seq(S), NEW i \in 1 .. Len(args) - 1, JoinedArg(args, i) \in S
  PROVE  IsJoined(S, args, i, Joined(args, i))
<1> DEFINE n == Len(args)
           x == JoinedArg(args, i)
           before == SubSeq(args, 1, i - 1)
           after == SubSeq(args, i + 2, n)
           other == Joined(args, i)
<1>1. n \in Nat /\ i \in Nat /\ i >= 1 /\ i + 1 <= n
  OBVIOUS
<1>2. before \in Seq(S) /\ Len(before) = i - 1 /\ \A k \in 1 .. i - 1 : before[k] = args[k]
  BY <1>1
<1>3. after \in Seq(S) /\ Len(after) = n - (i + 1) /\ \A k \in 1 .. n - (i + 1) : after[k] = args[(i + 1) + k]
  BY <1>1
<1>4. other = (before \o <<x>>) \o after
  BY DEF Joined, JoinedArg
<1> HIDE DEF before, after, other, n, x
<1>5. before \o <<x>> \in Seq(S) /\ Len(before \o <<x>>) = i
  BY <1>1, <1>2 DEF x
<1>6. \A k \in 1 .. i - 1 : (before \o <<x>>)[k] = args[k]
  BY <1>1, <1>2
<1>7. (before \o <<x>>)[i] = x
  BY <1>1, <1>2
<1> DEFINE head == before \o <<x>>
<1> HIDE DEF head
<1>8. head \in Seq(S) /\ Len(head) = i /\ head[i] = x /\ \A k \in 1 .. i - 1 : head[k] = args[k]
  BY <1>5, <1>6, <1>7 DEF head
<1>9. other = head \o after
  BY <1>4 DEF head
<1>10. other \in Seq(S) /\ Len(other) = n - 1
  <2>1. other \in Seq(S) /\ Len(other) = Len(head) + Len(after)
    <3>1. head \in Seq(S) /\ after \in Seq(S)
      BY <1>3, <1>8
    <3>2. head \o after \in Seq(S) /\ Len(head \o after) = Len(head) + Len(after)
      BY <3>1, ConcatProperties
    <3> QED
      BY <1>9, <3>2
  <2>2. Len(head) + Len(after) = n - 1
    BY <1>1, <1>3, <1>8
  <2> QED
    BY <2>1, <2>2
<1> DEFINE m == Len(after)
<1>11. m = n - (i + 1) /\ m \in Nat
  BY <1>1, <1>3
<1>12. \A k \in 1 .. i + m : other[k] = IF k <= i THEN head[k] ELSE after[k - i]
  <2>1. head \in Seq(S) /\ after \in Seq(S) /\ Len(head) = i
    BY <1>3, <1>8
  <2>2. \A k \in 1 .. Len(head) + m : (head \o after)[k] = IF k <= Len(head) THEN head[k] ELSE after[k - Len(head)]
    BY <2>1, ConcatProperties
  <2> HIDE DEF m
  <2> QED
    BY <1>9, <2>1, <2>2
<1> HIDE DEF m
<1>13. \A k \in i + 1 .. n - 1 : other[k] = args[k + 1]
  <2>1. ASSUME NEW k \in i + 1 .. n - 1
        PROVE  /\ k - i \in 1 .. n - (i + 1) /\ (i + 1) + (k - i) = k + 1
               /\ k \in 1 .. i + m /\ ~(k <= i)
    BY <1>1, <1>11
  <2> QED
    BY <1>3, <1>12, <2>1
<1>14. n = Len(other) + 1 /\ Len(other) = n - 1
  BY <1>1, <1>10
<1>15. other[i] = x /\ \A k \in 1 .. i - 1 : other[k] = args[k]
  <2>1. \A k \in 1 .. i : k \in 1 .. i + m /\ k <= i
    BY <1>1, <1>11
  <2>2. i \in 1 .. i /\ \A k \in 1 .. i - 1 : k \in 1 .. i
    BY <1>1
  <2> QED
    BY <1>8, <1>12, <2>1, <2>2
<1> QED
  BY <1>10, <1>13, <1>14, <1>15 DEF IsJoined, n, x, other

(* A line means the same with the value of a flag joined to it.            *)
LEMMA JoinedAgrees ==
  ASSUME NEW T, NEW cmd, WellDeclared(cmd), NEW args \in Seq(Argument(T)), NEW i \in FlagPlaces(cmd, args),
         args[i].form = "flag", FlagOf(cmd, args[i].name).kind # "bool", i < Len(args)
  PROVE  Run(cmd, args) = Run(cmd, Joined(args, i))
<1> DEFINE a == args[i]
           b == JoinedArg(args, i)
           other == Joined(args, i)
           n == Len(args)
           s == ParsedUpTo(cmd, args)
           r == ParsedUpTo(cmd, other)
           D == Declared(cmd)
<1>1. /\ i \in 1 .. n /\ i - 1 \in 0 .. n - 1
      /\ Ready(s[i - 1])
      /\ a \in Argument(T) /\ a.form \in {"flag", "assign"}
  BY PlaceOfFlag
<1>2. PICK j \in DOMAIN D : a.name \in Candidates(D[j]) /\ FlagOf(cmd, a.name) = D[j]
  BY PlaceOfFlag
<1>3. n \in Nat /\ i \in 1 .. n - 1 /\ i + 1 \in 1 .. n /\ (i + 1) - 1 = i /\ i < n
  BY <1>1
<1>4. args[i + 1] \in Argument(T) /\ args[i + 1].text \in T
  <2>1. args[i + 1] \in Argument(T)
    BY <1>3
  <2> QED
    BY <2>1 DEF Argument
<1>5. /\ b \in Argument(T) /\ b.form = "assign" /\ b.name = a.name /\ b.value = args[i + 1].text
  <2> DEFINE text == args[i + 1].text
  <2>1. b = [a EXCEPT !.form = "assign", !.value = text]
    BY DEF JoinedArg
  <2>2. text \in T
    BY <1>4
  <2> HIDE DEF a, b, text
  <2>3. b \in Argument(T) /\ b.form = "assign" /\ b.name = a.name /\ b.value = text
    BY <1>1, <2>1, <2>2 DEF Argument
  <2> QED
    BY <2>3 DEF text
<1>6. IsJoined(Argument(T), args, i, other)
  BY <1>3, <1>5, JoinedLine
<1>7. /\ other \in Seq(Argument(T)) /\ Len(args) = Len(other) + 1 /\ Len(other) \in Nat
      /\ \A k \in 1 .. i - 1 : other[k] = args[k]
      /\ other[i] = b
      /\ \A k \in i + 1 .. Len(other) : other[k] = args[k + 1]
  <2> HIDE DEF other, b
  <2>1. other \in Seq(Argument(T))
    BY <1>6 DEF IsJoined
  <2>2. Len(other) \in Nat
    BY <2>1
  <2> QED
    BY <1>6, <2>1, <2>2 DEF IsJoined, b
<1> HIDE DEF other, b
<1>8. s[i - 1] = r[i - 1]
  <2> DEFINE m == i - 1
  <2>1. m \in Nat /\ m <= Len(args) /\ m <= Len(other)
    BY <1>3, <1>7
  <2>2. \A k \in 1 .. m : args[k] = other[k]
    BY <1>7
  <2> HIDE DEF m
  <2>3. ParsedUpTo(cmd, args)[m] = ParsedUpTo(cmd, other)[m]
    BY <1>7, <2>1, <2>2, SamePrefix
  <2> QED
    BY <2>3 DEF m
<1>9. FlagEffect(cmd, s[i - 1], a, s[i])
  BY <1>1, AfterFlag
<1>10. FlagEffect(cmd, r[i - 1], b, r[i])
  <2>1. i \in 1 .. Len(other) /\ other[i] = b /\ other[i].form \in {"flag", "assign"}
    BY <1>3, <1>5, <1>7
  <2>2. Ready(r[i - 1])
    BY <1>1, <1>8
  <2>3. FlagEffect(cmd, r[i - 1], other[i], r[i])
    BY <1>7, <2>1, <2>2, AfterFlag
  <2> QED
    BY <2>1, <2>3
<1>11. s[i + 1] = ParseArg(cmd, s[i], args[i + 1])
  <2>1. s[i + 1] = ParseArg(cmd, s[(i + 1) - 1], args[i + 1])
    BY <1>3, ParsedNext
  <2> QED
    BY <1>3, <2>1
<1>12. Shaped(T, s[i], i)
  <2>1. i \in 0 .. n
    BY <1>3
  <2> QED
    BY <2>1, ParsedShape
<1>13. HasFlag(cmd, a.name) /\ a.name # "" /\ D[j].kind # "bool" /\ a.form = "flag"
  <2>1. HasFlag(cmd, a.name) /\ a.name # ""
    BY <1>2, FlagOfIs, TwoNames
  <2> QED
    BY <1>2, <2>1
<1> DEFINE before == s[i - 1]
           now == s[i]
           text == args[i + 1].text
<1>14. ArgEffect(cmd, now, args[i + 1], s[i + 1])
  BY <1>11, <1>12, ParseArgEffect DEF Shaped
<1> HIDE DEF s, r, a
<1>15. Waits(before, a.name, now) /\ Open(before)
  BY <1>1, <1>2, <1>9, <1>13 DEF FlagEffect, Ready
<1>16. Open(now) /\ now.pending = a.name /\ now.pending # "" /\ SameSoFar(cmd, now, before)
  BY <1>13, <1>15 DEF Waits, Open, SameSoFar
<1>17. Sets(cmd, now, a.name, text, s[i + 1])
  <2>1. Sets(cmd, now, now.pending, text, s[i + 1])
    BY <1>14, <1>16 DEF ArgEffect, Open
  <2> QED
    BY <1>16, <2>1
<1>18. Sets(cmd, before, a.name, text, r[i])
  BY <1>5, <1>8, <1>10, <1>13 DEF FlagEffect
<1>19. Alike(cmd, s[i + 1], r[i])
  BY <1>2, <1>16, <1>17, <1>18, SetsAlike
<1>20. Alike(cmd, s[n], r[Len(other)])
  <2>1. 1 \in {0, 1} /\ i \in 0 .. Len(other)
    BY <1>3, <1>7
  <2>2. \A k \in i + 1 .. Len(other) : args[k + 1] = other[k]
    BY <1>7
  <2>3. Alike(cmd, ParsedUpTo(cmd, args)[i + 1], ParsedUpTo(cmd, other)[i])
    BY <1>19 DEF s, r
  <2>4. Alike(cmd, ParsedUpTo(cmd, args)[Len(args)], ParsedUpTo(cmd, other)[Len(other)])
    BY <1>7, <2>1, <2>2, <2>3, SameSuffix
  <2> QED
    BY <2>4 DEF s, r
<1>21. Parse(cmd, args, <<>>) = Parse(cmd, other, <<>>)
  BY <1>7, <1>20, ParsedAlike DEF s, r
<1>22. ~cmd.custom
  <2>1. SUFFICES ASSUME cmd.custom
                 PROVE  FALSE
    OBVIOUS
  <2>2. cmd.flags = <<>>
    BY <2>1 DEF WellDeclared
  <2>3. D = <<Help>>
    BY <2>2 DEF Declared
  <2>4. DOMAIN <<Help>> = {1} /\ <<Help>>[1].kind = "bool"
    BY DEF Help
  <2> HIDE DEF D
  <2> QED
    BY <1>2, <1>13, <2>3, <2>4
<1>23. RunParsed(<<cmd.name>>, cmd, args, Parse(cmd, args, <<>>)) = RunParsed(<<cmd.name>>, cmd, other, Parse(cmd, other, <<>>))
  <2> DEFINE p == Parse(cmd, args, <<>>)
             names == <<cmd.name>>
  <2>1. p = Parse(cmd, other, <<>>)
    BY <1>21
  <2> HIDE DEF p, names
  <2>2. RunParsed(names, cmd, args, p) = RunParsed(names, cmd, other, p)
    BY <1>22 DEF RunParsed
  <2> QED
    BY <2>1, <2>2 DEF p, names
<1>24. Run(cmd, args) = Run(cmd, other)
  BY <1>7, <1>23, SameFirstCall
<1> QED
  BY <1>24 DEF other

(* For every command whose flags are well declared and every line, a flag  *)
(* means the same by either name and in either form.                       *)
THEOREM NamesAgree ==
  ASSUME NEW T, NEW cmd, WellDeclared(cmd), NEW args \in Seq(Argument(T))
  PROVE  AliasesAgree(cmd, args)
<1>1. ASSUME NEW i \in FlagPlaces(cmd, args)
      PROVE  Run(cmd, args) = Run(cmd, [args EXCEPT ![i] = OtherName(cmd, @)])
  <2>1. [args EXCEPT ![i] = OtherName(cmd, @)] = [args EXCEPT ![i] = OtherName(cmd, args[i])]
    OBVIOUS
  <2> QED
    BY <2>1, OtherNameAgrees
<1>2. ASSUME NEW i \in FlagPlaces(cmd, args), args[i].form = "flag",
             FlagNamed(cmd, FlagSet(cmd).alias[args[i].name]).kind # "bool", i < Len(args)
      PROVE  Run(cmd, args) = Run(cmd, Joined(args, i))
  <2>1. FlagOf(cmd, args[i].name).kind # "bool"
    BY <1>2 DEF FlagOf
  <2> QED
    BY <1>2, <2>1, JoinedAgrees
<1> QED
  BY <1>1, <1>2 DEF AliasesAgree

-----------------------------------------------------------------------------
(* The lines that are typed.                                               *)
Texts == {"", "a", "d", "e", "f", "h", "i", "m", "o", "p", "r", "s", "t", "v", "value", "size", "3", "rm", "load",
          "-a", "-value", "-size=3", "-f", "-r", "-h", "--"}

(* Each is a sequence of arguments.                                        *)
LEMMA TypedLines ==
  ASSUME NEW args \in ArgLists
  PROVE  args \in Seq(Argument(Texts))
<1> DEFINE Typings == Argument(Texts)
<1>1. TypedArgs \subseteq Typings
  BY DEF TypedArgs, Typing, Argument, Texts
<1>2. ASSUME NEW n \in Nat, NEW s \in [1 .. n -> TypedArgs]
      PROVE  s \in Seq(Typings)
  <2> HIDE DEF Typings
  <2>1. s \in [1 .. n -> Typings]
    BY <1>1
  <2> QED
    BY <2>1
<1>3. ASSUME NEW name \in Texts, NEW text \in Texts
      PROVE  FlagWith(name, text) \in Seq(Typings)
  <2> DEFINE a == [form |-> "flag", name |-> name, value |-> "", text |-> ""]
             b == [form |-> "word", name |-> "", value |-> "", text |-> text]
  <2>1. "" \in Texts
    BY DEF Texts
  <2>2. a \in Typings /\ b \in Typings
    <3> HIDE DEF Texts
    <3> QED
      BY <2>1 DEF Argument
  <2>3. FlagWith(name, text) = <<a, b>>
    BY DEF FlagWith
  <2> HIDE DEF a, b, Typings
  <2>4. <<a, b>> \in Seq(Typings)
    BY <2>2
  <2> QED
    BY <2>3, <2>4
<1>4. "v" \in Texts /\ "3" \in Texts /\ "a" \in Texts /\ "value" \in Texts /\ "rm" \in Texts /\ "s" \in Texts /\ "p" \in Texts /\ "" \in Texts
  BY DEF Texts
<1>5. FlagWith("v", "3") \in Seq(Typings) /\ FlagWith("a", "3") \in Seq(Typings) /\ FlagWith("value", "rm") \in Seq(Typings)
  BY <1>3, <1>4
<1>6. FlagWith("s", "3") \in Seq(Typings) /\ FlagWith("p", "") \in Seq(Typings)
  BY <1>3, <1>4
<1>7. <<Typing("word", "", "", "3")>> \in Seq(Typings)
  <2> DEFINE a == Typing("word", "", "", "3")
  <2>1. a \in Typings
    BY <1>1 DEF TypedArgs
  <2> HIDE DEF a, Typings
  <2>2. <<a>> \in Seq(Typings)
    BY <2>1
  <2> QED
    BY <2>2 DEF a
<1> DEFINE x == FlagWith("v", "3")
           y == FlagWith("a", "3")
           z == FlagWith("value", "rm")
           u == FlagWith("s", "3")
           v == FlagWith("p", "")
           w == <<Typing("word", "", "", "3")>>
<1>8. (\E n \in 0 .. 3 : args \in [1 .. n -> TypedArgs]) \/ args = x \o y \/ args = y \o z \/ args = (u \o v) \o w
  <2> DEFINE Short == UNION {[1 .. n -> TypedArgs] : n \in 0 .. 3}
  <2>1. args \in Short \cup {x \o y, y \o z, u \o v \o w}
    BY DEF ArgLists
  <2> HIDE DEF x, y, z, u, v, w
  <2>2. args \in Short => \E n \in 0 .. 3 : args \in [1 .. n -> TypedArgs]
    OBVIOUS
  <2> HIDE DEF Short
  <2> QED
    BY <2>1, <2>2
<1> HIDE DEF Typings, x, y, z, u, v, w
<1>9. x \o y \in Seq(Typings) /\ y \o z \in Seq(Typings)
  BY <1>5 DEF x, y, z
<1>10. u \o v \in Seq(Typings) /\ w \in Seq(Typings)
  <2>1. u \in Seq(Typings) /\ v \in Seq(Typings)
    BY <1>6 DEF u, v
  <2>2. w \in Seq(Typings)
    BY <1>7 DEF w
  <2> QED
    BY <2>1, <2>2
<1>11. (u \o v) \o w \in Seq(Typings)
  BY <1>10
<1>12. \A n \in 0 .. 3 : n \in Nat
  OBVIOUS
<1> QED
  BY <1>2, <1>8, <1>9, <1>11, <1>12 DEF Typings

(* A line is typed for a command of those looked at.                       *)
LEMMA LineParts ==
  ASSUME probe \in {NoProbe} \cup [kind : {"line"}, cmd : DOMAIN Tree, args : ArgLists] \cup [kind : {"maps"}, maps : SortedMaps],
         probe.kind = "line"
  PROVE  Tree[probe.cmd] \in AllCommands /\ probe.args \in Seq(Argument(Texts))
<1>1. NoProbe.kind # "line"
  BY DEF NoProbe
<1>2. probe.cmd \in DOMAIN Tree /\ probe.args \in ArgLists
  BY <1>1
<1>3. Tree[probe.cmd] \in Trees
  BY <1>2 DEF Tree
<1>4. Trees \subseteq AllCommands
  BY DEF AllCommands
<1> QED
  BY <1>2, <1>3, <1>4, TypedLines

(* Whatever line is typed, no command or subcommand of memshonk runs       *)
(* unless its own part of the line, and that of each command on the way    *)
(* down to it, gives the required flags, and its own part the required     *)
(* positional arguments.                                                   *)
THEOREM RequirementsAreGiven == MCSpec => []RequiredGivenTyped
<1> DEFINE Chosen == probe \in {NoProbe} \cup [kind : {"line"}, cmd : DOMAIN Tree, args : ArgLists] \cup [kind : {"maps"}, maps : SortedMaps]
<1>1. Chosen => RequiredGivenTyped
  <2> SUFFICES ASSUME Chosen, probe.kind = "line"
               PROVE  RequiredGiven(Tree[probe.cmd], probe.args)
    BY DEF RequiredGivenTyped, Typed
  <2>1. ClosedSet(AllCommands)
    BY TreesAssumption DEF ClosedSet
  <2>2. Tree[probe.cmd] \in AllCommands /\ probe.args \in Seq(Argument(Texts))
    BY LineParts
  <2> QED
    BY <2>1, <2>2, RequirementsMet
<1> HIDE DEF Chosen
<1>2. MCSpec => []Chosen
  BY ProbeStays DEF Chosen
<1> QED
  BY <1>1, <1>2, PTL

(* Whatever line is typed, a flag means the same by its long and its short *)
(* name, and with its value in an argument of its own or joined to it.     *)
THEOREM FlagsMeanTheSame == MCSpec => []FlagsAgree
<1> DEFINE Chosen == probe \in {NoProbe} \cup [kind : {"line"}, cmd : DOMAIN Tree, args : ArgLists] \cup [kind : {"maps"}, maps : SortedMaps]
<1>1. Chosen => FlagsAgree
  <2> SUFFICES ASSUME Chosen, probe.kind = "line"
               PROVE  AliasesAgree(Tree[probe.cmd], probe.args)
    BY DEF FlagsAgree, Typed
  <2>1. Tree[probe.cmd] \in AllCommands /\ probe.args \in Seq(Argument(Texts))
    BY LineParts
  <2> QED
    BY <2>1, TreesAssumption, NamesAgree
<1> HIDE DEF Chosen
<1>2. MCSpec => []Chosen
  BY ProbeStays DEF Chosen
<1> QED
  BY <1>1, <1>2, PTL

=============================================================================
