----------------------------- MODULE ScanProofs -----------------------------
(***************************************************************************)
(* Proofs about Scan, for any number of workers, any tables, patterns and  *)
(* ranges.                                                                 *)
(*                                                                         *)
(* They go in three parts: what each of the two ways of searching one      *)
(* region finds (FindAllBytes by induction on the offset, the window of    *)
(* BufferedReader as an invariant of its steps), who works on a region     *)
(* (Owned), and how what was found reaches the collector (Work, Whole,     *)
(* Unique).                                                                *)
(***************************************************************************)
EXTENDS Scan, SequenceTheorems, FiniteSetTheorems, WellFoundedInduction, TLAPS


(* What a reader can be.                                                   *)
Reader == [buf : Seq(Nat), remain : Nat, off : Nat, lastOffset : Nat, bufOffset : Nat,
           done : BOOLEAN, hasMore : BOOLEAN, last : Seq(Nat)]

(* The buffer holds the bytes of the region d that were read last.         *)
Buffered(r, d) ==
  /\ r \in Reader
  /\ r.off + r.remain = Len(d)
  /\ r.done => r.remain = 0
  /\ Len(r.buf) <= r.off
  /\ \A k \in 1 .. Len(r.buf) : r.buf[k] = d[r.off - Len(r.buf) + k]

(* The window is at the front of the buffer.  While there is more to read, *)
(* the buffer is never left empty by a window that moves on: it has a byte *)
(* more than the window, or at least two.                                  *)
InPlace(r, need, d) ==
  /\ Buffered(r, d)
  /\ r.bufOffset = 0 => r.buf = <<>> /\ r.last = <<>> /\ r.lastOffset = 0 /\ r.off = 0
  /\ r.bufOffset = 0 /\ ~r.hasMore => Len(d) = 0
  /\ r.bufOffset > 0 =>
       /\ r.lastOffset = r.bufOffset - 1
       /\ Len(r.buf) > 0 /\ r.off = r.lastOffset + Len(r.buf)
       /\ ~r.done => Len(r.buf) >= need /\ Len(r.buf) >= 2
       /\ Len(r.last) = Smaller(need, Len(d) - r.lastOffset)
       /\ \A k \in 1 .. Len(r.last) : r.last[k] = d[r.lastOffset + k]
       /\ r.hasMore <=> ~(r.done /\ r.off = r.bufOffset)

(* A sequence tells the elements of a set, each once.                      *)
Once(q) == \A j, k \in 1 .. Len(q) : q[j] = q[k] => j = k
Tells(q, x) == \E k \in 1 .. Len(q) : q[k] = x
Lists(q, S) == q \in Seq(S) /\ Once(q) /\ \A x \in S : Tells(q, x)

(* The matches of a region, and those before an offset.                    *)
At(i) == {<<i, o>> : o \in Occurrences(pattern, regions[i].data)}
AtBefore(i, n) == {x \in At(i) : x[2] < n}

Match == Nat \X Nat
Found == [matches : Seq(Match), err : BOOLEAN]

(* What is used, found and told has its type.                              *)
Types ==
  /\ regions \in Tables /\ pattern \in Patterns
  /\ cancelled \in BOOLEAN /\ scanDone \in BOOLEAN /\ closed \in BOOLEAN
  /\ firstErr \in BOOLEAN /\ returned \in BOOLEAN
  /\ next \in 1 .. Len(regions) + 1
  /\ pc \in [Workers -> {"receive", "search", "read", "send", "done"}]
  /\ region \in [Workers -> DOMAIN regions \cup {Nothing}]
  /\ reader \in [Workers -> Reader \cup {Nothing}]
  /\ found \in [Workers -> Found]
  /\ results \in Seq(Found) /\ Len(results) <= Cardinality(Workers)
  /\ matches \in Seq(Match)
  /\ failed \subseteq DOMAIN regions
  /\ attached \in BOOLEAN /\ crashed \in BOOLEAN /\ refused \subseteq DOMAIN regions

(* A worker that has a region has it for itself.                           *)
Works(w) == pc[w] \in {"search", "read", "send"}
Fed(i) == i \in Selected /\ i < next
Worked(i) == \E w \in Workers : Works(w) /\ region[w] = i
Owned ==
  /\ \A w \in Workers : Works(w) => Fed(region[w])
  /\ \A v, w \in Workers : Works(v) /\ Works(w) /\ region[v] = region[w] => v = w
  /\ \A i \in failed : Fed(i)

(* What a worker with a region has found in it so far.                     *)
WorkOf(w) ==
  LET i == region[w]
  IN /\ pc[w] \in {"search", "read"} => i \notin failed
     /\ pc[w] = "read" => /\ Len(pattern) > 0
                          /\ reader[w] \in Reader /\ ~found[w].err
                          /\ InPlace(reader[w], Len(pattern), regions[i].data)
                          /\ Lists(found[w].matches, AtBefore(i, reader[w].bufOffset))
     /\ pc[w] = "send" => IF i \in failed \/ found[w].err THEN found[w].matches = <<>>
                          ELSE Lists(found[w].matches, At(i))
Work == \A w \in Workers : WorkOf(w)

(* There are no errors before the user interrupts or a reader is refused,  *)
(* and a refusal is not lost: its error is with the worker, on its way or  *)
(* with the collector.                                                     *)
Undisturbed == ~cancelled /\ refused = {}
Refusals ==
  refused # {} => \/ firstErr
                  \/ \E k \in 1 .. Len(results) : results[k].err
                  \/ \E w \in Workers : pc[w] = "send" /\ found[w].err
NoErrors ==
  Undisturbed => /\ ~scanDone /\ ~firstErr
                 /\ \A w \in Workers : ~found[w].err
                 /\ \A k \in 1 .. Len(results) : ~results[k].err

(* What has left the workers: all of the regions they are done with, each  *)
(* match once.                                                             *)
Told(x) == Tells(matches, x) \/ \E k \in 1 .. Len(results) : Tells(results[k].matches, x)
Due(i) == Fed(i) /\ ~Worked(i) /\ i \notin failed
Whole ==
  /\ \A x \in Match : Told(x) => Due(x[1]) /\ x \in At(x[1])
  /\ Undisturbed => \A i \in DOMAIN regions : Due(i) => \A x \in At(i) : Told(x)
Unique ==
  /\ Once(matches)
  /\ \A k \in 1 .. Len(results) :
       /\ Once(results[k].matches)
       /\ \A x \in Match : Tells(results[k].matches, x) =>
            /\ ~Tells(matches, x)
            /\ \A j \in 1 .. Len(results) : Tells(results[j].matches, x) => j = k

(* The feeder closes the channel when it is through, the workers end when  *)
(* it is closed, and the collector when they have.                         *)
Endings ==
  /\ closed /\ Undisturbed => ToFeed = {}
  /\ \A w \in Workers : pc[w] = "done" => closed
  /\ returned => results = <<>> /\ \A w \in Workers : pc[w] = "done"

IInv == Types /\ Owned /\ Work /\ NoErrors /\ Refusals /\ Whole /\ Unique /\ Endings

-----------------------------------------------------------------------------
(* Induction: a set of naturals has a least element, since the intervals   *)
(* that start at 1 are finite sets.                                        *)
LEMMA LeastNatural ==
  ASSUME NEW A \in SUBSET Nat, A # {}
  PROVE  \E m \in A : \A k \in A : m <= k
<1> DEFINE T == {1 .. k : k \in A}
<1>1. T \subseteq FiniteSubsetsOf(Nat)
  BY FS_Interval DEF FiniteSubsetsOf
<1>2. T # {}
  OBVIOUS
<1>3. IsWellFoundedOn(StrictSubsetOrdering(Nat), FiniteSubsetsOf(Nat))
  BY FS_StrictSubsetOrderingWellFounded
<1> HIDE DEF T
<1>4. PICK X \in T : \A Y \in T : <<Y, X>> \notin StrictSubsetOrdering(Nat)
  BY <1>1, <1>2, <1>3, WFMin
<1>5. PICK m \in A : X = 1 .. m
  BY DEF T
<1>6. ASSUME NEW k \in A, k < m
      PROVE  FALSE
  <2>1. 1 .. k \in T /\ 1 .. m \in T
    BY DEF T
  <2>2. 1 .. k \subseteq 1 .. m /\ 1 .. k # 1 .. m
    <3>1. m \in 1 .. m /\ m \notin 1 .. k
      BY <1>6
    <3> QED
      BY <1>6, <3>1
  <2>3. <<1 .. k, 1 .. m>> \in StrictSubsetOrdering(Nat)
    BY <2>2 DEF StrictSubsetOrdering
  <2> QED
    BY <1>4, <1>5, <2>1, <2>3
<1> QED
  BY <1>6

(* Nothing, one more in front, one more behind, and under other names.     *)
LEMMA ListsNothing == Lists(<<>>, {})
<1>1. <<>> \in Seq({}) /\ Len(<<>>) = 0
  OBVIOUS
<1> QED
  BY <1>1 DEF Lists, Once, Tells

(* One more in front, as FindAllBytes does with an occurrence. *)
LEMMA ListsFirst ==
  ASSUME NEW S, NEW x, x \notin S, NEW q, Lists(q, S)
  PROVE  Lists(<<x>> \o q, S \cup {x})
<1> DEFINE T == S \cup {x}
           r == <<x>> \o q
<1>1. q \in Seq(S) /\ Len(q) \in Nat
  BY DEF Lists
<1>2. q \in Seq(T) /\ <<x>> \in Seq(T) /\ Len(<<x>>) = 1 /\ <<x>>[1] = x
  <2>1. q \in Seq(T)
    BY <1>1
  <2> QED
    BY <2>1
<1>3. /\ r \in Seq(T) /\ Len(r) = 1 + Len(q)
      /\ \A k \in 1 .. Len(r) : IF k = 1 THEN r[k] = x ELSE r[k] = q[k - 1]
  BY <1>2
<1> HIDE DEF r
<1>4. \A k \in 1 .. Len(q) : q[k] \in S
  BY <1>1
<1>5. \A k \in 1 .. Len(r) : k # 1 => k - 1 \in 1 .. Len(q) /\ r[k] = q[k - 1] /\ r[k] # x
  BY <1>1, <1>3, <1>4
<1>6. r[1] = x /\ 1 \in 1 .. Len(r)
  BY <1>1, <1>3
<1>7. Once(r)
  <2> SUFFICES ASSUME NEW j \in 1 .. Len(r), NEW k \in 1 .. Len(r), r[j] = r[k]
               PROVE  j = k
    BY DEF Once
  <2>1. CASE j = 1 \/ k = 1
    BY <1>5, <1>6, <2>1
  <2>2. CASE j # 1 /\ k # 1
    <3>1. j - 1 = k - 1
      BY <1>5, <2>2 DEF Lists, Once
    <3> QED
      BY <1>1, <1>3, <3>1
  <2> QED
    BY <2>1, <2>2
<1>8. \A y \in T : Tells(r, y)
  <2>1. ASSUME NEW y \in S
        PROVE  Tells(r, y)
    <3>1. PICK k \in 1 .. Len(q) : q[k] = y
      BY DEF Lists, Tells
    <3>2. k + 1 \in 1 .. Len(r) /\ k + 1 # 1 /\ (k + 1) - 1 = k
      BY <1>1, <1>3
    <3>3. r[k + 1] = y
      BY <1>5, <3>1, <3>2
    <3> QED
      BY <3>2, <3>3 DEF Tells
  <2> QED
    BY <1>6, <2>1 DEF Tells
<1> QED
  BY <1>3, <1>7, <1>8 DEF Lists, r

(* One more behind, as the callback of the scan appends a match. *)
LEMMA ListsLast ==
  ASSUME NEW S, NEW x, x \notin S, NEW q, Lists(q, S)
  PROVE  Lists(Append(q, x), S \cup {x})
<1> DEFINE T == S \cup {x}
           r == Append(q, x)
<1>1. q \in Seq(S) /\ Len(q) \in Nat
  BY DEF Lists
<1>2. q \in Seq(T)
  BY <1>1
<1>3. /\ r \in Seq(T) /\ Len(r) = Len(q) + 1
      /\ \A k \in 1 .. Len(q) : r[k] = q[k]
      /\ r[Len(q) + 1] = x
  BY <1>2
<1> HIDE DEF r
<1>4. \A k \in 1 .. Len(q) : q[k] \in S /\ r[k] # x
  BY <1>1, <1>3
<1>5. \A k \in 1 .. Len(r) : k \in 1 .. Len(q) \/ k = Len(q) + 1
  BY <1>1, <1>3
<1>6. Once(r)
  <2> SUFFICES ASSUME NEW j \in 1 .. Len(r), NEW k \in 1 .. Len(r), r[j] = r[k]
               PROVE  j = k
    BY DEF Once
  <2>1. CASE j \in 1 .. Len(q) /\ k \in 1 .. Len(q)
    BY <1>3, <2>1 DEF Lists, Once
  <2>2. CASE j = Len(q) + 1 \/ k = Len(q) + 1
    BY <1>3, <1>4, <1>5, <2>2
  <2> QED
    BY <1>5, <2>1, <2>2
<1>7. \A y \in T : Tells(r, y)
  <2>1. ASSUME NEW y \in S
        PROVE  Tells(r, y)
    <3>1. PICK k \in 1 .. Len(q) : q[k] = y
      BY DEF Lists, Tells
    <3>2. k \in 1 .. Len(r) /\ r[k] = y
      BY <1>1, <1>3, <3>1
    <3> QED
      BY <3>2 DEF Tells
  <2>2. Len(q) + 1 \in 1 .. Len(r)
    BY <1>1, <1>3
  <2> QED
    BY <1>3, <2>1, <2>2 DEF Tells
<1> QED
  BY <1>3, <1>6, <1>7 DEF Lists, r

(* The same places under the name of their region, as Answer gives them. *)
LEMMA ListsNamed ==
  ASSUME NEW i, NEW S, NEW q, Lists(q, S)
  PROVE  Lists([k \in DOMAIN q |-> <<i, q[k]>>], {<<i, o>> : o \in S})
<1> DEFINE r == [k \in DOMAIN q |-> <<i, q[k]>>]
           T == {<<i, o>> : o \in S}
<1>1. q \in Seq(S) /\ Len(q) \in Nat /\ DOMAIN q = 1 .. Len(q)
  BY DEF Lists
<1>2. \A k \in 1 .. Len(q) : q[k] \in S /\ r[k] = <<i, q[k]>> /\ r[k] \in T
  BY <1>1
<1>3. r \in [1 .. Len(q) -> T]
  BY <1>1, <1>2
<1>4. r \in Seq(T) /\ Len(r) = Len(q)
  <2> HIDE DEF r, T
  <2> QED
    BY <1>1, <1>3, LenProperties
<1> HIDE DEF r
<1>5. Once(r)
  BY <1>2, <1>4 DEF Lists, Once
<1>6. \A y \in T : Tells(r, y)
  <2>1. ASSUME NEW o \in S
        PROVE  Tells(r, <<i, o>>)
    <3>1. PICK k \in 1 .. Len(q) : q[k] = o
      BY DEF Lists, Tells
    <3> QED
      BY <1>2, <1>4, <3>1 DEF Tells
  <2> QED
    BY <2>1
<1> QED
  BY <1>4, <1>5, <1>6 DEF Lists, r

-----------------------------------------------------------------------------
(* Occurrences are places in the region.                                   *)
LEMMA OccurrencesArePlaces ==
  ASSUME NEW p, NEW data \in Seq(Nat)
  PROVE  /\ Len(data) \in Nat
         /\ Occurrences(p, data) \subseteq Nat
         /\ \A o \in Occurrences(p, data) : o < Len(data)
BY DEF Occurrences

(* The occurrences from an offset on, and the first of them.               *)
From(p, data, x) == {o \in Occurrences(p, data) : o >= x}

(* FirstFrom is empty only when nothing is left, and else it holds the first that is left. *)
LEMMA FirstOccurrence ==
  ASSUME NEW p, NEW data \in Seq(Nat), NEW x \in Nat
  PROVE  /\ FirstFrom(p, data, x) = {} => From(p, data, x) = {}
         /\ FirstFrom(p, data, x) # {} =>
              LET o == CHOOSE o \in FirstFrom(p, data, x) : TRUE
              IN /\ o \in Nat /\ o >= x /\ o < Len(data)
                 /\ o \notin From(p, data, o + 1)
                 /\ From(p, data, x) = From(p, data, o + 1) \cup {o}
<1> DEFINE Occ == Occurrences(p, data)
           F == FirstFrom(p, data, x)
<1>1. Occ \subseteq Nat /\ \A o \in Occ : o < Len(data)
  BY OccurrencesArePlaces
<1>2. F = {o \in Occ : o >= x /\ \A q \in Occ : q >= x => o <= q}
  BY DEF FirstFrom
<1>3. \A y : From(p, data, y) = {o \in Occ : o >= y}
  BY DEF From
<1> HIDE DEF Occ, F
<1>4. ASSUME F = {}
      PROVE  From(p, data, x) = {}
  <2> SUFFICES ASSUME From(p, data, x) # {}
               PROVE  FALSE
    OBVIOUS
  <2>1. PICK m \in From(p, data, x) : \A k \in From(p, data, x) : m <= k
    <3>1. From(p, data, x) \in SUBSET Nat
      BY <1>1, <1>3
    <3> QED
      BY <3>1, LeastNatural
  <2> QED
    BY <1>2, <1>3, <1>4, <2>1
<1>5. ASSUME F # {}
      PROVE  LET o == CHOOSE o \in F : TRUE
             IN /\ o \in Nat /\ o >= x /\ o < Len(data)
                /\ o \notin From(p, data, o + 1)
                /\ From(p, data, x) = From(p, data, o + 1) \cup {o}
  <2> DEFINE o == CHOOSE o \in F : TRUE
  <2>1. o \in F
    BY <1>5
  <2> HIDE DEF o
  <2>2. o \in Nat /\ o >= x /\ o < Len(data) /\ o \in Occ /\ \A q \in Occ : q >= x => o <= q
    BY <1>1, <1>2, <2>1
  <2>3. \A q \in Nat : (q >= x => o <= q) => (q >= x <=> q >= o + 1 \/ q = o)
    BY <2>2
  <2>4. ~(o >= o + 1)
    BY <2>2
  <2>5. From(p, data, x) = From(p, data, o + 1) \cup {o}
    <3>1. \A q \in Occ : q >= x <=> q >= o + 1 \/ q = o
      BY <1>1, <2>2, <2>3
    <3> QED
      BY <1>3, <2>2, <3>1
  <2> QED
    BY <1>3, <2>2, <2>4, <2>5 DEF o
<1> QED
  BY <1>4, <1>5 DEF F

(* What a turn of FindAllBytes gives, when g gives the later ones.         *)
TurnOf(p, data, g, x) ==
  IF FirstFrom(p, data, x) = {} THEN <<>>
  ELSE LET o == CHOOSE o \in FirstFrom(p, data, x) : TRUE IN <<o>> \o g[o + 1]
Turns(p, data) == CHOOSE g : g = [x \in 0 .. Len(data) + 1 |-> TurnOf(p, data, g, x)]

(* FindAllBytes is the list of the turn that starts at the front. *)
LEMMA FindAllBytesTurns ==
  ASSUME NEW p, NEW data
  PROVE  FindAllBytes(p, data) = Turns(p, data)[0]
BY DEF FindAllBytes, Turns, TurnOf

(* The recursion has a solution: what solves it from m on extends to one   *)
(* that solves it from m - 1 on.                                           *)
Solves(p, data, g, m) ==
  /\ g \in [m .. Len(data) + 1 -> Seq(Nat)]
  /\ \A x \in m .. Len(data) + 1 : g[x] = TurnOf(p, data, g, x)

(* Some function gives the list of every turn. *)
LEMMA TurnsDefined ==
  ASSUME NEW p, NEW data \in Seq(Nat)
  PROVE  \E g : Solves(p, data, g, 0)
<1> DEFINE n == Len(data)
           A == {m \in 0 .. n + 1 : \E g : Solves(p, data, g, m)}
<1>1. n \in Nat
  OBVIOUS
<1>2. n + 1 \in A
  <2> DEFINE g == [x \in n + 1 .. n + 1 |-> <<>>]
  <2>1. g \in [n + 1 .. n + 1 -> Seq(Nat)]
    <3>1. <<>> \in Seq(Nat)
      OBVIOUS
    <3> QED
      BY <3>1
  <2>2. n + 1 \in Nat /\ \A x \in n + 1 .. n + 1 : x = n + 1 /\ g[x] = <<>>
    BY <1>1
  <2> HIDE DEF g, n
  <2>3. FirstFrom(p, data, n + 1) = {}
    <3>1. \A o \in Nat : ~(o >= n + 1 /\ o < n)
      BY <1>1
    <3> QED
      BY <2>2, <3>1, FirstOccurrence DEF n
  <2>4. \A x \in n + 1 .. n + 1 : g[x] = TurnOf(p, data, g, x)
    BY <2>2, <2>3 DEF TurnOf
  <2>5. Solves(p, data, g, n + 1)
    BY <2>1, <2>4 DEF Solves, n
  <2>6. n + 1 \in 0 .. n + 1
    BY <1>1
  <2> QED
    BY <2>5, <2>6
<1>3. ASSUME NEW m \in A, m # 0
      PROVE  m - 1 \in A
  <2>1. m \in 1 .. n + 1 /\ m - 1 \in 0 .. n + 1
    BY <1>1, <1>3
  <2>2. PICK g : Solves(p, data, g, m)
    BY <1>3
  <2> DEFINE h == [x \in m - 1 .. n + 1 |-> IF x = m - 1 THEN TurnOf(p, data, g, x) ELSE g[x]]
  <2>3. \A x \in m - 1 .. n + 1 : x \in Nat /\ (x = m - 1 \/ x \in m .. n + 1)
    BY <1>1, <2>1
  <2>4. \A x \in m .. n + 1 : x \in m - 1 .. n + 1 /\ x # m - 1
    BY <1>1, <2>1
  <2>5. \A x \in m .. n + 1 : h[x] = g[x] /\ g[x] \in Seq(Nat)
    BY <2>2, <2>4 DEF Solves
  <2>6. m - 1 \in m - 1 .. n + 1
    BY <1>1, <2>1
  <2>7. h[m - 1] = TurnOf(p, data, g, m - 1)
    BY <2>6
  <2> HIDE DEF h, A, n
  <2>8. \A x \in m - 1 .. n + 1 : TurnOf(p, data, h, x) = TurnOf(p, data, g, x) /\ TurnOf(p, data, g, x) \in Seq(Nat)
    <3> SUFFICES ASSUME NEW x \in m - 1 .. n + 1
                 PROVE  TurnOf(p, data, h, x) = TurnOf(p, data, g, x) /\ TurnOf(p, data, g, x) \in Seq(Nat)
      OBVIOUS
    <3>1. CASE FirstFrom(p, data, x) = {}
      BY <3>1 DEF TurnOf
    <3>2. CASE FirstFrom(p, data, x) # {}
      <4> DEFINE o == CHOOSE o \in FirstFrom(p, data, x) : TRUE
      <4>1. x \in Nat
        BY <2>3
      <4>2. o \in Nat /\ o >= x /\ o < n
        BY <3>2, <4>1, FirstOccurrence DEF n
      <4>3. TurnOf(p, data, h, x) = <<o>> \o h[o + 1] /\ TurnOf(p, data, g, x) = <<o>> \o g[o + 1]
        BY <3>2 DEF TurnOf
      <4> HIDE DEF o
      <4>4. o + 1 \in m .. n + 1
        BY <1>1, <2>1, <4>2
      <4>5. h[o + 1] = g[o + 1] /\ g[o + 1] \in Seq(Nat)
        BY <2>5, <4>4
      <4>6. <<o>> \in Seq(Nat)
        BY <4>2
      <4>7. <<o>> \o g[o + 1] \in Seq(Nat)
        BY <4>5, <4>6
      <4> QED
        BY <4>3, <4>5, <4>7
    <3> QED
      BY <3>1, <3>2
  <2>9. \A x \in m - 1 .. n + 1 : h[x] = TurnOf(p, data, h, x)
    <3> SUFFICES ASSUME NEW x \in m - 1 .. n + 1
                 PROVE  h[x] = TurnOf(p, data, h, x)
      OBVIOUS
    <3>1. CASE x = m - 1
      BY <2>7, <2>8, <3>1
    <3>2. CASE x \in m .. n + 1
      <4>1. h[x] = g[x] /\ g[x] = TurnOf(p, data, g, x)
        BY <2>2, <2>5, <3>2 DEF Solves, n
      <4> QED
        BY <2>8, <4>1
    <3> QED
      BY <2>3, <3>1, <3>2
  <2>10. h \in [m - 1 .. n + 1 -> Seq(Nat)]
    <3>1. \A x \in m - 1 .. n + 1 : h[x] \in Seq(Nat)
      BY <2>8, <2>9
    <3>2. h = [x \in m - 1 .. n + 1 |-> h[x]]
      BY DEF h
    <3> QED
      BY <3>1, <3>2
  <2>11. Solves(p, data, h, m - 1)
    BY <2>9, <2>10 DEF Solves, n
  <2> QED
    BY <2>1, <2>11 DEF A
<1>4. PICK m \in A : \A k \in A : m <= k
  <2>1. A \in SUBSET Nat
    BY <1>1
  <2> HIDE DEF A
  <2> QED
    BY <1>2, <2>1, LeastNatural
<1>5. m = 0
  <2>1. m \in Nat
    BY <1>1
  <2>2. m # 0 => m - 1 \in A
    BY <1>3
  <2>3. ~(m <= m - 1)
    BY <2>1
  <2> QED
    BY <1>4, <2>2, <2>3
<1> QED
  BY <1>4, <1>5

(* So does the function that is chosen. *)
LEMMA TurnsSolve ==
  ASSUME NEW p, NEW data \in Seq(Nat)
  PROVE  \A x \in 0 .. Len(data) + 1 : Turns(p, data)[x] = TurnOf(p, data, Turns(p, data), x)
<1>1. PICK g : Solves(p, data, g, 0)
  BY TurnsDefined
<1>2. g = [x \in 0 .. Len(data) + 1 |-> TurnOf(p, data, g, x)]
  BY <1>1 DEF Solves
<1>3. Turns(p, data) = [x \in 0 .. Len(data) + 1 |-> TurnOf(p, data, Turns(p, data), x)]
  BY <1>2 DEF Turns
<1> QED
  BY <1>3

(* FindAllBytes finds every occurrence, each once: by induction on what is *)
(* left of the region.                                                     *)
LEMMA FindAllBytesLists ==
  ASSUME NEW p, NEW data \in Seq(Nat)
  PROVE  Lists(FindAllBytes(p, data), Occurrences(p, data))
<1> DEFINE n == Len(data)
           f == Turns(p, data)
           Fine(x) == Lists(f[x], From(p, data, x))
           Bad == {k \in 0 .. n + 1 : ~Fine((n + 1) - k)}
<1>1. n \in Nat
  OBVIOUS
<1>2. \A x \in 0 .. n + 1 : f[x] = TurnOf(p, data, f, x)
  BY TurnsSolve
<1> HIDE DEF f, n
<1>3. Bad = {}
  <2> SUFFICES ASSUME Bad # {}
               PROVE  FALSE
    OBVIOUS
  <2>1. PICK k \in Bad : \A j \in Bad : k <= j
    <3>1. Bad \in SUBSET Nat
      BY <1>1
    <3> HIDE DEF Bad
    <3> QED
      BY <3>1, LeastNatural
  <2> DEFINE x == (n + 1) - k
  <2>2. k \in Nat /\ x \in 0 .. n + 1 /\ x \in Nat /\ ~Fine(x)
    BY <1>1, <2>1
  <2>3. \A y \in 0 .. n + 1 : y > x => Fine(y)
    <3> SUFFICES ASSUME NEW y \in 0 .. n + 1, y > x
                 PROVE  Fine(y)
      OBVIOUS
    <3>1. (n + 1) - y \in 0 .. n + 1 /\ (n + 1) - ((n + 1) - y) = y /\ ~(k <= (n + 1) - y)
      BY <1>1, <2>2
    <3> QED
      BY <2>1, <3>1
  <2> HIDE DEF x, Bad, Fine
  <2>4. CASE FirstFrom(p, data, x) = {}
    <3>1. f[x] = <<>> /\ From(p, data, x) = {}
      BY <1>2, <2>2, <2>4, FirstOccurrence DEF TurnOf
    <3> QED
      BY <2>2, <3>1, ListsNothing DEF Fine
  <2>5. CASE FirstFrom(p, data, x) # {}
    <3> DEFINE o == CHOOSE o \in FirstFrom(p, data, x) : TRUE
    <3>1. /\ o \in Nat /\ o >= x /\ o < n
          /\ o \notin From(p, data, o + 1)
          /\ From(p, data, x) = From(p, data, o + 1) \cup {o}
      BY <2>2, <2>5, FirstOccurrence DEF n
    <3>2. f[x] = <<o>> \o f[o + 1]
      BY <1>2, <2>2, <2>5 DEF TurnOf
    <3> HIDE DEF o
    <3>3. o + 1 \in 0 .. n + 1 /\ o + 1 > x
      BY <1>1, <2>2, <3>1
    <3>4. Lists(f[o + 1], From(p, data, o + 1))
      BY <2>3, <3>3 DEF Fine
    <3>5. Lists(<<o>> \o f[o + 1], From(p, data, o + 1) \cup {o})
      BY <3>1, <3>4, ListsFirst
    <3> QED
      BY <2>2, <3>1, <3>2, <3>5 DEF Fine
  <2> QED
    BY <2>4, <2>5
<1>4. Fine(0)
  <2>1. n + 1 \in 0 .. n + 1 /\ (n + 1) - (n + 1) = 0
    BY <1>1
  <2> QED
    BY <1>3, <2>1
<1>5. From(p, data, 0) = Occurrences(p, data)
  BY OccurrencesArePlaces DEF From
<1> QED
  BY <1>4, <1>5, FindAllBytesTurns DEF f

-----------------------------------------------------------------------------
(* A part of the region, as a read returns it.                             *)
LEMMA BytesAt ==
  ASSUME NEW d \in Seq(Nat), NEW off \in Nat, NEW size \in Nat, off + size <= Len(d)
  PROVE  /\ SubSeq(d, off + 1, off + size) \in Seq(Nat)
         /\ Len(SubSeq(d, off + 1, off + size)) = size
         /\ \A k \in 1 .. size : SubSeq(d, off + 1, off + size)[k] = d[off + k]
<1>1. \A i \in off + 1 .. off + size : i \in 1 .. Len(d)
  OBVIOUS
<1>2. \A i \in off + 1 .. off + size : d[i] \in Nat
  BY <1>1
<1>3. off + 1 \in Int /\ off + size \in Int
  OBVIOUS
<1> DEFINE q == SubSeq(d, off + 1, off + size)
<1>4. /\ q \in Seq(Nat)
      /\ Len(q) = IF off + 1 <= off + size THEN (off + size) - (off + 1) + 1 ELSE 0
      /\ \A i \in 1 .. (off + size) - (off + 1) + 1 : q[i] = d[(off + 1) + i - 1]
  BY <1>2, <1>3, SubSeqProperties
<1> HIDE DEF q
<1>5. Len(q) = size
  BY <1>4
<1>6. \A k \in 1 .. size : k \in 1 .. (off + size) - (off + 1) + 1 /\ (off + 1) + k - 1 = off + k
  OBVIOUS
<1>7. \A k \in 1 .. size : q[k] = d[off + k]
  BY <1>4, <1>6
<1> QED
  BY <1>4, <1>5, <1>7 DEF q

(* How much is read: at least two bytes and at least the window, or the    *)
(* rest of the region.                                                     *)
LEMMA ReadSizes ==
  ASSUME NEW need \in Nat, need > 0
  PROVE  ReadSize(need) \in Nat /\ ReadSize(need) >= need /\ ReadSize(need) >= 2
<1>1. MinRead \in Nat /\ MinRead >= 2
  BY ScanAssumption
<1> QED
  BY <1>1 DEF ReadSize

(* The fields of a reader that is slid, and of one that has read.          *)
LEMMA SlideKeeps ==
  ASSUME NEW d \in Seq(Nat), NEW r, Buffered(r, d)
  PROVE  /\ Buffered(Slide(r), d)
         /\ Slide(r).off = r.off /\ Slide(r).remain = r.remain /\ Slide(r).done = r.done
         /\ Slide(r).lastOffset = r.lastOffset /\ Slide(r).bufOffset = r.bufOffset
         /\ Slide(r).hasMore = r.hasMore /\ Slide(r).last = r.last
         /\ Len(Slide(r).buf) = IF r.bufOffset > 0 /\ Len(r.buf) > 0 THEN Len(r.buf) - 1 ELSE Len(r.buf)
<1> DEFINE s == Slide(r)
           L == Len(r.buf)
<1>1. r \in Reader
  BY DEF Buffered
<1>2. r.buf \in Seq(Nat) /\ L \in Nat /\ r.off \in Nat /\ r.bufOffset \in Nat
  BY <1>1 DEF Reader
<1>3. /\ s.off = r.off /\ s.remain = r.remain /\ s.done = r.done
      /\ s.lastOffset = r.lastOffset /\ s.bufOffset = r.bufOffset
      /\ s.hasMore = r.hasMore /\ s.last = r.last
      /\ s.buf = IF r.bufOffset > 0 /\ r.buf # <<>> THEN Tail(r.buf) ELSE r.buf
  BY <1>1 DEF Slide, Reader
<1>4. CASE r.bufOffset > 0 /\ r.buf # <<>>
  <2>1. /\ s.buf \in Seq(Nat) /\ Len(s.buf) = L - 1
        /\ \A k \in 1 .. L - 1 : s.buf[k] = r.buf[k + 1]
    BY <1>2, <1>3, <1>4, HeadTailProperties
  <2>2. L > 0
    BY <1>2, <1>4
  <2>3. \A k \in 1 .. L - 1 : k + 1 \in 1 .. L /\ (r.off - L) + (k + 1) = (r.off - (L - 1)) + k
    <3>1. \A l, o \in Nat : \A k \in 1 .. l - 1 : k + 1 \in 1 .. l /\ (o - l) + (k + 1) = (o - (l - 1)) + k
      OBVIOUS
    <3> HIDE DEF L
    <3> QED
      BY <1>2, <3>1
  <2>4. \A k \in 1 .. L : r.buf[k] = d[(r.off - L) + k]
    BY DEF Buffered
  <2>6. s \in Reader
    BY <1>1, <1>3, <1>4, <2>1 DEF Slide, Reader
  <2> HIDE DEF L, s
  <2>5. \A k \in 1 .. Len(s.buf) : s.buf[k] = d[s.off - Len(s.buf) + k]
    BY <1>3, <2>1, <2>3, <2>4
  <2>7. Len(s.buf) <= s.off
    BY <1>2, <1>3, <2>1 DEF Buffered, L
  <2>8. Buffered(s, d)
    BY <1>3, <2>5, <2>6, <2>7 DEF Buffered
  <2> QED
    BY <1>3, <1>4, <2>1, <2>2, <2>8 DEF s, L
<1>5. CASE ~(r.bufOffset > 0 /\ r.buf # <<>>)
  <2>1. s.buf = r.buf
    BY <1>3, <1>5
  <2>2. s = r
    BY <1>1, <1>5 DEF Slide, Reader
  <2>3. r.buf = <<>> => ~(L > 0)
    BY <1>2
  <2> QED
    BY <1>3, <1>5, <2>2, <2>3 DEF s, L
<1> QED
  BY <1>4, <1>5

(* A read lengthens the window and leaves the place where it starts. *)
LEMMA ReadKeeps ==
  ASSUME NEW d \in Seq(Nat), NEW r, Buffered(r, d), NEW need \in Nat, need > 0
  PROVE  LET s == Read(r, need, d)
         IN /\ Buffered(s, d)
            /\ s.lastOffset = r.lastOffset /\ s.bufOffset = r.bufOffset
            /\ s.hasMore = r.hasMore /\ s.last = r.last
            /\ Len(s.buf) >= Len(r.buf) /\ s.off - Len(s.buf) = r.off - Len(r.buf)
            /\ ~s.done => Len(s.buf) >= need /\ Len(s.buf) >= 2
            /\ r.done => s = r
<1> DEFINE s == Read(r, need, d)
           L == Len(r.buf)
           size == Smaller(ReadSize(need), r.remain)
           piece == SubSeq(d, r.off + 1, r.off + size)
<1>1. r \in Reader
  BY DEF Buffered
<1>2. r.buf \in Seq(Nat) /\ L \in Nat /\ r.off \in Nat /\ r.bufOffset \in Nat /\ r.remain \in Nat /\ r.done \in BOOLEAN
  BY <1>1 DEF Reader
<1>3. ReadSize(need) \in Nat /\ ReadSize(need) >= need /\ ReadSize(need) >= 2
  BY ReadSizes
<1>4. CASE ~WantsRead(r, need)
  <2>1. s = r
    BY <1>4 DEF Read
  <2>2. ~r.done => L >= need /\ L >= 2
    BY <1>2, <1>4 DEF WantsRead
  <2> QED
    BY <1>2, <2>1, <2>2
<1>5. CASE WantsRead(r, need)
  <2>1. /\ s.lastOffset = r.lastOffset /\ s.bufOffset = r.bufOffset
        /\ s.hasMore = r.hasMore /\ s.last = r.last
        /\ s.done = (ReadSize(need) > r.remain)
        /\ s.remain = r.remain - size
        /\ s.buf = r.buf \o piece
        /\ s.off = r.off + size
        /\ s = [buf |-> s.buf, remain |-> s.remain, off |-> s.off, lastOffset |-> r.lastOffset,
                bufOffset |-> r.bufOffset, done |-> s.done, hasMore |-> r.hasMore, last |-> r.last]
    BY <1>1, <1>5 DEF Read, Reader
  <2>2. /\ size \in Nat /\ size <= r.remain
        /\ ReadSize(need) > r.remain => size = r.remain
        /\ ~(ReadSize(need) > r.remain) => size = ReadSize(need)
    BY <1>2, <1>3 DEF Smaller
  <2>3. r.off + r.remain = Len(d) /\ L <= r.off
    BY DEF Buffered
  <2> HIDE DEF s, size
  <2>4. r.off + size <= Len(d)
    BY <1>2, <2>2, <2>3
  <2>5. piece \in Seq(Nat) /\ Len(piece) = size /\ \A k \in 1 .. size : piece[k] = d[r.off + k]
    BY <1>2, <2>2, <2>4, BytesAt
  <2> HIDE DEF piece
  <2>6. /\ s.buf \in Seq(Nat) /\ Len(s.buf) = L + size
        /\ \A i \in 1 .. L + size : s.buf[i] = IF i <= L THEN r.buf[i] ELSE piece[i - L]
    <3>1. /\ r.buf \o piece \in Seq(Nat)
          /\ Len(r.buf \o piece) = L + Len(piece)
          /\ \A i \in 1 .. L + Len(piece) : (r.buf \o piece)[i] = IF i <= L THEN r.buf[i] ELSE piece[i - L]
      BY <1>2, <2>5, ConcatProperties
    <3> HIDE DEF L
    <3> QED
      BY <2>1, <2>5, <3>1
  <2>7. \A k \in 1 .. L : r.buf[k] = d[(r.off - L) + k]
    BY DEF Buffered
  <2> HIDE DEF L
  <2>8. \A i \in 1 .. L + size : s.buf[i] = d[(r.off - L) + i]
    <3> SUFFICES ASSUME NEW i \in 1 .. L + size
                 PROVE  s.buf[i] = d[(r.off - L) + i]
      OBVIOUS
    <3>1. CASE i <= L
      <4>1. i \in 1 .. L
        BY <1>2, <2>2, <3>1
      <4> QED
        BY <2>6, <2>7, <3>1, <4>1
    <3>2. CASE ~(i <= L)
      <4>1. i - L \in 1 .. size /\ r.off + (i - L) = (r.off - L) + i
        BY <1>2, <2>2, <3>2
      <4> QED
        BY <2>5, <2>6, <3>2, <4>1
    <3> QED
      BY <3>1, <3>2
  <2>9. s.off - Len(s.buf) = r.off - L /\ Len(s.buf) >= L /\ Len(s.buf) <= s.off
    BY <1>2, <2>1, <2>2, <2>3, <2>6
  <2>10. s.off + s.remain = Len(d) /\ (s.done => s.remain = 0) /\ s.remain \in Nat /\ s.off \in Nat
    <3>1. \A o, m, k, n \in Nat : k <= m /\ o + m = n => (o + k) + (m - k) = n /\ m - k \in Nat /\ o + k \in Nat /\ m - m = 0
      OBVIOUS
    <3>2. Len(d) \in Nat
      OBVIOUS
    <3>3. s.done => size = r.remain
      BY <2>1, <2>2
    <3>4. s.done => s.remain = 0
      <4>1. \A m \in Nat : m - m = 0
        OBVIOUS
      <4>2. s.remain = r.remain - size
        BY <2>1
      <4> QED
        BY <1>2, <3>3, <4>1, <4>2
    <3>5. s.off = r.off + size /\ s.remain = r.remain - size
      BY <2>1
    <3>6. /\ (r.off + size) + (r.remain - size) = Len(d)
          /\ r.remain - size \in Nat /\ r.off + size \in Nat
      BY <1>2, <2>2, <2>3, <3>1, <3>2
    <3> QED
      BY <3>4, <3>5, <3>6
  <2>11. s.done \in BOOLEAN
    BY <2>1
  <2>12. s \in Reader
    BY <1>1, <2>1, <2>6, <2>10, <2>11 DEF Reader
  <2>13. Buffered(s, d)
    BY <2>6, <2>8, <2>9, <2>10, <2>12 DEF Buffered
  <2>14. ~s.done => Len(s.buf) >= need /\ Len(s.buf) >= 2
    <3>1. ~s.done => size = ReadSize(need)
      BY <2>1, <2>2
    <3>2. \A l, k \in Nat : k >= need /\ k >= 2 => l + k >= need /\ l + k >= 2
      OBVIOUS
    <3> QED
      BY <1>2, <1>3, <2>6, <3>1, <3>2
  <2>15. ~r.done
    BY <1>5 DEF WantsRead
  <2> QED
    BY <2>1, <2>9, <2>13, <2>14, <2>15 DEF s, L
<1> QED
  BY <1>4, <1>5

(* A new reader is in place, and Next keeps it so.                         *)
LEMMA ReaderStarts ==
  ASSUME NEW d \in Seq(Nat), NEW need \in Nat
  PROVE  /\ NewBufferedReader(Len(d)) \in Reader
         /\ InPlace(NewBufferedReader(Len(d)), need, d)
<1> DEFINE r == NewBufferedReader(Len(d))
<1>1. <<>> \in Seq(Nat) /\ Len(<<>>) = 0 /\ Len(d) \in Nat
  OBVIOUS
<1>2. r \in Reader
  BY <1>1 DEF NewBufferedReader, Reader
<1>3. /\ r.buf = <<>> /\ r.remain = Len(d) /\ r.off = 0 /\ r.lastOffset = 0 /\ r.bufOffset = 0
      /\ ~r.done /\ r.hasMore /\ r.last = <<>>
  BY DEF NewBufferedReader
<1> HIDE DEF r
<1>4. \A k \in 1 .. Len(r.buf) : FALSE
  BY <1>1, <1>3
<1>5. Buffered(r, d)
  <2>1. r.off + r.remain = Len(d) /\ Len(r.buf) <= r.off
    BY <1>1, <1>3
  <2> QED
    BY <1>2, <1>3, <1>4, <2>1 DEF Buffered
<1> QED
  BY <1>2, <1>3, <1>5 DEF InPlace, r

(* A chunk moves the window by one byte, and keeps it in place. *)
LEMMA ChunkKeeps ==
  ASSUME NEW d \in Seq(Nat), NEW need \in Nat, need > 0, NEW r, InPlace(r, need, d), r.hasMore
  PROVE  LET c == Chunk(r, need, d)
         IN /\ InPlace(c, need, d)
            /\ c.bufOffset > 0 => /\ c.lastOffset = r.bufOffset
                                  /\ c.bufOffset = r.bufOffset + 1
                                  /\ r.bufOffset < Len(d)
            /\ c.bufOffset = 0 => c.last = <<>> /\ r.bufOffset = 0
<1> DEFINE c == Chunk(r, need, d)
           v == Slide(r)
           s == Read(v, need, d)
           L == Len(s.buf)
           b == r.bufOffset
           wide == Smaller(need, L)
<1>1. Buffered(r, d) /\ r \in Reader /\ Len(d) \in Nat
  BY DEF InPlace, Buffered
<1>2. /\ r.buf \in Seq(Nat) /\ Len(r.buf) \in Nat /\ r.off \in Nat /\ b \in Nat /\ r.remain \in Nat
      /\ r.done \in BOOLEAN /\ r.lastOffset \in Nat
  BY <1>1 DEF Reader
<1>3. /\ Buffered(v, d)
      /\ v.off = r.off /\ v.remain = r.remain /\ v.done = r.done
      /\ v.lastOffset = r.lastOffset /\ v.bufOffset = b
      /\ v.hasMore = r.hasMore /\ v.last = r.last
      /\ Len(v.buf) = IF b > 0 /\ Len(r.buf) > 0 THEN Len(r.buf) - 1 ELSE Len(r.buf)
  BY <1>1, SlideKeeps
<1> HIDE DEF v
<1>4. /\ Buffered(s, d)
      /\ s.lastOffset = r.lastOffset /\ s.bufOffset = b
      /\ s.hasMore = r.hasMore /\ s.last = r.last
      /\ Len(s.buf) >= Len(v.buf) /\ s.off - Len(s.buf) = v.off - Len(v.buf)
      /\ ~s.done => Len(s.buf) >= need /\ Len(s.buf) >= 2
      /\ v.done => s = v
  BY <1>3, ReadKeeps
<1>5. s \in Reader
  BY <1>4 DEF Buffered
<1> HIDE DEF s
<1>6. /\ s.buf \in Seq(Nat) /\ L \in Nat /\ s.off \in Nat /\ s.remain \in Nat /\ s.done \in BOOLEAN
      /\ s.lastOffset \in Nat /\ s.bufOffset \in Nat /\ s.last \in Seq(Nat)
  BY <1>5 DEF Reader
<1>7. s.buf = <<>> <=> L = 0
  BY <1>6
<1>8. /\ c.buf = s.buf /\ c.remain = s.remain /\ c.off = s.off /\ c.done = s.done
      /\ c.last = SubSeq(s.buf, 1, wide)
      /\ c.lastOffset = IF s.buf = <<>> THEN s.lastOffset ELSE s.bufOffset
      /\ c.bufOffset = IF s.buf = <<>> THEN s.bufOffset ELSE s.bufOffset + 1
  BY <1>5 DEF Chunk, Reader, s, v
<1>9. c.hasMore = ~(c.done /\ c.off = c.bufOffset)
  BY <1>5 DEF Chunk, Reader, s, v
<1>10. wide \in Nat /\ wide <= L /\ (wide = need \/ wide = L)
  BY <1>6 DEF Smaller
<1>11. c.last \in Seq(Nat) /\ Len(c.last) = wide /\ \A k \in 1 .. wide : c.last[k] = s.buf[k]
  <2>1. \A k \in 1 .. wide : k \in 1 .. L
    BY <1>6, <1>10
  <2>2. \A k \in 1 .. wide : s.buf[k] \in Nat
    BY <1>6, <2>1
  <2> HIDE DEF wide, L
  <2>3. SubSeq(s.buf, 0 + 1, 0 + wide) = SubSeq(s.buf, 1, wide)
    BY <1>10
  <2>4. /\ SubSeq(s.buf, 0 + 1, 0 + wide) \in Seq(Nat)
        /\ Len(SubSeq(s.buf, 0 + 1, 0 + wide)) = wide
        /\ \A k \in 1 .. wide : SubSeq(s.buf, 0 + 1, 0 + wide)[k] = s.buf[0 + k]
    <3>1. 0 + wide <= Len(s.buf)
      BY <1>10 DEF L
    <3>2. 0 \in Nat
      OBVIOUS
    <3> QED
      BY <1>6, <1>10, <3>1, <3>2, BytesAt
  <2>5. \A k \in 1 .. wide : 0 + k = k
    BY <1>10
  <2> QED
    BY <1>8, <2>3, <2>4, <2>5
<1>12. c \in Reader
  <2>1. c.hasMore \in BOOLEAN
    BY <1>9
  <2>2. c.lastOffset \in Nat /\ c.bufOffset \in Nat
    BY <1>6, <1>8
  <2> DEFINE empty == s.buf = <<>>
             step == [s EXCEPT !.last = SubSeq(s.buf, 1, wide),
                               !.lastOffset = IF empty THEN @ ELSE s.bufOffset,
                               !.bufOffset = IF empty THEN @ ELSE @ + 1]
  <2>3. c = [step EXCEPT !.hasMore = ~(step.done /\ step.off = step.bufOffset)]
    BY DEF Chunk, s, v
  <2>4. step \in Reader
    <3> DEFINE x == SubSeq(s.buf, 1, wide)
               lo == IF empty THEN s.lastOffset ELSE s.bufOffset
               bo == IF empty THEN s.bufOffset ELSE s.bufOffset + 1
    <3>1. x \in Seq(Nat)
      BY <1>8, <1>11
    <3>2. lo \in Nat /\ bo \in Nat
      BY <1>6
    <3>3. step = [s EXCEPT !.last = x, !.lastOffset = lo, !.bufOffset = bo]
      BY <1>5 DEF Reader
    <3> HIDE DEF x, lo, bo, empty, step
    <3> QED
      BY <1>5, <3>1, <3>2, <3>3 DEF Reader
  <2> HIDE DEF step
  <2> QED
    BY <2>3, <2>4 DEF Reader
<1> HIDE DEF c, L, wide
<1>13. Buffered(c, d)
  BY <1>4, <1>8, <1>12 DEF Buffered
<1>14. CASE L = 0
  <2>1. s.done
    BY <1>4, <1>6, <1>14 DEF L
  <2>2. s.off = Len(d)
    BY <1>1, <1>4, <1>6, <2>1 DEF Buffered
  <2>3. b = 0
    <3> SUFFICES ASSUME b > 0
                 PROVE  FALSE
      BY <1>2
    <3>1. /\ r.lastOffset = b - 1 /\ Len(r.buf) > 0 /\ r.off = r.lastOffset + Len(r.buf)
          /\ ~r.done => Len(r.buf) >= 2
          /\ ~(r.done /\ r.off = b)
      BY DEF InPlace
    <3>2. Len(v.buf) = Len(r.buf) - 1 /\ Len(v.buf) <= 0
      BY <1>2, <1>3, <1>4, <1>14, <3>1 DEF L
    <3>3. Len(r.buf) = 1
      BY <1>2, <3>1, <3>2
    <3>4. r.off = b /\ r.done
      BY <1>2, <3>1, <3>3
    <3> QED
      BY <3>1, <3>4
  <2>4. c.bufOffset = 0 /\ c.lastOffset = 0 /\ c.buf = <<>>
    BY <1>4, <1>7, <1>8, <1>14, <2>3 DEF InPlace
  <2>5. c.last = <<>>
    <3>1. wide = 0
      BY <1>6, <1>10, <1>14
    <3> QED
      BY <1>11, <3>1
  <2>6. r.buf = <<>> /\ r.off = 0
    BY <2>3 DEF InPlace
  <2>7. s.off = 0
    <3>1. Len(r.buf) = 0 /\ Len(v.buf) = 0
      BY <1>3, <2>3, <2>6
    <3>2. v.off = 0 /\ s.off - 0 = v.off - 0
      BY <1>3, <1>4, <1>14, <2>6, <3>1 DEF L
    <3> QED
      BY <1>6, <3>2
  <2>8. Len(d) = 0 /\ c.off = 0
    BY <1>8, <2>2, <2>7
  <2>9. InPlace(c, need, d)
    BY <1>13, <2>4, <2>5, <2>8 DEF InPlace
  <2> QED
    BY <2>3, <2>4, <2>5, <2>9 DEF c
<1>15. CASE L # 0
  <2>1. c.lastOffset = b /\ c.bufOffset = b + 1 /\ L > 0
    BY <1>4, <1>6, <1>7, <1>8, <1>15
  <2>2. c.off = b + L
    <3>1. v.off = b + Len(v.buf)
      <4>1. CASE b = 0
        <5>1. r.buf = <<>> /\ r.off = 0 /\ Len(r.buf) = 0
          BY <4>1 DEF InPlace
        <5>2. Len(v.buf) = 0 /\ v.off = 0
          BY <1>3, <4>1, <5>1
        <5> QED
          BY <4>1, <5>2
      <4>2. CASE b > 0
        <5>1. r.lastOffset = b - 1 /\ Len(r.buf) > 0 /\ r.off = r.lastOffset + Len(r.buf)
          BY <4>2 DEF InPlace
        <5>2. Len(v.buf) = Len(r.buf) - 1
          BY <1>3, <4>2, <5>1
        <5>3. \A x, n \in Nat : (x - 1) + n = x + (n - 1)
          OBVIOUS
        <5>4. v.off = (b - 1) + Len(r.buf)
          BY <1>3, <5>1
        <5>5. (b - 1) + Len(r.buf) = b + (Len(r.buf) - 1)
          <6>1. b \in Nat /\ Len(r.buf) \in Nat
            BY <1>2
          <6> QED
            BY <5>3, <6>1
        <5> QED
          BY <5>2, <5>4, <5>5
      <4> QED
        BY <1>2, <4>1, <4>2
    <3>2. Len(v.buf) \in Nat
      BY <1>2, <1>3
    <3>3. s.off - L = v.off - Len(v.buf)
      BY <1>4 DEF L
    <3>4. s.off = b + L
      BY <1>2, <1>6, <3>1, <3>2, <3>3
    <3> QED
      BY <1>8, <3>4
  <2>3. ~c.done => L >= need /\ L >= 2
    BY <1>4, <1>8 DEF L
  <2>4. c.off + c.remain = Len(d) /\ (c.done => c.remain = 0) /\ c.remain \in Nat
    BY <1>6, <1>8, <1>13 DEF Buffered
  <2>5. Len(c.last) = Smaller(need, Len(d) - c.lastOffset)
    <3>1. Len(d) - c.lastOffset = L + c.remain
      BY <1>1, <1>2, <1>6, <2>1, <2>2, <2>4
    <3>2. CASE c.done
      <4>1. L + c.remain = L
        BY <1>6, <2>4, <3>2
      <4> QED
        BY <1>11, <3>1, <4>1 DEF wide
    <3>3. CASE ~c.done
      <4>1. L >= need /\ L + c.remain >= need
        BY <1>6, <2>3, <2>4, <3>3
      <4>2. Smaller(need, L) = need /\ Smaller(need, L + c.remain) = need
        BY <1>6, <2>4, <4>1 DEF Smaller
      <4> QED
        BY <1>11, <3>1, <4>2 DEF wide
    <3> QED
      BY <3>2, <3>3
  <2>6. \A k \in 1 .. Len(c.last) : c.last[k] = d[c.lastOffset + k]
    <3> SUFFICES ASSUME NEW k \in 1 .. Len(c.last)
                 PROVE  c.last[k] = d[c.lastOffset + k]
      OBVIOUS
    <3>1. k \in 1 .. wide /\ k \in 1 .. L
      BY <1>6, <1>10, <1>11
    <3>2. s.buf[k] = d[(s.off - L) + k]
      BY <1>4, <3>1 DEF Buffered, L
    <3>3. s.off - L = b
      BY <1>2, <1>6, <1>8, <2>2
    <3> QED
      BY <1>11, <2>1, <3>1, <3>2, <3>3
  <2>7. b < Len(d)
    BY <1>1, <1>2, <1>6, <2>1, <2>2, <2>4
  <2>8. Len(c.buf) = L
    BY <1>8 DEF L
  <2>9. c.lastOffset = c.bufOffset - 1 /\ c.bufOffset > 0 /\ c.bufOffset # 0
    <3>1. \A n \in Nat : n = (n + 1) - 1 /\ n + 1 > 0 /\ n + 1 # 0
      OBVIOUS
    <3> QED
      BY <1>2, <2>1, <3>1
  <2>10. c.hasMore <=> ~(c.done /\ c.off = c.bufOffset)
    BY <1>9
  <2>11. InPlace(c, need, d)
    BY <1>13, <2>1, <2>2, <2>3, <2>5, <2>6, <2>8, <2>9, <2>10 DEF InPlace
  <2> QED
    BY <2>1, <2>7, <2>9, <2>11 DEF c
<1> QED
  BY <1>14, <1>15

(* The window at an offset matches where the pattern is in the region.     *)
LEMMA WindowMatches ==
  ASSUME NEW d \in Seq(Nat), NEW p, Len(p) \in Nat, Len(p) > 0,
         NEW b \in Nat, b < Len(d),
         NEW q \in Seq(Nat), Len(q) = Smaller(Len(p), Len(d) - b),
         \A k \in 1 .. Len(q) : q[k] = d[b + k]
  PROVE  Matches(p, q) <=> b \in Occurrences(p, d)
<1>1. b \in 0 .. Len(d) - 1 /\ Len(d) - b \in Nat
  OBVIOUS
<1>2. CASE b + Len(p) <= Len(d)
  <2> DEFINE t == SubSeq(d, b + 1, b + Len(p))
  <2>1. t \in Seq(Nat) /\ Len(t) = Len(p) /\ \A k \in 1 .. Len(p) : t[k] = d[b + k]
    BY <1>2, BytesAt
  <2>2. Len(q) = Len(p)
    BY <1>1, <1>2 DEF Smaller
  <2> HIDE DEF t
  <2>3. q = t
    BY <2>1, <2>2, SeqEqual
  <2> QED
    BY <1>1, <1>2, <2>3 DEF Occurrences, t
<1>3. CASE ~(b + Len(p) <= Len(d))
  <2>1. Len(q) # Len(p)
    BY <1>1, <1>3 DEF Smaller
  <2> QED
    BY <1>3, <2>1 DEF Occurrences, Matches
<1> QED
  BY <1>2, <1>3

-----------------------------------------------------------------------------
(* What the inputs are.                                                    *)
LEMMA Inputs ==
  ASSUME Types
  PROVE  /\ Len(pattern) \in Nat
         /\ Len(regions) \in Nat /\ DOMAIN regions = 1 .. Len(regions)
         /\ \A i \in DOMAIN regions : i \in Nat /\ i # Nothing /\ regions[i].data \in Seq(Nat)
         /\ Selected \subseteq DOMAIN regions
         /\ Cardinality(Workers) \in Nat
<1>1. pattern \in Seq(Nat \cup {Wild})
  BY ScanAssumption DEF Types
<1>2. regions \in Seq([base : Nat, readable : BOOLEAN, data : Seq(Nat)])
  BY ScanAssumption DEF Types
<1>3. Selected \subseteq DOMAIN regions
  BY DEF Selected
<1>4. Cardinality(Workers) \in Nat
  BY ScanAssumption, FS_CardinalityType
<1>5. Nothing \notin Nat
  BY ScanAssumption
<1>6. \A i \in DOMAIN regions : i \in Nat /\ regions[i].data \in Seq(Nat)
  <2> DEFINE R == [base : Nat, readable : BOOLEAN, data : Seq(Nat)]
  <2>1. \A r \in R : r.data \in Seq(Nat)
    OBVIOUS
  <2> HIDE DEF R
  <2>2. \A i \in DOMAIN regions : i \in Nat /\ regions[i] \in R
    <3>1. regions \in Seq(R)
      BY <1>2 DEF R
    <3> QED
      BY <3>1
  <2> QED
    BY <2>1, <2>2
<1> QED
  BY <1>1, <1>2, <1>3, <1>4, <1>5, <1>6

(* The matches of a region, and those before the window.                   *)
LEMMA MatchesOf ==
  ASSUME Types, NEW i \in DOMAIN regions
  PROVE  /\ At(i) \subseteq Match
         /\ \A x \in At(i) : x[1] = i
         /\ \A n : AtBefore(i, n) \subseteq At(i)
         /\ AtBefore(i, 0) = {}
<1>1. i \in Nat /\ regions[i].data \in Seq(Nat)
  BY Inputs
<1>2. Occurrences(pattern, regions[i].data) \subseteq Nat
  BY <1>1, OccurrencesArePlaces
<1>3. \A x \in At(i) : \E o \in Nat : x = <<i, o>>
  BY <1>2 DEF At
<1>4. \A x \in At(i) : x \in Match /\ x[1] = i /\ x[2] \in Nat
  BY <1>1, <1>3 DEF Match
<1>5. \A o \in Nat : ~(o < 0)
  OBVIOUS
<1> QED
  BY <1>4, <1>5 DEF AtBefore

(* The places before b + 1 are those before b, and b if the pattern occurs there. *)
LEMMA BeforeNext ==
  ASSUME Types, NEW i \in DOMAIN regions, NEW b \in Nat
  PROVE  LET occurs == b \in Occurrences(pattern, regions[i].data)
         IN /\ occurs => AtBefore(i, b + 1) = AtBefore(i, b) \cup {<<i, b>>}
            /\ ~occurs => AtBefore(i, b + 1) = AtBefore(i, b)
            /\ <<i, b>> \notin AtBefore(i, b)
<1> DEFINE Occ == Occurrences(pattern, regions[i].data)
<1>1. Occ \subseteq Nat
  BY Inputs, OccurrencesArePlaces
<1>2. At(i) = {<<i, o>> : o \in Occ}
  BY DEF At
<1> HIDE DEF Occ
<1>3. \A n : \A x : x \in AtBefore(i, n) <=> \E o \in Occ : x = <<i, o>> /\ o < n
  BY <1>2 DEF AtBefore
<1>4. \A o \in Nat : (o < b + 1 <=> o < b \/ o = b) /\ ~(b < b)
  OBVIOUS
<1>5. \A x : x \in AtBefore(i, b + 1) <=> x \in AtBefore(i, b) \/ (b \in Occ /\ x = <<i, b>>)
  BY <1>1, <1>3, <1>4
<1>6. <<i, b>> \notin AtBefore(i, b)
  BY <1>1, <1>3, <1>4
<1>7. CASE b \in Occ
  BY <1>5, <1>6, <1>7 DEF Occ
<1>8. CASE b \notin Occ
  BY <1>5, <1>6, <1>8 DEF Occ
<1> QED
  BY <1>7, <1>8

(* The places before the end of a region are all its places. *)
LEMMA BeforeEnd ==
  ASSUME Types, NEW i \in DOMAIN regions, NEW n, n = Len(regions[i].data)
  PROVE  AtBefore(i, n) = At(i)
<1>1. \A o \in Occurrences(pattern, regions[i].data) : o < n
  BY Inputs, OccurrencesArePlaces
<1>2. \A x \in At(i) : x[2] < n
  BY <1>1 DEF At
<1> QED
  BY <1>2 DEF AtBefore

(* More is said of a list in more places.                                  *)
LEMMA ListsTyped ==
  ASSUME NEW q, NEW S, NEW T, S \subseteq T, Lists(q, S)
  PROVE  q \in Seq(T)
<1>1. q \in Seq(S)
  BY DEF Lists
<1> QED
  BY <1>1

(* A list of a set tells of its members and of nothing else. *)
LEMMA ListsTells ==
  ASSUME NEW q, NEW S, Lists(q, S)
  PROVE  \A x : Tells(q, x) <=> x \in S
BY DEF Lists, Tells

(* A step of the inputs' other parts keeps what is worked on and found.    *)
LEMMA FoundKept ==
  ASSUME Whole, Unique, UNCHANGED <<regions, pattern, matches, results>>,
         Undisturbed' => Undisturbed, \A j : Due(j)' <=> Due(j)
  PROVE  Whole' /\ Unique'
<1>1. \A x : Told(x)' <=> Told(x)
  BY DEF Told, Tells
<1>2. \A i : At(i)' = At(i)
  BY DEF At
<1>3. Whole'
  <2>1. ASSUME NEW x \in Match, Told(x)'
        PROVE  Due(x[1])' /\ (x \in At(x[1]))'
    BY <1>1, <1>2, <2>1 DEF Whole
  <2>2. ASSUME Undisturbed', NEW i \in DOMAIN regions, Due(i)', NEW x \in At(i)
        PROVE  Told(x)'
    BY <1>1, <2>2 DEF Whole
  <2> QED
    BY <1>2, <2>1, <2>2 DEF Whole
<1>4. Unique'
  <2>1. \A x : Tells(matches, x)' <=> Tells(matches, x)
    BY DEF Tells
  <2>2. \A x, k : Tells(results[k].matches, x)' <=> Tells(results[k].matches, x)
    BY DEF Tells
  <2>3. Once(matches)' <=> Once(matches)
    BY DEF Once
  <2>4. \A k : Once(results[k].matches)' <=> Once(results[k].matches)
    BY DEF Once
  <2>5. Len(results)' = Len(results)
    OBVIOUS
  <2> QED
    BY <2>1, <2>2, <2>3, <2>4, <2>5 DEF Unique
<1> QED
  BY <1>3, <1>4

(* A step of a worker on its own region.                                   *)
LEMMA WorkStep ==
  ASSUME IInv, NEW w \in Workers, NEW where \in {"search", "read", "send"}, Works(w),
         pc[w] # "send", pc' = [pc EXCEPT ![w] = where],
         UNCHANGED <<input, ctxVars, feedVars, region, collectVars, attached, crashed, returned>>,
         reader' \in [Workers -> Reader \cup {Nothing}],
         \A v \in Workers \ {w} : reader'[v] = reader[v],
         found' \in [Workers -> Found],
         \A v \in Workers \ {w} : found'[v] = found[v],
         Undisturbed' => ~found'[w].err,
         refused' = refused \/ (refused' = refused \cup {region[w]} /\ where = "send" /\ found'[w].err),
         failed \subseteq failed', failed' \subseteq failed \cup {region[w]},
         WorkOf(w)'
  PROVE  IInv'
<1>1. /\ UNCHANGED <<regions, pattern, range, cancelled, scanDone, next, closed>>
      /\ UNCHANGED <<region, results, matches, firstErr, returned>>
  BY DEF input, ctxVars, feedVars, collectVars
<1>2. pc \in [Workers -> {"receive", "search", "read", "send", "done"}]
  BY DEF IInv, Types
<1>3. pc'[w] = where /\ \A v \in Workers \ {w} : pc'[v] = pc[v]
  BY <1>2
<1>4. \A v \in Workers : Works(v)' <=> Works(v)
  BY <1>3 DEF Works
<1>5. \A j : (Fed(j)' <=> Fed(j)) /\ (Worked(j)' <=> Worked(j))
  BY <1>1, <1>4 DEF Fed, Worked, Selected, EndAddr
<1>6. Fed(region[w]) /\ Worked(region[w])
  BY DEF IInv, Owned, Worked
<1>7. \A j : Due(j)' <=> Due(j)
  BY <1>5, <1>6 DEF Due
<1>8. region[w] \in DOMAIN regions
  BY <1>6, Inputs DEF Fed, IInv
<1>9. Types'
  <2>1. refused' \subseteq DOMAIN regions
    BY <1>8 DEF IInv, Types
  <2> QED
    BY <1>1, <1>2, <1>8, <2>1 DEF IInv, Types
<1>10. Owned'
  BY <1>1, <1>4, <1>5, <1>6 DEF IInv, Owned
<1>11. Work'
  <2>1. ASSUME NEW v \in Workers \ {w}
        PROVE  WorkOf(v)'
    <3>1. WorkOf(v)
      BY DEF IInv, Work
    <3>2. /\ pc'[v] = pc[v] /\ region'[v] = region[v]
          /\ reader'[v] = reader[v] /\ found'[v] = found[v]
      BY <1>1, <1>3
    <3>3. Works(v) => region[v] # region[w]
      BY DEF IInv, Owned
    <3>4. Works(v) => (region[v] \in failed' <=> region[v] \in failed)
      BY <3>3
    <3>5. \A i, n : At(i)' = At(i) /\ AtBefore(i, n)' = AtBefore(i, n)
      BY <1>1 DEF At, AtBefore
    <3> QED
      BY <1>1, <3>1, <3>2, <3>4, <3>5 DEF WorkOf, Works
  <2> QED
    BY <2>1 DEF Work
<1>12. Undisturbed' => Undisturbed
  BY <1>1 DEF Undisturbed
<1>13. NoErrors'
  BY <1>1, <1>12 DEF IInv, NoErrors
<1>14. Refusals'
  <2>1. CASE refused' = refused
    <3>1. \A v \in Workers : pc[v] = "send" /\ found[v].err => pc'[v] = "send" /\ found'[v].err
      BY <1>3
    <3> QED
      BY <1>1, <2>1, <3>1 DEF IInv, Refusals
  <2>2. CASE where = "send" /\ found'[w].err
    BY <1>3, <2>2 DEF Refusals
  <2> QED
    BY <2>1, <2>2
<1>15. Whole' /\ Unique'
  BY <1>1, <1>7, <1>12, FoundKept DEF IInv
<1>16. Endings'
  <2>1. ToFeed' = ToFeed
    BY <1>1 DEF ToFeed, Selected, EndAddr
  <2>2. ~returned
    BY DEF IInv, Endings, Works
  <2> QED
    BY <1>1, <1>3, <1>12, <2>1, <2>2 DEF IInv, Endings
<1> QED
  BY <1>9, <1>10, <1>11, <1>13, <1>14, <1>15, <1>16 DEF IInv

-----------------------------------------------------------------------------
(* Initially nothing is fed, nothing is worked on and nothing is told.     *)
LEMMA InitInvariant == Init => IInv
<1> SUFFICES ASSUME Init
             PROVE  IInv
  OBVIOUS
<1> USE DEF Init
<1>1. Cardinality(Workers) \in Nat
  BY ScanAssumption, FS_CardinalityType
<1>2. \A q : q = <<>> => Len(q) = 0
  OBVIOUS
<1>3. Types
  <2>1. NoMatch \in Found
    BY DEF NoMatch, Found
  <2>2. Len(regions) \in Nat
    <3>1. regions \in Seq([base : Nat, readable : BOOLEAN, data : Seq(Nat)])
      BY ScanAssumption
    <3> QED
      BY <3>1
  <2>3. next \in 1 .. Len(regions) + 1
    BY <2>2
  <2>4. found \in [Workers -> Found] /\ pc \in [Workers -> {"receive", "search", "read", "send", "done"}]
    BY <2>1
  <2>5. region \in [Workers -> DOMAIN regions \cup {Nothing}] /\ reader \in [Workers -> Reader \cup {Nothing}]
    OBVIOUS
  <2>6. results \in Seq(Found) /\ Len(results) <= Cardinality(Workers) /\ matches \in Seq(Match)
    BY <1>1
  <2>7. /\ failed \subseteq DOMAIN regions /\ refused \subseteq DOMAIN regions
        /\ attached \in BOOLEAN /\ crashed \in BOOLEAN
    OBVIOUS
  <2>8. /\ regions \in Tables /\ pattern \in Patterns
        /\ cancelled \in BOOLEAN /\ scanDone \in BOOLEAN /\ closed \in BOOLEAN
        /\ firstErr \in BOOLEAN /\ returned \in BOOLEAN
    OBVIOUS
  <2> QED
    BY <2>3, <2>4, <2>5, <2>6, <2>7, <2>8 DEF Types
<1>4. Owned /\ Work
  BY DEF Owned, Work, WorkOf, Works
<1>5. NoErrors /\ Refusals
  BY <1>2 DEF NoErrors, Refusals, NoMatch
<1>6. \A i : ~Fed(i)
  <2>1. \A i \in DOMAIN regions : ~(i < 1)
    BY <1>3, Inputs
  <2> QED
    BY <2>1 DEF Fed, Selected
<1>7. \A x : ~Told(x)
  BY <1>2 DEF Told, Tells
<1>8. Whole
  BY <1>6, <1>7 DEF Whole, Due
<1>9. Unique
  BY <1>2 DEF Unique, Once
<1>10. Endings
  BY DEF Endings
<1> QED
  BY <1>3, <1>4, <1>5, <1>8, <1>9, <1>10 DEF IInv

(* A search that is refused, or whose read fails, has no match.            *)
LEMMA NoMatchTyped == [matches |-> <<>>, err |-> TRUE] \in Found /\ [matches |-> <<>>, err |-> FALSE] \in Found
BY DEF Found

(* An answer without offsets is an answer without matches. *)
LEMMA AnswerNothing ==
  ASSUME NEW w, NEW e, Types, w \in Workers, Answer(w, <<>>, e)
  PROVE  found' = [found EXCEPT ![w] = [matches |-> <<>>, err |-> e]]
<1>1. [i \in DOMAIN <<>> |-> <<region[w], <<>>[i]>>] = <<>>
  OBVIOUS
<1> QED
  BY <1>1 DEF Answer

(* A worker that finds the search cancelled keeps the invariant. *)
LEMMA SearchRefusedStep ==
  ASSUME IInv, NEW w \in Workers, SearchRefused(w)
  PROVE  IInv'
<1>1. found' = [found EXCEPT ![w] = [matches |-> <<>>, err |-> TRUE]]
  BY AnswerNothing DEF SearchRefused, IInv
<1>2. found \in [Workers -> Found] /\ reader \in [Workers -> Reader \cup {Nothing}]
  BY DEF IInv, Types
<1>3. /\ found' \in [Workers -> Found]
      /\ \A v \in Workers \ {w} : found'[v] = found[v]
      /\ found'[w].matches = <<>> /\ found'[w].err = TRUE
  BY <1>1, <1>2, NoMatchTyped
<1>4. pc[w] = "search" /\ scanDone /\ pc' = [pc EXCEPT ![w] = "send"]
  BY DEF SearchRefused, Answer, Goto
<1>5. /\ UNCHANGED <<input, ctxVars, feedVars, region, collectVars, returned>>
      /\ UNCHANGED <<reader, failed, attached, refused, crashed>>
  BY DEF SearchRefused, ctlVars
<1>6. pc'[w] = "send"
  BY <1>4 DEF IInv, Types
<1>7. WorkOf(w)'
  BY <1>3, <1>6 DEF WorkOf
<1>8. ~Undisturbed'
  <2>1. ~Undisturbed
    BY <1>4 DEF IInv, NoErrors
  <2> QED
    BY <1>5, <2>1 DEF Undisturbed, ctxVars
<1>9. Works(w)
  BY <1>4 DEF Works
<1> QED
  BY <1>2, <1>3, <1>4, <1>5, <1>7, <1>8, <1>9, WorkStep

(* FindAllBytes gives all of the region, or the read fails.                *)
LEMMA SearchBytesStep ==
  ASSUME IInv, NEW w \in Workers, SearchBytes(w)
  PROVE  IInv'
<1>1. found \in [Workers -> Found] /\ reader \in [Workers -> Reader \cup {Nothing}] /\ Types
  BY DEF IInv, Types
<1>2. /\ pc[w] = "search" /\ pc' = [pc EXCEPT ![w] = "send"]
      /\ UNCHANGED <<input, ctxVars, feedVars, region, collectVars, attached, refused, crashed, returned>>
      /\ reader' = reader
  BY DEF SearchBytes, Answer, Goto, ctlVars
<1>3. Works(w) /\ pc'[w] = "send"
  BY <1>2 DEF Works, IInv, Types
<1>4. PICK i \in DOMAIN regions : i = region[w]
  BY <1>1, <1>3, Inputs DEF IInv, Owned, Fed
<1>5. region'[w] = i /\ At(i)' = At(i) /\ i \notin failed
  BY <1>2, <1>4 DEF At, input, IInv, Work, WorkOf
<1>6. CASE Answer(w, FindAllBytes(pattern, Data(w)), FALSE) /\ UNCHANGED failed
  <2> DEFINE q == FindAllBytes(pattern, regions[i].data)
             named == [k \in DOMAIN q |-> <<i, q[k]>>]
  <2>1. found' = [found EXCEPT ![w] = [matches |-> named, err |-> FALSE]]
    BY <1>4, <1>6 DEF Answer, Data
  <2>2. Lists(q, Occurrences(pattern, regions[i].data))
    BY <1>1, Inputs, FindAllBytesLists
  <2> HIDE DEF q
  <2>3. Lists(named, At(i))
    BY <2>2, ListsNamed DEF At
  <2> HIDE DEF named
  <2>4. [matches |-> named, err |-> FALSE] \in Found
    BY <1>1, <2>3, ListsTyped, MatchesOf DEF Found
  <2>5. /\ found' \in [Workers -> Found]
        /\ \A v \in Workers \ {w} : found'[v] = found[v]
        /\ found'[w].matches = named /\ found'[w].err = FALSE
    BY <1>1, <2>1, <2>4
  <2>6. WorkOf(w)'
    BY <1>3, <1>5, <1>6, <2>3, <2>5 DEF WorkOf
  <2> QED
    BY <1>1, <1>2, <1>3, <1>6, <2>5, <2>6, WorkStep
<1>7. CASE Answer(w, <<>>, FALSE) /\ failed' = failed \cup {region[w]}
  <2>1. found' = [found EXCEPT ![w] = [matches |-> <<>>, err |-> FALSE]]
    BY <1>1, <1>7, AnswerNothing
  <2>2. /\ found' \in [Workers -> Found]
        /\ \A v \in Workers \ {w} : found'[v] = found[v]
        /\ found'[w].matches = <<>> /\ found'[w].err = FALSE
    BY <1>1, <2>1, NoMatchTyped
  <2>3. WorkOf(w)'
    BY <1>3, <1>4, <1>5, <1>7, <2>2 DEF WorkOf
  <2> QED
    BY <1>1, <1>2, <1>3, <1>7, <2>2, <2>3, WorkStep
<1> QED
  BY <1>6, <1>7 DEF SearchBytes

(* A reader that is new has shown nothing of the region.                   *)
LEMMA ReaderMadeStep ==
  ASSUME IInv, NEW w \in Workers, SearchReader(w), attached
  PROVE  IInv'
<1>1. found \in [Workers -> Found] /\ reader \in [Workers -> Reader \cup {Nothing}] /\ Types
  BY DEF IInv, Types
<1>2. /\ pc[w] = "search" /\ pc' = [pc EXCEPT ![w] = "read"]
      /\ UNCHANGED <<input, ctxVars, feedVars, region, collectVars, attached, refused, crashed, returned>>
      /\ failed' = failed
      /\ found' = [found EXCEPT ![w] = NoMatch]
      /\ HasWildcards(pattern)
  BY DEF SearchReader, Goto
<1>3. Works(w) /\ pc'[w] = "read"
  BY <1>1, <1>2 DEF Works, Types
<1>4. PICK i \in DOMAIN regions : i = region[w]
  BY <1>1, <1>3, Inputs DEF IInv, Owned, Fed
<1>5. /\ region'[w] = i /\ regions' = regions /\ pattern' = pattern
      /\ AtBefore(i, 0)' = AtBefore(i, 0) /\ i \notin failed
  BY <1>2, <1>4 DEF AtBefore, At, input, IInv, Work, WorkOf
<1> DEFINE d == regions[i].data
           r == NewBufferedReader(Len(d))
<1>6. reader' = [reader EXCEPT ![w] = r]
  BY <1>4 DEF SearchReader, Data
<1>7. r \in Reader /\ InPlace(r, Len(pattern), d) /\ r.bufOffset = 0
  <2>1. d \in Seq(Nat) /\ Len(pattern) \in Nat
    BY <1>1, Inputs
  <2> QED
    BY <2>1, ReaderStarts DEF NewBufferedReader
<1> HIDE DEF r
<1>8. /\ reader' \in [Workers -> Reader \cup {Nothing}] /\ reader'[w] = r
      /\ \A v \in Workers \ {w} : reader'[v] = reader[v]
  BY <1>1, <1>6, <1>7
<1>9. /\ found' \in [Workers -> Found]
      /\ \A v \in Workers \ {w} : found'[v] = found[v]
      /\ found'[w].matches = <<>> /\ found'[w].err = FALSE
  BY <1>1, <1>2, NoMatchTyped DEF NoMatch
<1>10. Lists(<<>>, AtBefore(i, 0)) /\ Len(pattern) > 0
  <2>1. pattern \in Seq(Nat \cup {Wild})
    BY <1>1, ScanAssumption DEF Types
  <2>2. Len(pattern) > 0
    BY <1>2, <2>1 DEF HasWildcards
  <2> QED
    BY <1>1, <2>2, MatchesOf, ListsNothing
<1>11. WorkOf(w)'
  <2>1. InPlace(r, Len(pattern'), regions'[i].data)
    BY <1>5, <1>7
  <2>2. Lists(found'[w].matches, AtBefore(i, 0)')
    BY <1>5, <1>9, <1>10
  <2> QED
    BY <1>2, <1>3, <1>5, <1>7, <1>8, <1>9, <1>10, <2>1, <2>2 DEF WorkOf
<1> QED
  BY <1>1, <1>2, <1>3, <1>8, <1>9, <1>11, WorkStep

(* A reader that is refused is an error of the search. *)
LEMMA ReaderRefusedStep ==
  ASSUME IInv, NEW w \in Workers, SearchReader(w), ~attached
  PROVE  IInv'
<1>1. found \in [Workers -> Found] /\ reader \in [Workers -> Reader \cup {Nothing}] /\ Types
  BY DEF IInv, Types
<1>2. Answer(w, <<>>, TRUE) /\ refused' = refused \cup {region[w]}
  BY DEF SearchReader
<1>3. found' = [found EXCEPT ![w] = [matches |-> <<>>, err |-> TRUE]]
  BY <1>1, <1>2, AnswerNothing
<1>4. /\ found' \in [Workers -> Found]
      /\ \A v \in Workers \ {w} : found'[v] = found[v]
      /\ found'[w].matches = <<>> /\ found'[w].err = TRUE
  BY <1>1, <1>3, NoMatchTyped
<1>5. /\ pc[w] = "search" /\ pc' = [pc EXCEPT ![w] = "send"]
      /\ UNCHANGED <<input, ctxVars, feedVars, region, collectVars, attached, crashed, returned>>
      /\ UNCHANGED <<reader, failed>>
  BY DEF SearchReader, Answer, Goto
<1>6. Works(w) /\ pc'[w] = "send"
  BY <1>1, <1>5 DEF Works, Types
<1>7. WorkOf(w)'
  BY <1>4, <1>6 DEF WorkOf
<1>8. ~Undisturbed'
  BY <1>2 DEF Undisturbed
<1> QED
  BY <1>1, <1>2, <1>4, <1>5, <1>6, <1>7, <1>8, WorkStep

(* One more match is found, or none.                                       *)
LEMMA MatchesSet ==
  ASSUME found \in [Workers -> Found], NEW w \in Workers, NEW q
  PROVE  /\ [found EXCEPT ![w].matches = q] = [found EXCEPT ![w] = [matches |-> q, err |-> found[w].err]]
         /\ q = found[w].matches => [found EXCEPT ![w].matches = q] = found
<1>1. found[w] \in Found
  OBVIOUS
<1>2. [found[w] EXCEPT !.matches = q] = [matches |-> q, err |-> found[w].err]
  BY <1>1 DEF Found
<1>3. [found EXCEPT ![w].matches = q] = [found EXCEPT ![w] = [found[w] EXCEPT !.matches = q]]
  OBVIOUS
<1>4. [found EXCEPT ![w].matches = q] = [found EXCEPT ![w] = [matches |-> q, err |-> found[w].err]]
  BY <1>2, <1>3
<1>5. found[w] = [matches |-> found[w].matches, err |-> found[w].err]
  BY <1>1 DEF Found
<1>6. q = found[w].matches => [found EXCEPT ![w] = [matches |-> q, err |-> found[w].err]] = found
  BY <1>5
<1> QED
  BY <1>4, <1>6

(* A turn of FindAllReader: the window that is shown is one place further  *)
(* (or the region is empty), and matches if the pattern occurs there.      *)
LEMMA ReaderNextStep ==
  ASSUME IInv, NEW w \in Workers, ReaderNext(w)
  PROVE  IInv'
<1>1. found \in [Workers -> Found] /\ reader \in [Workers -> Reader \cup {Nothing}] /\ Types
  BY DEF IInv, Types
<1>2. /\ pc[w] = "read" /\ reader[w].hasMore
      /\ UNCHANGED <<input, ctxVars, feedVars, region, collectVars, attached, refused, crashed, returned>>
  BY DEF ReaderNext, ctlVars
<1>3. Works(w)
  BY <1>2 DEF Works
<1>4. PICK i \in DOMAIN regions : i = region[w]
  BY <1>1, <1>3, Inputs DEF IInv, Owned, Fed
<1>5. /\ region'[w] = i /\ regions' = regions /\ pattern' = pattern
      /\ \A n : AtBefore(i, n)' = AtBefore(i, n)
  BY <1>2, <1>4 DEF AtBefore, At, input
<1>6. PICK r : r = reader[w]
  OBVIOUS
<1>7. PICK m : m = found[w].matches
  OBVIOUS
<1>8. /\ i \notin failed /\ r \in Reader /\ ~found[w].err /\ Len(pattern) > 0
      /\ InPlace(r, Len(pattern), regions[i].data)
      /\ Lists(m, AtBefore(i, r.bufOffset))
  BY <1>2, <1>4, <1>6, <1>7 DEF IInv, Work, WorkOf
<1>9. PICK d : d = regions[i].data
  OBVIOUS
<1>10. d \in Seq(Nat) /\ Len(d) \in Nat /\ Len(pattern) \in Nat /\ Len(pattern) > 0 /\ i \in Nat
  BY <1>1, <1>8, <1>9, Inputs
<1>11. PICK c : c = Chunk(r, Len(pattern), d)
  OBVIOUS
<1>12. /\ InPlace(c, Len(pattern), d)
       /\ c.bufOffset > 0 => /\ c.lastOffset = r.bufOffset
                             /\ c.bufOffset = r.bufOffset + 1
                             /\ r.bufOffset < Len(d)
       /\ c.bufOffset = 0 => c.last = <<>> /\ r.bufOffset = 0
  BY <1>2, <1>6, <1>8, <1>9, <1>10, <1>11, ChunkKeeps
<1>13. c \in Reader /\ c.bufOffset \in Nat /\ r.bufOffset \in Nat /\ c.last \in Seq(Nat)
  BY <1>8, <1>12 DEF InPlace, Buffered, Reader
<1>14. CASE /\ reader' = [reader EXCEPT ![w] = c]
            /\ found' = [found EXCEPT ![w].matches =
                           IF Matches(pattern, c.last) THEN Append(@, <<region[w], c.lastOffset>>) ELSE @]
            /\ UNCHANGED <<pc, failed>>
  <2>1. /\ reader' \in [Workers -> Reader \cup {Nothing}] /\ reader'[w] = c
        /\ \A v \in Workers \ {w} : reader'[v] = reader[v]
    BY <1>1, <1>13, <1>14
  <2>2. pc' = [pc EXCEPT ![w] = "read"] /\ pc'[w] = "read"
    BY <1>1, <1>2, <1>14 DEF Types
  <2>3. CASE Matches(pattern, c.last)
    <3>1. c.bufOffset > 0
      <4> SUFFICES ASSUME c.bufOffset = 0
                   PROVE  FALSE
        BY <1>13
      <4>1. c.last = <<>>
        BY <1>12
      <4> QED
        BY <2>3, <4>1 DEF Matches
    <3>2. /\ c.lastOffset = r.bufOffset /\ c.bufOffset = r.bufOffset + 1 /\ r.bufOffset < Len(d)
          /\ Len(c.last) = Smaller(Len(pattern), Len(d) - r.bufOffset)
          /\ \A k \in 1 .. Len(c.last) : c.last[k] = d[r.bufOffset + k]
      BY <1>12, <3>1 DEF InPlace
    <3>3. r.bufOffset \in Occurrences(pattern, d)
      BY <1>10, <1>13, <2>3, <3>2, WindowMatches
    <3>4. /\ AtBefore(i, c.bufOffset) = AtBefore(i, r.bufOffset) \cup {<<i, c.lastOffset>>}
          /\ <<i, c.lastOffset>> \notin AtBefore(i, r.bufOffset)
      <4>1. r.bufOffset \in Occurrences(pattern, regions[i].data)
        BY <1>9, <3>3
      <4>2. /\ AtBefore(i, r.bufOffset + 1) = AtBefore(i, r.bufOffset) \cup {<<i, r.bufOffset>>}
            /\ <<i, r.bufOffset>> \notin AtBefore(i, r.bufOffset)
        BY <1>1, <1>13, <4>1, BeforeNext
      <4> QED
        BY <3>2, <4>2
    <3> DEFINE q == Append(m, <<i, c.lastOffset>>)
    <3>5. Lists(q, AtBefore(i, c.bufOffset))
      BY <1>8, <3>4, ListsLast
    <3>6. q \in Seq(Match)
      <4>1. AtBefore(i, c.bufOffset) \subseteq Match
        BY <1>1, MatchesOf
      <4> HIDE DEF q
      <4> QED
        BY <3>5, <4>1, ListsTyped
    <3> HIDE DEF q
    <3>7. found' = [found EXCEPT ![w] = [matches |-> q, err |-> FALSE]]
      <4>1. found[w] = [matches |-> m, err |-> FALSE]
        <5>1. found[w] \in Found
          BY <1>1
        <5>2. found[w].matches = m /\ found[w].err = FALSE
          BY <1>7, <1>8, <5>1 DEF Found
        <5> QED
          BY <5>1, <5>2 DEF Found
      <4>2. Append(found[w].matches, <<region[w], c.lastOffset>>) = q
        BY <1>4, <1>7 DEF q
      <4>3. found' = [found EXCEPT ![w].matches = q]
        BY <1>14, <2>3, <4>2
      <4>4. [found EXCEPT ![w].matches = q] = [found EXCEPT ![w] = [matches |-> q, err |-> found[w].err]]
        BY <1>1, MatchesSet
      <4>5. found[w].err = FALSE
        BY <4>1
      <4> QED
        BY <4>3, <4>4, <4>5
    <3>8. [matches |-> q, err |-> FALSE] \in Found
      BY <3>6 DEF Found
    <3>9. /\ found' \in [Workers -> Found]
          /\ \A v \in Workers \ {w} : found'[v] = found[v]
          /\ found'[w].matches = q /\ found'[w].err = FALSE
      BY <1>1, <3>7, <3>8
    <3>10. WorkOf(w)'
      <4>1. InPlace(c, Len(pattern'), regions'[i].data)
        BY <1>5, <1>9, <1>12
      <4>2. Lists(found'[w].matches, AtBefore(i, c.bufOffset)')
        BY <1>5, <3>5, <3>9
      <4> QED
        BY <1>5, <1>8, <1>13, <1>14, <2>1, <2>2, <3>9, <4>1, <4>2 DEF WorkOf
    <3> QED
      BY <1>2, <1>3, <1>14, <2>1, <2>2, <3>9, <3>10, WorkStep
  <2>4. CASE ~Matches(pattern, c.last)
    <3>1. found' = found
      <4>1. found' = [found EXCEPT ![w].matches = found[w].matches]
        BY <1>14, <2>4
      <4> QED
        BY <1>1, <4>1, MatchesSet
    <3>2. AtBefore(i, c.bufOffset) = AtBefore(i, r.bufOffset)
      <4>1. CASE c.bufOffset = 0
        BY <1>12, <4>1
      <4>2. CASE c.bufOffset > 0
        <5>1. /\ c.bufOffset = r.bufOffset + 1 /\ r.bufOffset < Len(d)
              /\ Len(c.last) = Smaller(Len(pattern), Len(d) - r.bufOffset)
              /\ \A k \in 1 .. Len(c.last) : c.last[k] = d[r.bufOffset + k]
          BY <1>12, <4>2 DEF InPlace
        <5>2. r.bufOffset \notin Occurrences(pattern, d)
          BY <1>10, <1>13, <2>4, <5>1, WindowMatches
        <5> QED
          BY <1>1, <1>9, <1>13, <5>1, <5>2, BeforeNext
      <4> QED
        BY <1>13, <4>1, <4>2
    <3>3. WorkOf(w)'
      <4>1. InPlace(c, Len(pattern'), regions'[i].data)
        BY <1>5, <1>9, <1>12
      <4>2. Lists(found'[w].matches, AtBefore(i, c.bufOffset)')
        BY <1>5, <1>7, <1>8, <3>1, <3>2
      <4> QED
        BY <1>5, <1>8, <1>13, <1>14, <2>1, <2>2, <3>1, <4>1, <4>2 DEF WorkOf
    <3> QED
      BY <1>1, <1>2, <1>3, <1>8, <1>14, <2>1, <2>2, <3>1, <3>3, WorkStep
  <2> QED
    BY <2>3, <2>4
<1>15. CASE Answer(w, <<>>, FALSE) /\ failed' = failed \cup {region[w]} /\ UNCHANGED reader
  <2>1. found' = [found EXCEPT ![w] = [matches |-> <<>>, err |-> FALSE]]
    BY <1>1, <1>15, AnswerNothing
  <2>2. /\ found' \in [Workers -> Found]
        /\ \A v \in Workers \ {w} : found'[v] = found[v]
        /\ found'[w].matches = <<>> /\ found'[w].err = FALSE
    BY <1>1, <2>1, NoMatchTyped
  <2>3. pc' = [pc EXCEPT ![w] = "send"] /\ pc'[w] = "send"
    BY <1>1, <1>15 DEF Answer, Goto, Types
  <2>4. WorkOf(w)'
    BY <1>4, <1>5, <1>15, <2>2, <2>3 DEF WorkOf
  <2> QED
    BY <1>1, <1>2, <1>3, <1>15, <2>2, <2>3, <2>4, WorkStep
<1> QED
  BY <1>4, <1>6, <1>9, <1>11, <1>14, <1>15 DEF ReaderNext, Data

(* When the reader has no more, its window has been everywhere.            *)
LEMMA ReaderEndsStep ==
  ASSUME IInv, NEW w \in Workers, ReaderEnds(w)
  PROVE  IInv'
<1>1. found \in [Workers -> Found] /\ reader \in [Workers -> Reader \cup {Nothing}] /\ Types
  BY DEF IInv, Types
<1>2. /\ pc[w] = "read" /\ ~reader[w].hasMore /\ pc' = [pc EXCEPT ![w] = "send"]
      /\ UNCHANGED <<input, ctxVars, feedVars, region, collectVars, attached, refused, crashed, returned>>
      /\ UNCHANGED <<reader, found, failed>>
  BY DEF ReaderEnds, Goto, ctlVars
<1>3. Works(w) /\ pc'[w] = "send"
  BY <1>1, <1>2 DEF Works, Types
<1>4. PICK i \in DOMAIN regions : i = region[w]
  BY <1>1, <1>3, Inputs DEF IInv, Owned, Fed
<1>5. region'[w] = i /\ At(i)' = At(i)
  BY <1>2, <1>4 DEF At, input
<1>6. PICK r : r = reader[w]
  OBVIOUS
<1>7. PICK d : d = regions[i].data
  OBVIOUS
<1>8. /\ i \notin failed /\ r \in Reader /\ ~found[w].err
      /\ InPlace(r, Len(pattern), d)
      /\ Lists(found[w].matches, AtBefore(i, r.bufOffset))
  BY <1>2, <1>4, <1>6, <1>7 DEF IInv, Work, WorkOf
<1>9. r.bufOffset = Len(d)
  <2>1. r.bufOffset \in Nat /\ r.off \in Nat /\ Buffered(r, d) /\ ~r.hasMore
    BY <1>2, <1>6, <1>8 DEF Reader, InPlace
  <2>2. CASE r.bufOffset = 0
    BY <1>8, <2>1, <2>2 DEF InPlace
  <2>3. CASE r.bufOffset > 0
    <3>1. r.done /\ r.off = r.bufOffset
      BY <1>8, <2>1, <2>3 DEF InPlace
    <3>2. r.off + 0 = Len(d)
      BY <2>1, <3>1 DEF Buffered
    <3> QED
      BY <2>1, <3>1, <3>2
  <2> QED
    BY <2>1, <2>2, <2>3
<1>10. Lists(found[w].matches, At(i))
  BY <1>1, <1>7, <1>8, <1>9, BeforeEnd
<1>11. WorkOf(w)'
  BY <1>2, <1>3, <1>5, <1>8, <1>10 DEF WorkOf
<1> QED
  BY <1>1, <1>2, <1>3, <1>8, <1>11, WorkStep

-----------------------------------------------------------------------------
(* The feeder gives the first region that is left to a worker that waits.  *)
LEMMA FeedStep ==
  ASSUME IInv, NEW w \in Workers, Feed(w)
  PROVE  IInv'
<1>1. Types /\ next \in Nat
  BY Inputs DEF IInv, Types
<1>2. PICK i \in ToFeed : /\ \A j \in ToFeed : i <= j
                          /\ region' = [region EXCEPT ![w] = i] /\ next' = i + 1
  <2>1. ToFeed \in SUBSET Nat /\ ToFeed # {}
    BY <1>1, Inputs DEF ToFeed, Feed
  <2>2. \E i \in ToFeed : \A j \in ToFeed : i <= j
    BY <2>1, LeastNatural
  <2> HIDE DEF ToFeed
  <2> DEFINE i == CHOOSE i \in ToFeed : \A j \in ToFeed : i <= j
  <2>3. i \in ToFeed /\ \A j \in ToFeed : i <= j
    BY <2>2
  <2>4. region' = [region EXCEPT ![w] = i] /\ next' = i + 1
    BY DEF Feed
  <2> HIDE DEF i
  <2> QED
    BY <2>3, <2>4
<1>3. i \in Selected /\ i >= next /\ i \in DOMAIN regions /\ i \in Nat
  BY <1>1, <1>2, Inputs DEF ToFeed
<1>4. /\ ~closed /\ pc[w] = "receive" /\ pc' = [pc EXCEPT ![w] = "search"]
      /\ UNCHANGED <<input, ctxVars, closed, reader, found, collectVars, failed, ctlVars, returned>>
  BY DEF Feed, Goto
<1>5. /\ UNCHANGED <<regions, pattern, range, cancelled, scanDone, closed, reader, found>>
      /\ UNCHANGED <<results, matches, firstErr, failed, attached, refused, crashed, returned>>
  BY <1>4 DEF input, ctxVars, collectVars, ctlVars
<1>6. /\ pc' \in [Workers -> {"receive", "search", "read", "send", "done"}]
      /\ pc'[w] = "search" /\ \A v \in Workers \ {w} : pc'[v] = pc[v]
      /\ region' \in [Workers -> DOMAIN regions \cup {Nothing}]
      /\ region'[w] = i /\ \A v \in Workers \ {w} : region'[v] = region[v]
  BY <1>1, <1>2, <1>3, <1>4 DEF Types
<1>7. \A v \in Workers : Works(v)' <=> Works(v) \/ v = w
  BY <1>6 DEF Works
<1>8. ~Works(w)
  BY <1>4 DEF Works
<1>9. Selected' = Selected
  BY <1>5 DEF Selected, EndAddr
<1>10. \A j : Fed(j)' <=> Fed(j) \/ j = i
  <2>1. \A j \in Selected : j < i + 1 <=> j < next \/ j = i
    <3> SUFFICES ASSUME NEW j \in Selected
                 PROVE  j < i + 1 <=> j < next \/ j = i
      OBVIOUS
    <3>1. j \in Nat
      BY <1>1, Inputs
    <3>2. j >= next => i <= j
      BY <1>2 DEF ToFeed
    <3> QED
      BY <1>1, <1>3, <3>1, <3>2
  <2> QED
    BY <1>2, <1>3, <1>9, <2>1 DEF Fed
<1>11. ~Fed(i)
  BY <1>1, <1>3 DEF Fed
<1>12. \A j : Worked(j)' <=> Worked(j) \/ j = i
  BY <1>6, <1>7, <1>8 DEF Worked
<1>13. \A j : Due(j)' <=> Due(j)
  BY <1>5, <1>10, <1>11, <1>12 DEF Due
<1>14. Types'
  <2>1. next' \in 1 .. Len(regions) + 1
    BY <1>1, <1>2, <1>3, Inputs
  <2> QED
    BY <1>1, <1>5, <1>6, <2>1 DEF Types
<1>15. Owned'
  <2>1. \A v \in Workers : Works(v) => v # w /\ Fed(region[v]) /\ region[v] # i
    BY <1>8, <1>11 DEF IInv, Owned
  <2>2. \A v \in Workers : Works(v)' => region'[v] = IF v = w THEN i ELSE region[v]
    BY <1>6
  <2>3. \A v \in Workers : Works(v)' => (Fed(region[v]))'
    <3> SUFFICES ASSUME NEW v \in Workers, Works(v)'
                 PROVE  Fed(region[v])'
      OBVIOUS
    <3>1. PICK j : j = region'[v]
      OBVIOUS
    <3>2. Fed(j)'
      BY <1>7, <1>10, <2>1, <2>2, <3>1
    <3> QED
      BY <3>1, <3>2 DEF Fed
  <2>4. \A v, u \in Workers : Works(v)' /\ Works(u)' /\ region'[v] = region'[u] => v = u
    BY <1>7, <2>1, <2>2 DEF IInv, Owned
  <2>5. \A j \in failed' : Fed(j)'
    BY <1>5, <1>10 DEF IInv, Owned
  <2> QED
    BY <2>3, <2>4, <2>5 DEF Owned
<1>16. Work'
  <2>1. \A j, n : At(j)' = At(j) /\ AtBefore(j, n)' = AtBefore(j, n)
    BY <1>5 DEF At, AtBefore
  <2>2. ASSUME NEW v \in Workers \ {w}
        PROVE  WorkOf(v)'
    <3>1. WorkOf(v)
      BY DEF IInv, Work
    <3> QED
      BY <1>5, <1>6, <2>1, <3>1 DEF WorkOf
  <2>3. WorkOf(w)'
    <3>1. i \notin failed
      BY <1>11 DEF IInv, Owned
    <3> QED
      BY <1>5, <1>6, <3>1 DEF WorkOf
  <2> QED
    BY <2>2, <2>3 DEF Work
<1>17. Undisturbed' <=> Undisturbed
  BY <1>5 DEF Undisturbed
<1>18. NoErrors'
  BY <1>5, <1>17 DEF IInv, NoErrors
<1>19. Refusals'
  <2>1. \A v \in Workers : pc[v] = "send" => pc'[v] = "send"
    BY <1>4, <1>6
  <2> QED
    BY <1>5, <2>1 DEF IInv, Refusals
<1>20. Whole' /\ Unique'
  BY <1>5, <1>13, <1>17, FoundKept DEF IInv
<1>21. Endings'
  <2>1. ~returned
    BY <1>4 DEF IInv, Endings
  <2> QED
    BY <1>4, <1>5, <1>6, <2>1 DEF IInv, Endings
<1> QED
  BY <1>14, <1>15, <1>16, <1>18, <1>19, <1>20, <1>21 DEF IInv

(* A worker ends when the channel is closed.                               *)
LEMMA WorkerEndsStep ==
  ASSUME IInv, NEW w \in Workers, WorkerEnds(w)
  PROVE  IInv'
<1>1. /\ closed /\ pc[w] = "receive" /\ pc' = [pc EXCEPT ![w] = "done"]
      /\ UNCHANGED <<regions, pattern, range, cancelled, scanDone, next, closed, region, reader, found>>
      /\ UNCHANGED <<results, matches, firstErr, failed, attached, refused, crashed, returned>>
  BY DEF WorkerEnds, Goto, input, ctxVars, feedVars, collectVars, ctlVars
<1>2. /\ pc' \in [Workers -> {"receive", "search", "read", "send", "done"}]
      /\ pc'[w] = "done" /\ \A v \in Workers \ {w} : pc'[v] = pc[v]
  BY <1>1 DEF IInv, Types
<1>3. \A v \in Workers : Works(v)' <=> Works(v)
  BY <1>1, <1>2 DEF Works
<1>4. \A j : (Fed(j)' <=> Fed(j)) /\ (Worked(j)' <=> Worked(j))
  BY <1>1, <1>3 DEF Fed, Worked, Selected, EndAddr
<1>5. \A j : Due(j)' <=> Due(j)
  BY <1>1, <1>4 DEF Due
<1>6. Types'
  BY <1>1, <1>2 DEF IInv, Types
<1>7. Owned'
  BY <1>1, <1>3, <1>4 DEF IInv, Owned
<1>8. Work'
  <2>1. \A j, n : At(j)' = At(j) /\ AtBefore(j, n)' = AtBefore(j, n)
    BY <1>1 DEF At, AtBefore
  <2>2. ASSUME NEW v \in Workers
        PROVE  WorkOf(v)'
    <3>1. WorkOf(v)
      BY DEF IInv, Work
    <3> QED
      BY <1>1, <1>2, <2>1, <3>1 DEF WorkOf
  <2> QED
    BY <2>2 DEF Work
<1>9. Undisturbed' <=> Undisturbed
  BY <1>1 DEF Undisturbed
<1>10. NoErrors'
  BY <1>1, <1>9 DEF IInv, NoErrors
<1>11. Refusals'
  <2>1. \A v \in Workers : pc[v] = "send" => pc'[v] = "send"
    BY <1>1, <1>2
  <2> QED
    BY <1>1, <2>1 DEF IInv, Refusals
<1>12. Whole' /\ Unique'
  BY <1>1, <1>5, <1>9, FoundKept DEF IInv
<1>13. Endings'
  <2>1. ToFeed' = ToFeed
    BY <1>1 DEF ToFeed, Selected, EndAddr
  <2> QED
    BY <1>1, <1>2, <1>9, <2>1 DEF IInv, Endings
<1> QED
  BY <1>6, <1>7, <1>8, <1>10, <1>11, <1>12, <1>13 DEF IInv

(* What a worker sends is new: nothing of its region was told.             *)
LEMMA SendStep ==
  ASSUME IInv, NEW w \in Workers, Send(w)
  PROVE  IInv'
<1>1. Types /\ found \in [Workers -> Found] /\ results \in Seq(Found) /\ Len(results) \in Nat
  BY DEF IInv, Types
<1>2. /\ pc[w] = "send" /\ Len(results) < Cardinality(Workers)
      /\ results' = Append(results, found[w])
      /\ found' = [found EXCEPT ![w] = NoMatch] /\ region' = [region EXCEPT ![w] = Nothing]
      /\ reader' = [reader EXCEPT ![w] = Nothing] /\ pc' = [pc EXCEPT ![w] = "receive"]
      /\ UNCHANGED <<regions, pattern, range, cancelled, scanDone, next, closed>>
      /\ UNCHANGED <<matches, firstErr, failed, attached, refused, crashed, returned>>
  BY DEF Send, Goto, input, ctxVars, feedVars, ctlVars
<1>3. Works(w) /\ Fed(region[w]) /\ Worked(region[w])
  BY <1>2 DEF Works, Worked, IInv, Owned
<1>4. PICK i \in DOMAIN regions : i = region[w]
  BY <1>1, <1>3, Inputs DEF Fed
<1>5. PICK f \in Found : f = found[w]
  BY <1>1
<1>6. IF i \in failed \/ f.err THEN f.matches = <<>> ELSE Lists(f.matches, At(i))
  BY <1>2, <1>4, <1>5 DEF IInv, Work, WorkOf
<1>7. /\ pc' \in [Workers -> {"receive", "search", "read", "send", "done"}]
      /\ pc'[w] = "receive" /\ \A v \in Workers \ {w} : pc'[v] = pc[v]
  BY <1>1, <1>2 DEF Types
<1>8. /\ region' \in [Workers -> DOMAIN regions \cup {Nothing}]
      /\ \A v \in Workers \ {w} : region'[v] = region[v]
  BY <1>1, <1>2 DEF Types
<1>9. /\ reader' \in [Workers -> Reader \cup {Nothing}]
      /\ \A v \in Workers \ {w} : reader'[v] = reader[v]
  BY <1>1, <1>2 DEF Types
<1>10. /\ found' \in [Workers -> Found] /\ ~found'[w].err
       /\ \A v \in Workers \ {w} : found'[v] = found[v]
  BY <1>1, <1>2, NoMatchTyped DEF NoMatch
<1>11. PICK n \in Nat : n = Len(results)
  BY <1>1
<1>12. /\ results' \in Seq(Found) /\ Len(results') = n + 1
       /\ \A k \in 1 .. n : results'[k] = results[k]
       /\ results'[n + 1] = f
       /\ \A k \in 1 .. n + 1 : k \in 1 .. n \/ k = n + 1
       /\ n + 1 \in 1 .. n + 1 /\ \A k \in 1 .. n : k \in 1 .. n + 1
  BY <1>1, <1>2, <1>5, <1>11
<1>13. \A v \in Workers : Works(v)' <=> Works(v) /\ v # w
  BY <1>7 DEF Works
<1>14. \A j : Fed(j)' <=> Fed(j)
  BY <1>2 DEF Fed, Selected, EndAddr
<1>15. \A j : Worked(j)' <=> Worked(j) /\ j # i
  <2>1. \A v \in Workers : Works(v) /\ v # w => region[v] # i
    BY <1>3, <1>4 DEF IInv, Owned
  <2> QED
    BY <1>4, <1>8, <1>13, <2>1 DEF Worked
<1>16. \A j : Due(j)' <=> Due(j) \/ (j = i /\ i \notin failed)
  BY <1>2, <1>3, <1>4, <1>14, <1>15 DEF Due
<1>17. ~Due(i)
  BY <1>3, <1>4 DEF Due
<1>18. \A x : Told(x)' <=> Told(x) \/ Tells(f.matches, x)
  <2>1. \A x : Tells(matches, x)' <=> Tells(matches, x)
    BY <1>2 DEF Tells
  <2>2. \A x, k : Tells(results[k].matches, x)' <=> Tells(results'[k].matches, x)
    BY DEF Tells
  <2>3. \A x : Told(x)' <=> Tells(matches, x) \/ \E k \in 1 .. n + 1 : Tells(results'[k].matches, x)
    BY <1>12, <2>1, <2>2 DEF Told
  <2>4. \A x : Told(x) <=> Tells(matches, x) \/ \E k \in 1 .. n : Tells(results[k].matches, x)
    BY <1>11 DEF Told
  <2> QED
    BY <1>12, <2>3, <2>4
<1>19. \A x : Tells(f.matches, x) => i \notin failed /\ ~f.err /\ x \in At(i)
  <2>1. f.matches = <<>> => \A x : ~Tells(f.matches, x)
    <3>1. \A q : q = <<>> => Len(q) = 0
      OBVIOUS
    <3>2. \A k \in 1 .. 0 : FALSE
      OBVIOUS
    <3> QED
      BY <3>1, <3>2 DEF Tells
  <2> QED
    BY <1>6, <2>1, ListsTells
<1>20. /\ \A j : At(j)' = At(j)
       /\ \A x \in At(i) : x[1] = i
  BY <1>1, <1>2, MatchesOf DEF At
<1>21. \A x \in Match : Tells(f.matches, x) => x[1] = i /\ ~Told(x)
  BY <1>17, <1>19, <1>20 DEF IInv, Whole
<1>22. Types'
  <2>1. Len(results') <= Cardinality(Workers)
    BY <1>1, <1>2, <1>11, <1>12, Inputs
  <2> QED
    BY <1>1, <1>2, <1>7, <1>8, <1>9, <1>10, <1>12, <2>1 DEF Types
<1>23. Owned'
  <2>1. \A v \in Workers : Works(v)' => region'[v] = region[v]
    BY <1>8, <1>13
  <2>2. ASSUME NEW v \in Workers, Works(v)'
        PROVE  Fed(region[v])'
    <3>1. Fed(region[v]) /\ region'[v] = region[v]
      BY <1>13, <2>1, <2>2 DEF IInv, Owned
    <3> QED
      BY <1>2, <3>1 DEF Fed, Selected, EndAddr
  <2>3. \A v, u \in Workers : Works(v)' /\ Works(u)' /\ region'[v] = region'[u] => v = u
    BY <1>13, <2>1 DEF IInv, Owned
  <2>4. \A j \in failed' : Fed(j)'
    BY <1>2, <1>14 DEF IInv, Owned
  <2> QED
    BY <2>2, <2>3, <2>4 DEF Owned
<1>24. Work'
  <2>1. \A j, m : At(j)' = At(j) /\ AtBefore(j, m)' = AtBefore(j, m)
    BY <1>2 DEF At, AtBefore
  <2>2. ASSUME NEW v \in Workers \ {w}
        PROVE  WorkOf(v)'
    <3>1. WorkOf(v)
      BY DEF IInv, Work
    <3> QED
      BY <1>2, <1>7, <1>8, <1>9, <1>10, <2>1, <3>1 DEF WorkOf
  <2>3. WorkOf(w)'
    BY <1>7 DEF WorkOf
  <2> QED
    BY <2>2, <2>3 DEF Work
<1>25. NoErrors'
  <2> SUFFICES ASSUME Undisturbed
               PROVE  NoErrors'
    BY <1>2 DEF NoErrors, Undisturbed
  <2>1. /\ ~scanDone /\ ~firstErr /\ ~f.err
        /\ \A v \in Workers : ~found[v].err
        /\ \A k \in 1 .. n : ~results[k].err
    BY <1>5, <1>11 DEF IInv, NoErrors
  <2>2. \A v \in Workers : ~found'[v].err
    BY <1>10, <2>1
  <2>3. \A k \in 1 .. n + 1 : ~results'[k].err
    BY <1>12, <2>1
  <2> QED
    BY <1>2, <1>12, <2>1, <2>2, <2>3 DEF NoErrors
<1>26. Whole'
  <2>1. ASSUME NEW x \in Match, Told(x)'
        PROVE  Due(x[1])' /\ (x \in At(x[1]))'
    <3>1. CASE Told(x)
      BY <1>16, <1>20, <3>1 DEF IInv, Whole
    <3>2. CASE Tells(f.matches, x)
      BY <1>16, <1>19, <1>20, <3>2
    <3> QED
      BY <1>18, <2>1, <3>1, <3>2
  <2>2. ASSUME Undisturbed', NEW j \in DOMAIN regions, Due(j)', NEW x \in At(j)
        PROVE  Told(x)'
    <3>1. CASE Due(j)
      BY <1>2, <1>18, <2>2, <3>1 DEF IInv, Whole, Undisturbed
    <3>2. CASE j = i /\ i \notin failed
      <4>1. ~f.err
        BY <1>2, <1>5, <2>2 DEF IInv, NoErrors, Undisturbed
      <4>2. Tells(f.matches, x)
        BY <1>6, <2>2, <3>2, <4>1, ListsTells
      <4> QED
        BY <1>18, <4>2
    <3> QED
      BY <1>16, <2>2, <3>1, <3>2
  <2> QED
    BY <1>2, <1>20, <2>1, <2>2 DEF Whole
<1>27. Unique'
  <2>1. \A x : Tells(matches, x) => Told(x)
    BY DEF Told
  <2>2. \A x : \A k \in 1 .. n : Tells(results[k].matches, x) => Told(x)
    BY <1>11 DEF Told
  <2>3. Once(matches)'
    BY <1>2 DEF IInv, Unique, Once
  <2>4. Once(f.matches)
    <3>1. \A q : q = <<>> => Len(q) = 0
      OBVIOUS
    <3>2. \A k \in 1 .. 0 : FALSE
      OBVIOUS
    <3>3. f.matches = <<>> => Once(f.matches)
      BY <3>1, <3>2 DEF Once
    <3> QED
      BY <1>6, <3>3 DEF Lists
  <2>5. ASSUME NEW k \in 1 .. n + 1
        PROVE  /\ Once(results'[k].matches)
               /\ \A x \in Match : Tells(results'[k].matches, x) =>
                    /\ ~Tells(matches, x)
                    /\ \A j \in 1 .. n + 1 : Tells(results'[j].matches, x) => j = k
    <3>1. CASE k \in 1 .. n
      <4>1. results'[k] = results[k]
        BY <1>12, <3>1
      <4>2. Once(results[k].matches)
        BY <1>11, <3>1 DEF IInv, Unique
      <4>3. ASSUME NEW x \in Match, Tells(results[k].matches, x)
            PROVE  /\ ~Tells(matches, x)
                   /\ \A j \in 1 .. n + 1 : Tells(results'[j].matches, x) => j = k
        <5>1. /\ ~Tells(matches, x)
              /\ \A j \in 1 .. n : Tells(results[j].matches, x) => j = k
          BY <1>11, <3>1, <4>3 DEF IInv, Unique
        <5>2. ~Tells(f.matches, x)
          BY <1>21, <2>2, <3>1, <4>3
        <5> QED
          BY <1>12, <5>1, <5>2
      <4> QED
        BY <4>1, <4>2, <4>3
    <3>2. CASE k = n + 1
      <4>1. results'[k] = f
        BY <1>12, <3>2
      <4>2. ASSUME NEW x \in Match, Tells(f.matches, x)
            PROVE  /\ ~Tells(matches, x)
                   /\ \A j \in 1 .. n + 1 : Tells(results'[j].matches, x) => j = k
        <5>1. ~Told(x)
          BY <1>21, <4>2
        <5>2. \A j \in 1 .. n : ~Tells(results'[j].matches, x)
          BY <1>12, <2>2, <5>1
        <5> QED
          BY <1>12, <2>1, <3>2, <5>1, <5>2
      <4> QED
        BY <2>4, <4>1, <4>2
    <3> QED
      BY <1>12, <3>1, <3>2
  <2>6. Len(results') = n + 1 /\ matches' = matches
    BY <1>2, <1>12
  <2> QED
    BY <2>3, <2>5, <2>6 DEF Unique, Once, Tells
<1>28. Endings'
  <2>1. ~returned
    BY <1>2 DEF IInv, Endings
  <2>2. ToFeed' = ToFeed
    BY <1>2 DEF ToFeed, Selected, EndAddr
  <2> QED
    BY <1>2, <1>7, <2>1, <2>2 DEF IInv, Endings, Undisturbed
<1>29. Refusals'
  <2> SUFFICES ASSUME refused # {}
               PROVE  firstErr \/ (\E k \in 1 .. n + 1 : results'[k].err) \/ \E v \in Workers : pc'[v] = "send" /\ found'[v].err
    BY <1>2, <1>12 DEF Refusals
  <2>1. firstErr \/ (\E k \in 1 .. n : results[k].err) \/ \E v \in Workers : pc[v] = "send" /\ found[v].err
    BY <1>11 DEF IInv, Refusals
  <2>2. CASE \E k \in 1 .. n : results[k].err
    BY <1>12, <2>2
  <2>3. ASSUME NEW v \in Workers, pc[v] = "send", found[v].err
        PROVE  (\E k \in 1 .. n + 1 : results'[k].err) \/ \E u \in Workers : pc'[u] = "send" /\ found'[u].err
    <3>1. CASE v = w
      BY <1>5, <1>12, <2>3, <3>1
    <3>2. CASE v # w
      BY <1>7, <1>10, <2>3, <3>2
    <3> QED
      BY <3>1, <3>2
  <2> QED
    BY <2>1, <2>2, <2>3
<1> QED
  BY <1>22, <1>23, <1>24, <1>25, <1>26, <1>27, <1>28, <1>29 DEF IInv

(* Two lists in a row.                                                     *)
LEMMA ConcatTells ==
  ASSUME NEW T, NEW q \in Seq(T), NEW r \in Seq(T)
  PROVE  /\ \A x : Tells(q \o r, x) <=> Tells(q, x) \/ Tells(r, x)
         /\ Once(q) /\ Once(r) /\ (\A x : Tells(q, x) => ~Tells(r, x)) => Once(q \o r)
<1> DEFINE s == q \o r
<1>1. PICK a \in Nat : a = Len(q)
  OBVIOUS
<1>2. PICK b \in Nat : b = Len(r)
  OBVIOUS
<1>3. /\ Len(s) = a + b
      /\ \A k \in 1 .. a + b : s[k] = IF k <= a THEN q[k] ELSE r[k - a]
  <2>1. /\ Len(q \o r) = Len(q) + Len(r)
        /\ \A k \in 1 .. Len(q) + Len(r) : (q \o r)[k] = IF k <= Len(q) THEN q[k] ELSE r[k - Len(q)]
    BY ConcatProperties
  <2> QED
    BY <1>1, <1>2, <2>1
<1> HIDE DEF s
<1>4. \A k \in 1 .. a : k \in 1 .. a + b /\ k <= a
  BY <1>1, <1>2
<1>5. \A k \in 1 .. b : a + k \in 1 .. a + b /\ ~(a + k <= a) /\ (a + k) - a = k
  BY <1>1, <1>2
<1>6. \A k \in 1 .. a + b : IF k <= a THEN k \in 1 .. a ELSE k - a \in 1 .. b /\ k = a + (k - a)
  BY <1>1, <1>2
<1>7. \A k \in 1 .. a : s[k] = q[k]
  BY <1>3, <1>4
<1>8. \A k \in 1 .. b : s[a + k] = r[k]
  BY <1>3, <1>5
<1>9. \A x : Tells(s, x) <=> Tells(q, x) \/ Tells(r, x)
  <2>1. ASSUME NEW x, Tells(s, x)
        PROVE  Tells(q, x) \/ Tells(r, x)
    <3>1. PICK k \in 1 .. a + b : s[k] = x
      BY <1>3, <2>1 DEF Tells
    <3>2. CASE k <= a
      <4>1. k \in 1 .. a
        BY <1>6, <3>2
      <4>2. q[k] = x
        BY <1>7, <3>1, <4>1
      <4> QED
        BY <1>1, <4>1, <4>2 DEF Tells
    <3>3. CASE ~(k <= a)
      <4>1. k - a \in 1 .. b
        BY <1>6, <3>3
      <4>2. r[k - a] = x
        BY <1>3, <3>1, <3>3
      <4> QED
        BY <1>2, <4>1, <4>2 DEF Tells
    <3> QED
      BY <3>2, <3>3
  <2>2. ASSUME NEW x, Tells(q, x)
        PROVE  Tells(s, x)
    <3>1. PICK k \in 1 .. a : q[k] = x
      BY <1>1, <2>2 DEF Tells
    <3>2. k \in 1 .. a + b /\ s[k] = x
      BY <1>4, <1>7, <3>1
    <3> QED
      BY <1>3, <3>2 DEF Tells
  <2>3. ASSUME NEW x, Tells(r, x)
        PROVE  Tells(s, x)
    <3>1. PICK k \in 1 .. b : r[k] = x
      BY <1>2, <2>3 DEF Tells
    <3>2. a + k \in 1 .. a + b /\ s[a + k] = x
      BY <1>5, <1>8, <3>1
    <3> QED
      BY <1>3, <3>2 DEF Tells
  <2> QED
    BY <2>1, <2>2, <2>3
<1>10. ASSUME Once(q), Once(r), \A x : Tells(q, x) => ~Tells(r, x)
       PROVE  Once(s)
  <2>1. \A j \in 1 .. a : \A k \in 1 .. b : q[j] # r[k]
    BY <1>1, <1>2, <1>10 DEF Tells
  <2>2. \A j, k \in 1 .. a : q[j] = q[k] => j = k
    BY <1>1, <1>10 DEF Once
  <2>3. \A j, k \in 1 .. b : r[j] = r[k] => j = k
    BY <1>2, <1>10 DEF Once
  <2> SUFFICES ASSUME NEW j \in 1 .. a + b, NEW k \in 1 .. a + b, s[j] = s[k]
               PROVE  j = k
    BY <1>3 DEF Once
  <2>4. CASE j <= a /\ k <= a
    <3>1. j \in 1 .. a /\ k \in 1 .. a
      BY <1>6, <2>4
    <3> QED
      BY <1>7, <2>2, <3>1
  <2>5. CASE j <= a /\ ~(k <= a)
    <3>1. j \in 1 .. a /\ k - a \in 1 .. b
      BY <1>6, <2>5
    <3>2. s[j] = q[j] /\ s[k] = r[k - a]
      BY <1>3, <2>5
    <3> QED
      BY <2>1, <3>1, <3>2
  <2>6. CASE ~(j <= a) /\ k <= a
    <3>1. j - a \in 1 .. b /\ k \in 1 .. a
      BY <1>6, <2>6
    <3>2. s[j] = r[j - a] /\ s[k] = q[k]
      BY <1>3, <2>6
    <3> QED
      BY <2>1, <3>1, <3>2
  <2>7. CASE ~(j <= a) /\ ~(k <= a)
    <3>1. j - a \in 1 .. b /\ k - a \in 1 .. b /\ j = a + (j - a) /\ k = a + (k - a)
      BY <1>6, <2>7
    <3>2. s[j] = r[j - a] /\ s[k] = r[k - a]
      BY <1>3, <2>7
    <3>3. j - a = k - a
      BY <2>3, <3>1, <3>2
    <3> QED
      BY <3>1, <3>3
  <2> QED
    BY <2>4, <2>5, <2>6, <2>7
<1> QED
  BY <1>9, <1>10 DEF s

(* The collector moves the first result to the matches: what is told stays *)
(* the same.                                                               *)
LEMMA CollectStep ==
  ASSUME IInv, Collect
  PROVE  IInv'
<1>1. /\ Types /\ results \in Seq(Found) /\ matches \in Seq(Match)
      /\ firstErr \in BOOLEAN /\ scanDone \in BOOLEAN
  BY DEF IInv, Types
<1>2. /\ results # <<>>
      /\ UNCHANGED <<regions, pattern, range, cancelled, next, closed, pc, region, reader, found, failed, returned>>
      /\ UNCHANGED <<attached, refused, crashed>>
  BY DEF Collect, input, feedVars, workVars, ctlVars
<1>3. PICK h : h = Head(results)
  OBVIOUS
<1>4. PICK t : t = Tail(results)
  OBVIOUS
<1>5. /\ results' = t /\ matches' = matches \o h.matches
      /\ firstErr' = (firstErr \/ h.err) /\ scanDone' = (scanDone \/ h.err)
  BY <1>3, <1>4 DEF Collect
<1>6. PICK n \in Nat : n = Len(t)
  BY <1>1, <1>2, <1>4, HeadTailProperties
<1>7. /\ h \in Found /\ t \in Seq(Found) /\ Len(results) = n + 1
      /\ h = results[1] /\ \A k \in 1 .. n : t[k] = results[k + 1]
  <2>1. /\ Head(results) \in Found /\ Tail(results) \in Seq(Found)
        /\ Len(Tail(results)) = Len(results) - 1
        /\ \A k \in 1 .. Len(Tail(results)) : Tail(results)[k] = results[k + 1]
    BY <1>1, <1>2, HeadTailProperties
  <2>2. Head(results) = results[1] /\ Len(results) \in Nat
    BY <1>1, <1>2
  <2>3. Len(results) = n + 1
    BY <1>4, <1>6, <2>1, <2>2
  <2> QED
    BY <1>3, <1>4, <1>6, <2>1, <2>2, <2>3
<1>8. h.matches \in Seq(Match) /\ h.err \in BOOLEAN
  BY <1>7 DEF Found
<1>9. /\ 1 \in 1 .. n + 1
      /\ \A k \in 1 .. n : k + 1 \in 1 .. n + 1 /\ k + 1 # 1
      /\ \A k \in 1 .. n + 1 : k = 1 \/ (k - 1 \in 1 .. n /\ (k - 1) + 1 = k)
      /\ \A j, k \in 1 .. n : j + 1 = k + 1 => j = k
  BY <1>6
<1>10. \A x : Tells(matches', x) <=> Tells(matches, x) \/ Tells(h.matches, x)
  BY <1>1, <1>5, <1>8, ConcatTells
<1>11. \A x : Told(x) <=> Tells(matches, x) \/ \E k \in 1 .. n + 1 : Tells(results[k].matches, x)
  BY <1>7 DEF Told
<1>12. \A x : Told(x)' <=> Tells(matches', x) \/ \E k \in 1 .. n : Tells(t[k].matches, x)
  <2>1. \A x : Tells(matches, x)' <=> Tells(matches', x)
    BY DEF Tells
  <2>2. \A x, k : Tells(results[k].matches, x)' <=> Tells(results'[k].matches, x)
    BY DEF Tells
  <2> QED
    BY <1>5, <1>6, <2>1, <2>2 DEF Told
<1>13. \A x : Told(x)' <=> Told(x)
  <2>1. ASSUME NEW x, Told(x)'
        PROVE  Told(x)
    <3>1. ASSUME NEW k \in 1 .. n, Tells(t[k].matches, x)
          PROVE  Told(x)
      BY <1>7, <1>9, <1>11, <3>1
    <3>2. Tells(h.matches, x) => Told(x)
      BY <1>7, <1>9, <1>11
    <3> QED
      BY <1>10, <1>11, <1>12, <2>1, <3>1, <3>2
  <2>2. ASSUME NEW x, Told(x)
        PROVE  Told(x)'
    <3>1. ASSUME NEW k \in 1 .. n + 1, Tells(results[k].matches, x)
          PROVE  Told(x)'
      <4>1. CASE k = 1
        BY <1>7, <1>10, <1>12, <3>1, <4>1
      <4>2. CASE k # 1
        <5>1. k - 1 \in 1 .. n /\ t[k - 1] = results[k]
          BY <1>7, <1>9, <4>2
        <5> QED
          BY <1>12, <3>1, <5>1
      <4> QED
        BY <4>1, <4>2
    <3> QED
      BY <1>10, <1>11, <1>12, <2>2, <3>1
  <2> QED
    BY <2>1, <2>2
<1>14. \A j : Due(j)' <=> Due(j)
  BY <1>2 DEF Due, Fed, Worked, Works, Selected, EndAddr
<1>15. \A j, m : At(j)' = At(j) /\ AtBefore(j, m)' = AtBefore(j, m)
  BY <1>2 DEF At, AtBefore
<1>16. Types'
  <2>1. Len(results') <= Cardinality(Workers)
    <3>1. Len(results) <= Cardinality(Workers) /\ Cardinality(Workers) \in Nat
      BY <1>1, Inputs DEF Types
    <3> QED
      BY <1>5, <1>6, <1>7, <3>1
  <2>2. matches' \in Seq(Match)
    BY <1>1, <1>5, <1>8
  <2>3. firstErr' \in BOOLEAN /\ scanDone' \in BOOLEAN
    BY <1>1, <1>5, <1>8
  <2> QED
    BY <1>1, <1>2, <1>5, <1>7, <2>1, <2>2, <2>3 DEF Types
<1>17. Owned'
  BY <1>2 DEF IInv, Owned, Works, Fed, Selected, EndAddr
<1>18. Work'
  <2>1. ASSUME NEW v \in Workers
        PROVE  WorkOf(v)'
    <3>1. WorkOf(v)
      BY DEF IInv, Work
    <3> QED
      BY <1>2, <1>15, <3>1 DEF WorkOf
  <2> QED
    BY <2>1 DEF Work
<1>19. NoErrors'
  <2> SUFFICES ASSUME Undisturbed
               PROVE  NoErrors'
    BY <1>2 DEF NoErrors, Undisturbed
  <2>1. /\ ~scanDone /\ ~firstErr
        /\ \A v \in Workers : ~found[v].err
        /\ \A k \in 1 .. n + 1 : ~results[k].err
    BY <1>7 DEF IInv, NoErrors
  <2>2. ~h.err /\ \A k \in 1 .. n : ~t[k].err
    BY <1>7, <1>9, <2>1
  <2> QED
    BY <1>2, <1>5, <1>6, <2>1, <2>2 DEF NoErrors
<1>20. Whole'
  <2>1. ASSUME NEW x \in Match, Told(x)'
        PROVE  Due(x[1])' /\ (x \in At(x[1]))'
    BY <1>13, <1>14, <1>15, <2>1 DEF IInv, Whole
  <2>2. ASSUME Undisturbed', NEW j \in DOMAIN regions, Due(j)', NEW x \in At(j)
        PROVE  Told(x)'
    BY <1>2, <1>13, <1>14, <2>2 DEF IInv, Whole, Undisturbed
  <2> QED
    BY <1>2, <1>15, <2>1, <2>2 DEF Whole
<1>21. Unique'
  <2>1. /\ Once(matches)
        /\ \A k \in 1 .. n + 1 :
             /\ Once(results[k].matches)
             /\ \A x \in Match : Tells(results[k].matches, x) =>
                  /\ ~Tells(matches, x)
                  /\ \A j \in 1 .. n + 1 : Tells(results[j].matches, x) => j = k
    BY <1>7 DEF IInv, Unique
  <2>2. \A x : Tells(matches, x) => x \in Match
    BY <1>1 DEF Tells
  <2>3. \A x : Tells(matches, x) => ~Tells(h.matches, x)
    BY <1>7, <1>9, <2>1, <2>2
  <2>4. Once(matches')
    <3>1. Once(h.matches)
      BY <1>7, <1>9, <2>1
    <3> QED
      BY <1>1, <1>5, <1>8, <2>1, <2>3, <3>1, ConcatTells
  <2>5. ASSUME NEW k \in 1 .. n
        PROVE  /\ Once(t[k].matches)
               /\ \A x \in Match : Tells(t[k].matches, x) =>
                    /\ ~Tells(matches', x)
                    /\ \A j \in 1 .. n : Tells(t[j].matches, x) => j = k
    <3>1. k + 1 \in 1 .. n + 1 /\ k + 1 # 1 /\ t[k] = results[k + 1]
      BY <1>7, <1>9
    <3>2. Once(t[k].matches)
      BY <2>1, <3>1
    <3>3. ASSUME NEW x \in Match, Tells(t[k].matches, x)
          PROVE  /\ ~Tells(matches', x)
                 /\ \A j \in 1 .. n : Tells(t[j].matches, x) => j = k
      <4>1. /\ ~Tells(matches, x)
            /\ \A j \in 1 .. n + 1 : Tells(results[j].matches, x) => j = k + 1
        BY <2>1, <3>1, <3>3
      <4>2. ~Tells(h.matches, x)
        BY <1>7, <1>9, <3>1, <4>1
      <4>3. ASSUME NEW j \in 1 .. n, Tells(t[j].matches, x)
            PROVE  j = k
        <5>1. j + 1 = k + 1
          BY <1>7, <1>9, <4>1, <4>3
        <5> QED
          BY <1>9, <5>1
      <4> QED
        BY <1>10, <4>1, <4>2, <4>3
    <3> QED
      BY <3>2, <3>3
  <2>6. Len(results') = n /\ results' = t
    BY <1>5, <1>6
  <2> QED
    BY <2>4, <2>5, <2>6 DEF Unique, Once, Tells
<1>22. Endings'
  <2>1. ~returned
    BY <1>2 DEF IInv, Endings
  <2>2. ToFeed' = ToFeed
    BY <1>2 DEF ToFeed, Selected, EndAddr
  <2> QED
    BY <1>2, <2>1, <2>2 DEF IInv, Endings, Undisturbed
<1>23. Refusals'
  <2> SUFFICES ASSUME refused # {}
               PROVE  firstErr' \/ (\E k \in 1 .. n : t[k].err) \/ \E v \in Workers : pc[v] = "send" /\ found[v].err
    BY <1>2, <1>5, <1>6 DEF Refusals
  <2>1. firstErr \/ (\E k \in 1 .. n + 1 : results[k].err) \/ \E v \in Workers : pc[v] = "send" /\ found[v].err
    BY <1>7 DEF IInv, Refusals
  <2>2. ASSUME NEW k \in 1 .. n + 1, results[k].err
        PROVE  firstErr' \/ \E m \in 1 .. n : t[m].err
    <3>1. CASE k = 1
      BY <1>5, <1>7, <2>2, <3>1
    <3>2. CASE k - 1 \in 1 .. n /\ (k - 1) + 1 = k
      <4>1. t[k - 1] = results[k]
        BY <1>7, <3>2
      <4> QED
        BY <2>2, <3>2, <4>1
    <3> QED
      BY <1>9, <3>1, <3>2
  <2> QED
    BY <1>5, <2>1, <2>2
<1> QED
  BY <1>16, <1>17, <1>18, <1>19, <1>20, <1>21, <1>22, <1>23 DEF IInv

(* The steps of the feeder's end, of the user, of other sessions and of    *)
(* the return leave the workers and what is found alone.                   *)
LEMMA RestKept ==
  ASSUME IInv, UNCHANGED <<regions, pattern, range, next, pc, region, reader, found>>,
         UNCHANGED <<results, matches, firstErr, failed, refused>>, cancelled => cancelled'
  PROVE  /\ Owned' /\ Work' /\ Whole' /\ Unique' /\ Refusals' /\ ToFeed' = ToFeed
         /\ Undisturbed' => Undisturbed
<1>1. \A j : Due(j)' <=> Due(j)
  BY DEF Due, Fed, Worked, Works, Selected, EndAddr
<1>2. Owned'
  BY DEF IInv, Owned, Works, Fed, Selected, EndAddr
<1>3. \A j, m : At(j)' = At(j) /\ AtBefore(j, m)' = AtBefore(j, m)
  BY DEF At, AtBefore
<1>4. Work'
  <2>1. ASSUME NEW v \in Workers
        PROVE  WorkOf(v)'
    <3>1. WorkOf(v)
      BY DEF IInv, Work
    <3> QED
      BY <1>3, <3>1 DEF WorkOf
  <2> QED
    BY <2>1 DEF Work
<1>5. Undisturbed' => Undisturbed
  BY DEF Undisturbed
<1>6. Whole' /\ Unique'
  BY <1>1, <1>5, FoundKept DEF IInv
<1>7. Refusals'
  BY DEF IInv, Refusals
<1>8. ToFeed' = ToFeed
  BY DEF ToFeed, Selected, EndAddr
<1> QED
  BY <1>2, <1>4, <1>5, <1>6, <1>7, <1>8

(* The end of the feeder keeps the invariant. *)
LEMMA FeederStopsStep ==
  ASSUME IInv, FeederStops
  PROVE  IInv'
<1>1. /\ UNCHANGED <<regions, pattern, range, next, pc, region, reader, found>>
      /\ UNCHANGED <<results, matches, firstErr, failed, cancelled, scanDone, returned>>
      /\ UNCHANGED <<attached, refused, crashed>>
      /\ closed' = TRUE /\ (ToFeed = {} \/ scanDone)
  BY DEF FeederStops, input, ctxVars, workVars, collectVars, ctlVars
<1>2. /\ Owned' /\ Work' /\ Whole' /\ Unique' /\ Refusals' /\ ToFeed' = ToFeed
      /\ Undisturbed' => Undisturbed
  BY <1>1, RestKept
<1>3. Types'
  BY <1>1 DEF IInv, Types
<1>4. NoErrors'
  BY <1>1, <1>2 DEF IInv, NoErrors
<1>5. Endings'
  BY <1>1, <1>2 DEF IInv, Endings, NoErrors
<1> QED
  BY <1>2, <1>3, <1>4, <1>5 DEF IInv

(* The return of the scan keeps the invariant. *)
LEMMA ReturnStep ==
  ASSUME IInv, Return
  PROVE  IInv'
<1>1. /\ UNCHANGED <<regions, pattern, range, next, pc, region, reader, found>>
      /\ UNCHANGED <<results, matches, firstErr, failed, cancelled, scanDone, closed>>
      /\ UNCHANGED <<attached, refused, crashed>>
      /\ returned' = TRUE /\ results = <<>> /\ \A w \in Workers : pc[w] = "done"
  BY DEF Return, input, ctxVars, feedVars, workVars, collectVars, ctlVars
<1>2. /\ Owned' /\ Work' /\ Whole' /\ Unique' /\ Refusals' /\ ToFeed' = ToFeed
      /\ Undisturbed' => Undisturbed
  BY <1>1, RestKept
<1>3. Types'
  BY <1>1 DEF IInv, Types
<1>4. NoErrors'
  BY <1>1, <1>2 DEF IInv, NoErrors
<1>5. Endings'
  BY <1>1, <1>2 DEF IInv, Endings
<1> QED
  BY <1>2, <1>3, <1>4, <1>5 DEF IInv

(* The cancellation of the context keeps the invariant. *)
LEMMA InterruptStep ==
  ASSUME IInv, Interrupt
  PROVE  IInv'
<1>1. /\ UNCHANGED <<regions, pattern, range, next, pc, region, reader, found>>
      /\ UNCHANGED <<results, matches, firstErr, failed, closed, returned>>
      /\ UNCHANGED <<attached, refused, crashed>>
      /\ cancelled' = TRUE /\ scanDone' = TRUE
  BY DEF Interrupt, input, feedVars, workVars, collectVars, ctlVars
<1>2. /\ Owned' /\ Work' /\ Whole' /\ Unique' /\ Refusals' /\ ToFeed' = ToFeed
      /\ Undisturbed' => Undisturbed
  BY <1>1, RestKept
<1>3. Types'
  BY <1>1 DEF IInv, Types
<1>4. NoErrors'
  BY <1>1 DEF NoErrors, Undisturbed
<1>5. Endings'
  BY <1>1, <1>2 DEF IInv, Endings
<1> QED
  BY <1>2, <1>3, <1>4, <1>5 DEF IInv

(* Another session's attach or detach, a crash and a step of nothing at    *)
(* all keep the invariant.                                                 *)
LEMMA OtherStep ==
  ASSUME IInv, UNCHANGED <<regions, pattern, range, next, pc, region, reader, found>>,
         UNCHANGED <<results, matches, firstErr, failed, cancelled, scanDone, closed, returned, refused>>,
         attached' \in BOOLEAN, crashed' \in BOOLEAN
  PROVE  IInv'
<1>1. /\ Owned' /\ Work' /\ Whole' /\ Unique' /\ Refusals' /\ ToFeed' = ToFeed
      /\ Undisturbed' => Undisturbed
  BY RestKept
<1>2. Types'
  BY DEF IInv, Types
<1>3. NoErrors'
  BY <1>1 DEF IInv, NoErrors
<1>4. Endings'
  BY <1>1 DEF IInv, Endings
<1> QED
  BY <1>1, <1>2, <1>3, <1>4 DEF IInv

(* Every step keeps the invariant. *)
LEMMA NextInvariant == IInv /\ [Next]_vars => IInv'
<1> SUFFICES ASSUME IInv, [Next]_vars
             PROVE  IInv'
  OBVIOUS
<1>1. ASSUME NEW w \in Workers, WorkerStep(w)
      PROVE  IInv'
  <2>1. CASE Feed(w)
    BY <2>1, FeedStep
  <2>2. CASE WorkerEnds(w)
    BY <2>2, WorkerEndsStep
  <2>3. CASE SearchRefused(w)
    BY <2>3, SearchRefusedStep
  <2>4. CASE SearchBytes(w)
    BY <2>4, SearchBytesStep
  <2>5. CASE SearchReader(w)
    <3>1. CASE attached
      BY <2>5, <3>1, ReaderMadeStep
    <3>2. CASE ~attached
      BY <2>5, <3>2, ReaderRefusedStep
    <3> QED
      BY <3>1, <3>2
  <2>6. CASE ReaderNext(w)
    BY <2>6, ReaderNextStep
  <2>7. CASE ReaderEnds(w)
    BY <2>7, ReaderEndsStep
  <2>8. CASE Send(w)
    BY <2>8, SendStep
  <2>9. CASE SearchPanics(w)
    <3>1. /\ UNCHANGED <<regions, pattern, range, next, pc, region, reader, found>>
          /\ UNCHANGED <<results, matches, firstErr, failed, cancelled, scanDone, closed, returned, refused>>
          /\ attached' \in BOOLEAN /\ crashed' \in BOOLEAN
      BY <2>9 DEF SearchPanics, input, ctxVars, feedVars, workVars, collectVars, IInv, Types
    <3> QED
      BY <3>1, OtherStep
  <2> QED
    BY <1>1, <2>1, <2>2, <2>3, <2>4, <2>5, <2>6, <2>7, <2>8, <2>9 DEF WorkerStep
<1>2. CASE FeederStops
  BY <1>2, FeederStopsStep
<1>3. CASE Collect
  BY <1>3, CollectStep
<1>4. CASE Return
  BY <1>4, ReturnStep
<1>5. CASE Interrupt
  BY <1>5, InterruptStep
<1>6. CASE Detach \/ Attach \/ UNCHANGED vars
  <2>1. /\ UNCHANGED <<regions, pattern, range, next, pc, region, reader, found>>
        /\ UNCHANGED <<results, matches, firstErr, failed, cancelled, scanDone, closed, returned, refused>>
        /\ attached' \in BOOLEAN /\ crashed' \in BOOLEAN
    <3>1. CASE Detach \/ Attach
      BY <3>1 DEF Detach, Attach, OthersUnchanged, input, ctxVars, feedVars, workVars, collectVars, IInv, Types
    <3>2. CASE UNCHANGED vars
      BY <3>2 DEF vars, input, ctxVars, feedVars, workVars, collectVars, ctlVars, IInv, Types
    <3> QED
      BY <1>6, <3>1, <3>2
  <2> QED
    BY <2>1, OtherStep
<1> QED
  BY <1>1, <1>2, <1>3, <1>4, <1>5, <1>6 DEF Next

-----------------------------------------------------------------------------
(* The inductive invariant holds in every reachable state.                 *)
THEOREM Invariant == Spec => []IInv
<1>1. Init => IInv
  BY InitInvariant
<1>2. IInv /\ [Next]_vars => IInv'
  BY NextInvariant
<1> QED
  BY <1>1, <1>2, PTL DEF Spec

(* The state stays within its types.                                       *)
THEOREM TypeCorrect == Spec => []TypeOK
<1>1. IInv => TypeOK
  <2> SUFFICES ASSUME IInv
               PROVE  TypeOK
    OBVIOUS
  <2>1. <<cancelled, scanDone, closed, firstErr, returned>> \in BOOLEAN \X BOOLEAN \X BOOLEAN \X BOOLEAN \X BOOLEAN
    BY DEF IInv, Types
  <2>2. /\ next \in 1 .. Len(regions) + 1
        /\ pc \in [Workers -> {"receive", "search", "read", "send", "done"}]
        /\ \A w \in Workers : region[w] \in DOMAIN regions \cup {Nothing}
        /\ Len(results) <= Cardinality(Workers)
        /\ failed \subseteq DOMAIN regions
    BY DEF IInv, Types
  <2>3. <<attached, crashed>> \in BOOLEAN \X BOOLEAN /\ refused \subseteq DOMAIN regions
    BY DEF IInv, Types
  <2> QED
    BY <2>1, <2>2, <2>3 DEF TypeOK
<1> QED
  BY <1>1, Invariant, PTL

(* What BufferedReader.next shows is the part of the region that it says,  *)
(* and shorter than the pattern only at the end of the region.             *)
THEOREM WindowIsInPlace == Spec => []WindowInPlace
<1>1. IInv => WindowInPlace
  <2> SUFFICES ASSUME IInv, NEW w \in Workers, pc[w] = "read"
               PROVE  LET r == reader[w]
                      IN /\ r.last = SubSeq(Data(w), r.lastOffset + 1, r.lastOffset + Len(r.last))
                         /\ r.bufOffset > 0 => Len(r.last) = Smaller(Len(pattern), Len(Data(w)) - r.lastOffset)
    BY DEF WindowInPlace
  <2>1. PICK r : r = reader[w]
    OBVIOUS
  <2>2. PICK d : d = Data(w)
    OBVIOUS
  <2>3. Types /\ Works(w)
    BY DEF IInv, Works
  <2>4. region[w] \in DOMAIN regions
    BY <2>3, Inputs DEF IInv, Owned, Fed
  <2>5. d \in Seq(Nat) /\ Len(pattern) \in Nat
    BY <2>2, <2>3, <2>4, Inputs DEF Data
  <2>6. r \in Reader /\ InPlace(r, Len(pattern), d)
    BY <2>1, <2>2 DEF IInv, Work, WorkOf, Data
  <2>7. r.bufOffset \in Nat /\ r.lastOffset \in Nat /\ r.last \in Seq(Nat) /\ r.remain \in Nat /\ Len(d) \in Nat
    BY <2>5, <2>6 DEF Reader
  <2>8. r.bufOffset > 0 => Len(r.last) = Smaller(Len(pattern), Len(d) - r.lastOffset)
    BY <2>6 DEF InPlace
  <2>9. /\ r.lastOffset + Len(r.last) <= Len(d)
        /\ \A k \in 1 .. Len(r.last) : r.last[k] = d[r.lastOffset + k]
    <3>1. CASE r.bufOffset = 0
      <4>1. r.last = <<>> /\ r.lastOffset = 0
        BY <2>6, <3>1 DEF InPlace
      <4>2. Len(r.last) = 0
        BY <4>1
      <4> QED
        BY <2>7, <4>1, <4>2
    <3>2. CASE r.bufOffset > 0
      <4>1. /\ Len(r.buf) > 0 /\ r.off = r.lastOffset + Len(r.buf)
            /\ \A k \in 1 .. Len(r.last) : r.last[k] = d[r.lastOffset + k]
            /\ r.off + r.remain = Len(d)
        BY <2>6, <3>2 DEF InPlace, Buffered
      <4>2. Len(r.buf) \in Nat
        BY <2>6 DEF Reader
      <4>3. Len(d) - r.lastOffset \in Nat
        <5>1. \A x, y, z \in Nat : ((x + y) + z) - x \in Nat
          OBVIOUS
        <5>2. Len(d) = (r.lastOffset + Len(r.buf)) + r.remain
          BY <4>1
        <5> QED
          BY <2>7, <4>2, <5>1, <5>2
      <4>4. Len(r.last) <= Len(d) - r.lastOffset
        BY <2>5, <2>8, <3>2, <4>3 DEF Smaller
      <4>5. \A x, y, z \in Nat : x <= y - z => z + x <= y
        OBVIOUS
      <4>6. Len(r.last) \in Nat
        BY <2>7
      <4> QED
        BY <2>7, <4>1, <4>4, <4>5, <4>6
    <3> QED
      BY <2>7, <3>1, <3>2
  <2> DEFINE t == SubSeq(d, r.lastOffset + 1, r.lastOffset + Len(r.last))
  <2>10. t \in Seq(Nat) /\ Len(t) = Len(r.last) /\ \A k \in 1 .. Len(r.last) : t[k] = d[r.lastOffset + k]
    <3>1. Len(r.last) \in Nat
      BY <2>7
    <3> QED
      BY <2>5, <2>7, <2>9, <3>1, BytesAt
  <2> HIDE DEF t
  <2>11. r.last = t
    BY <2>7, <2>9, <2>10, SeqEqual
  <2> QED
    BY <2>1, <2>2, <2>8, <2>11 DEF t
<1> QED
  BY <1>1, Invariant, PTL

(* A scan that was not interrupted fails exactly when a reader was refused *)
(* to a worker, and if it does not fail it reports every occurrence in     *)
(* every region it was to search and could read, each once.                *)
THEOREM ScanIsComplete == Spec => []ScanIsWhole
<1>1. IInv => ScanIsWhole
  <2> SUFFICES ASSUME IInv, returned, ~cancelled
               PROVE  (firstErr <=> refused # {}) /\ (~firstErr => ReportsAll)
    BY DEF ScanIsWhole
  <2>1. Types /\ matches \in Seq(Match) /\ DOMAIN matches = 1 .. Len(matches)
    BY DEF IInv, Types
  <2>2. results = <<>> /\ \A w \in Workers : pc[w] = "done"
    BY DEF IInv, Endings
  <2>3. firstErr <=> refused # {}
    <3>1. Len(results) = 0 /\ \A k \in 1 .. 0 : FALSE
      BY <2>2
    <3>2. refused # {} => firstErr
      BY <2>2, <3>1 DEF IInv, Refusals
    <3>3. firstErr => refused # {}
      BY DEF IInv, NoErrors, Undisturbed
    <3> QED
      BY <3>2, <3>3
  <2> SUFFICES ASSUME ~firstErr
               PROVE  ReportsAll
    BY <2>3
  <2>4. Undisturbed
    BY <2>3 DEF Undisturbed
  <2>5. ToFeed = {}
    <3>1. PICK w \in Workers : TRUE
      BY ScanAssumption
    <3> QED
      BY <2>2, <2>4, <3>1 DEF IInv, Endings
  <2>6. \A j : Due(j) <=> j \in Selected \ failed
    <3>1. \A j \in Selected : j < next
      <4>1. \A j \in Selected : j \in Nat /\ next \in Nat /\ ~(j >= next)
        BY <2>1, <2>5, Inputs DEF ToFeed, Types
      <4> QED
        BY <4>1
    <3>2. \A j : ~Worked(j)
      BY <2>2 DEF Worked, Works
    <3> QED
      BY <3>1, <3>2 DEF Due, Fed
  <2>7. \A x : Told(x) <=> Tells(matches, x)
    <3>1. Len(results) = 0
      BY <2>2
    <3>2. \A k \in 1 .. 0 : FALSE
      OBVIOUS
    <3> QED
      BY <3>1, <3>2 DEF Told
  <2>8. \A j \in Selected : j \in DOMAIN regions /\ At(j) \subseteq Match /\ \A x \in At(j) : x[1] = j
    BY <2>1, Inputs, MatchesOf
  <2> DEFINE S == {matches[i] : i \in DOMAIN matches}
             T == UNION {At(r) : r \in Selected \ failed}
  <2>9. \A x : x \in S <=> Tells(matches, x)
    BY <2>1 DEF Tells
  <2>10. S \subseteq T
    <3>1. ASSUME NEW x \in S
          PROVE  x \in T
      <4>1. x \in Match
        BY <2>1
      <4>2. Due(x[1]) /\ x \in At(x[1])
        BY <2>7, <2>9, <4>1 DEF IInv, Whole
      <4> QED
        BY <2>6, <4>2
    <3> QED
      BY <3>1
  <2>11. T \subseteq S
    <3>1. ASSUME NEW j \in Selected \ failed, NEW x \in At(j)
          PROVE  x \in S
      <4>1. Told(x)
        BY <2>4, <2>6, <2>8 DEF IInv, Whole
      <4> QED
        BY <2>7, <2>9, <4>1
    <3> QED
      BY <3>1
  <2>12. S = UNION {{<<r, o>> : o \in Occurrences(pattern, regions[r].data)} : r \in Selected \ failed}
    BY <2>10, <2>11 DEF At
  <2>13. \A i, j \in DOMAIN matches : matches[i] = matches[j] => i = j
    BY <2>1 DEF IInv, Unique, Once
  <2> QED
    BY <2>12, <2>13 DEF ReportsAll
<1> QED
  BY <1>1, Invariant, PTL
=============================================================================
