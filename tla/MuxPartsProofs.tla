----------------------------- MODULE MuxPartsProofs -----------------------------
(***************************************************************************)
(* Proofs about the two parts of internal/connmux that ConnMux takes as    *)
(* given: the read buffer of a connection (MuxChild) and the handshake     *)
(* that the two Muxes start from (MuxHandshake).                           *)
(*                                                                         *)
(* For any number of readers and any sizes of payloads and of read buffers *)
(* (empty payloads included), the read buffer loses no wakeup and          *)
(* implements ByteStream. Buffer adds to Contiguous that no chunk ends     *)
(* after the last byte that was received; Backed says why a Read that does *)
(* not overlap with another one finds data: each token, in the channel or  *)
(* taken, stands for a chunk of its own.                                   *)
(*                                                                         *)
(* For every range of handshake numbers, the handshake gives the two Muxes *)
(* disjoint identifiers. The two sides run in lock step: the k-th number   *)
(* of one is compared with the k-th number of the other, because each      *)
(* direction is a FIFO and a side draws again only in answer to a number.  *)
(* Agreed lists the contents the two directions can have.                  *)
(***************************************************************************)
EXTENDS MuxHandshake, MuxChild, SequenceTheorems, TLAPS

Buffer ==
  /\ Contiguous
  /\ \A i \in 1 .. Len(readB) : readB[i].from >= 1 /\ readB[i].to <= pushed

Backed ==
  ~overlap =>
    /\ \A r, q \in Readers : pc[r] # "idle" /\ pc[q] # "idle" => r = q
    /\ reads => readB # <<>>
    /\ \A r \in Readers : pc[r] = "lock" =>
         readB # <<>> /\ (reads => Len(readB) >= 2)

IInv == TypeOK /\ Buffer /\ NoLostWakeup /\ Backed

-----------------------------------------------------------------------------
(* Facts about the read buffer.                                            *)

\* The ends of the chunks are numbers.
LEMMA ChunkFacts ==
  ASSUME readB \in Seq(Chunk)
  PROVE  \A i \in 1 .. Len(readB) : readB[i].from \in Nat /\ readB[i].to \in Nat
<1> SUFFICES ASSUME NEW i \in 1 .. Len(readB)
             PROVE  readB[i].from \in Nat /\ readB[i].to \in Nat
  OBVIOUS
<1>1. readB[i] \in Chunk
  OBVIOUS
<1>2. QED
  BY <1>1 DEF Chunk

\* The chunks that a Read of n bytes leaves: either the first chunk is gone
\* or it starts n bytes later; the others are as they were.
LEMMA RestFacts ==
  ASSUME readB \in Seq(Chunk), readB # <<>>, NEW n \in Nat
  PROVE  /\ Rest(n) \in Seq(Chunk)
         /\ \/ readB[1].from + n > readB[1].to /\ Rest(n) = Tail(readB)
            \/ /\ readB[1].from + n <= readB[1].to
               /\ Len(Rest(n)) = Len(readB)
               /\ Rest(n)[1] = Bytes(readB[1].from + n, readB[1].to)
               /\ \A i \in 2 .. Len(readB) : Rest(n)[i] = readB[i]
<1>1. Head(readB) = readB[1] /\ readB[1] \in Chunk /\ Tail(readB) \in Seq(Chunk)
  OBVIOUS
<1>2. readB[1].from \in Nat /\ readB[1].to \in Nat
  BY <1>1 DEF Chunk
<1>3. CASE readB[1].from + n > readB[1].to
  BY <1>1, <1>2, <1>3 DEF Rest
<1>4. CASE readB[1].from + n <= readB[1].to
  <2> DEFINE c == [readB[1] EXCEPT !.from = @ + n]
             s == [readB EXCEPT ![1] = c]
  <2>1. c = Bytes(readB[1].from + n, readB[1].to) /\ c \in Chunk
    BY <1>1, <1>2 DEF Chunk, Bytes
  <2>2. Rest(n) = s
    BY <1>1, <1>2, <1>4 DEF Rest
  <2> HIDE DEF c
  <2>3. s \in Seq(Chunk) /\ Len(s) = Len(readB) /\ s[1] = c
        /\ \A i \in 2 .. Len(readB) : s[i] = readB[i]
    BY <2>1
  <2>4. QED
    BY <1>4, <2>1, <2>2, <2>3
<1>5. QED
  BY <1>2, <1>3, <1>4

\* How many bytes of the first chunk fit into a buffer.
LEMMA FitsFacts ==
  ASSUME TypeOK, Buffer, readB # <<>>, NEW size \in ReadSizes
  PROVE  /\ Fits(size) \in Nat
         /\ Fits(size) <= size
         /\ readB[1].from + Fits(size) <= readB[1].to + 1
         /\ readB[1] \in Chunk /\ readB[1].from = got + 1
         /\ readB[1].to <= pushed
         /\ Head(readB) = readB[1] /\ Len(readB) \in Nat /\ Len(readB) >= 1
<1>1. readB \in Seq(Chunk) /\ size \in Nat
  BY ConstantsAssumption DEF TypeOK
<1>2. Head(readB) = readB[1] /\ readB[1] \in Chunk /\ 1 \in 1 .. Len(readB)
      /\ Len(readB) \in Nat /\ Len(readB) >= 1
  BY <1>1
<1>3. readB[1].from \in Nat /\ readB[1].to \in Nat
  BY <1>2 DEF Chunk
<1>4. readB[1].from <= readB[1].to + 1 /\ readB[1].from = got + 1
      /\ readB[1].to <= pushed
  BY <1>2 DEF Buffer, Contiguous
<1>5. QED
  BY <1>1, <1>2, <1>3, <1>4 DEF Fits, Least

\* The chunk that a payload adds.
LEMMA AppendFacts ==
  ASSUME TypeOK, NEW k \in ChunkSizes,
         NEW b, b = Append(readB, Bytes(pushed + 1, pushed + k))
  PROVE  /\ b \in Seq(Chunk) /\ Len(b) = Len(readB) + 1 /\ b # <<>>
         /\ pushed + k \in Nat
         /\ b[Len(b)] = Bytes(pushed + 1, pushed + k)
         /\ \A i \in 1 .. Len(readB) : b[i] = readB[i]
<1>1. k \in Nat /\ pushed \in Nat /\ readB \in Seq(Chunk)
  BY ConstantsAssumption DEF TypeOK
<1>2. Bytes(pushed + 1, pushed + k) \in Chunk
  BY <1>1 DEF Bytes, Chunk
<1>3. QED
  BY <1>1, <1>2

-----------------------------------------------------------------------------
(* Every step preserves the types, the buffer and the tokens.              *)

\* Every step keeps the types.
LEMMA TypeStep == IInv /\ [Next]_vars => TypeOK'
<1> SUFFICES ASSUME IInv, [Next]_vars PROVE TypeOK'
  OBVIOUS
<1> USE DEF IInv, TypeOK
<1>1. ASSUME NEW k \in ChunkSizes, AddToReadBuf(k) PROVE TypeOK'
  <2>1. readB' \in Seq(Chunk) /\ pushed' \in Nat
    BY <1>1, AppendFacts DEF AddToReadBuf
  <2>2. QED
    BY <1>1, <2>1 DEF AddToReadBuf, timerVars
<1>2. ASSUME NEW r \in Readers, ReadCall(r) PROVE TypeOK'
  BY <1>2 DEF ReadCall, readVars, timerVars
<1>3. ASSUME NEW r \in Readers, Fails(r), UNCHANGED <<stale, sets>>,
             timer' \in {timer, "running"}, timer' = timer \/ timer # "none"
      PROVE  TypeOK'
  <2>1. Nothing \in Chunk
    BY DEF Nothing, Bytes, Chunk
  <2>2. QED
    BY <1>3, <2>1 DEF Fails, readVars
<1>4. ASSUME NEW r \in Readers, ReadTake(r) PROVE TypeOK'
  BY <1>4 DEF ReadTake, timerVars
<1>5. ASSUME NEW r \in Readers, NEW size \in ReadSizes, ReadCopy(r, size)
      PROVE  TypeOK'
  <2>1. readB # <<>>
    BY <1>5 DEF ReadCopy, Copy
  <2>2. Fits(size) \in Nat /\ Rest(Fits(size)) \in Seq(Chunk)
    BY <2>1, FitsFacts, RestFacts
  <2>3. Bytes(Head(readB).from, Head(readB).from + Fits(size) - 1) \in Chunk
    BY <2>1, FitsFacts DEF Bytes, Chunk
  <2>4. QED
    BY <1>5, <2>2, <2>3 DEF ReadCopy, Copy, timerVars
<1>6. ASSUME NEW to \in {"none", "new"}, SetReadDeadline(to) PROVE TypeOK'
  BY <1>6, ConstantsAssumption DEF SetReadDeadline, Cancel, readVars
<1>7. ASSUME TimerStep PROVE TypeOK'
  BY <1>7, ConstantsAssumption
  DEF TimerStep, TimerParks, TimerDue, TimerEnds, StaleEnds, readVars
<1>8. CASE Close
  BY <1>8 DEF Close, readVars, timerVars
<1>9. CASE UNCHANGED vars
  BY <1>9 DEF vars
<1>10. ASSUME NEW r \in Readers, ReadClosed(r) \/ ReadEmpty(r) \/ StaleFires(r)
                                 \/ TimerFires(r)
       PROVE  TypeOK'
  BY <1>3, <1>10 DEF ReadClosed, ReadEmpty, StaleFires, TimerFires, timerVars
<1>11. QED
  BY <1>1, <1>2, <1>4, <1>5, <1>6, <1>7, <1>8, <1>9, <1>10 DEF Next, ReadStep

\* Every step keeps the buffer contiguous.
LEMMA BufferStep == IInv /\ [Next]_vars => Buffer'
<1> SUFFICES ASSUME IInv, [Next]_vars PROVE Buffer'
  OBVIOUS
<1>1. ASSUME UNCHANGED <<readB, pushed, got>> PROVE Buffer'
  BY <1>1 DEF IInv, Buffer, Contiguous
<1>2. ASSUME NEW k \in ChunkSizes, AddToReadBuf(k) PROVE Buffer'
  <2>1. k \in Nat /\ pushed \in Nat /\ got \in Nat /\ readB \in Seq(Chunk)
    BY ConstantsAssumption DEF IInv, TypeOK
  <2>2. /\ readB' \in Seq(Chunk) /\ Len(readB') = Len(readB) + 1 /\ readB' # <<>>
        /\ readB'[Len(readB')] = Bytes(pushed + 1, pushed + k)
        /\ \A i \in 1 .. Len(readB) : readB'[i] = readB[i]
    BY <1>2, AppendFacts DEF IInv, AddToReadBuf
  <2>3. pushed' = pushed + k /\ got' = got
    BY <1>2 DEF AddToReadBuf
  <2>4. Len(readB) \in Nat /\ (readB = <<>> <=> Len(readB) = 0)
    BY <2>1
  <2>5. \A i \in 1 .. Len(readB) : readB[i].from \in Nat /\ readB[i].to \in Nat
    BY <2>1, ChunkFacts
  <2>6. readB'[1].from = got' + 1
    BY <2>1, <2>2, <2>3, <2>4 DEF IInv, Buffer, Contiguous, Bytes
  <2>7. readB'[Len(readB')].to = pushed'
    BY <2>2, <2>3 DEF Bytes
  <2>8. \A i \in 1 .. Len(readB') :
          /\ readB'[i].from <= readB'[i].to + 1
          /\ readB'[i].from >= 1 /\ readB'[i].to <= pushed'
    BY <2>1, <2>2, <2>3, <2>4, <2>5 DEF IInv, Buffer, Contiguous, Bytes
  <2>9. \A i \in 1 .. Len(readB') - 1 : readB'[i + 1].from = readB'[i].to + 1
    <3> SUFFICES ASSUME NEW i \in 1 .. Len(readB') - 1
                 PROVE  readB'[i + 1].from = readB'[i].to + 1
      OBVIOUS
    <3>1. i \in 1 .. Len(readB) /\ readB'[i] = readB[i]
      BY <2>2, <2>4
    <3>2. CASE i = Len(readB)
      BY <2>1, <2>2, <2>4, <3>1, <3>2 DEF IInv, Buffer, Contiguous, Bytes
    <3>3. CASE i < Len(readB)
      <4>1. i + 1 \in 1 .. Len(readB) /\ i \in 1 .. Len(readB) - 1
        BY <2>4, <3>1, <3>3
      <4>2. QED
        BY <2>2, <3>1, <4>1 DEF IInv, Buffer, Contiguous
    <3>4. QED
      BY <2>4, <3>1, <3>2, <3>3
  <2>10. QED
    BY <2>2, <2>6, <2>7, <2>8, <2>9 DEF Buffer, Contiguous
<1>3. ASSUME NEW r \in Readers, NEW size \in ReadSizes, ReadCopy(r, size)
      PROVE  Buffer'
  <2> DEFINE n == Fits(size)
  <2>1. readB # <<>> /\ readB' = Rest(n) /\ got' = got + n /\ pushed' = pushed
    BY <1>3 DEF ReadCopy, Copy
  <2>2. n \in Nat /\ readB[1].from + n <= readB[1].to + 1 /\ readB[1].from = got + 1
        /\ readB[1].to <= pushed /\ Len(readB) \in Nat /\ Len(readB) >= 1
    BY <2>1, FitsFacts DEF IInv
  <2> HIDE DEF n
  <2>3. pushed \in Nat /\ got \in Nat /\ readB \in Seq(Chunk)
    BY DEF IInv, TypeOK
  <2>4. \A i \in 1 .. Len(readB) : readB[i].from \in Nat /\ readB[i].to \in Nat
    BY <2>3, ChunkFacts
  <2>5. Contiguous /\ \A i \in 1 .. Len(readB) : readB[i].from >= 1 /\ readB[i].to <= pushed
    BY DEF IInv, Buffer
  <2>6. CASE readB[1].from + n > readB[1].to /\ Rest(n) = Tail(readB)
    <3>1. got' = readB[1].to
      <4> DEFINE f == readB[1].from
                 t == readB[1].to
      <4>1. f \in Nat /\ t \in Nat
        BY <2>2, <2>4
      <4>2. f + n <= t + 1 /\ f = got + 1 /\ f + n > t /\ got' = got + n
        BY <2>1, <2>2, <2>6
      <4> HIDE DEF f, t
      <4>3. got' = t
        BY <2>2, <2>3, <4>1, <4>2
      <4>4. QED
        BY <4>3 DEF t
    <3>2. readB' \in Seq(Chunk) /\ Len(readB') = Len(readB) - 1
          /\ \A i \in 1 .. Len(readB) - 1 : readB'[i] = readB[i + 1]
      BY <2>1, <2>3, <2>6
    <3>3. readB' = <<>> <=> Len(readB') = 0
      BY <3>2
    <3>4. readB' = <<>> => pushed' = got'
      <4>1. readB[Len(readB)].to = pushed
        BY <2>1, <2>5 DEF Contiguous
      <4>2. readB' = <<>> => Len(readB) = 1
        BY <2>2, <3>2, <3>3
      <4>3. Len(readB) = 1 => readB[1].to = pushed
        BY <4>1
      <4>4. QED
        BY <2>1, <3>1, <4>2, <4>3
    <3>5. readB' # <<>> => readB'[1].from = got' + 1 /\ readB'[Len(readB')].to = pushed'
      <4> SUFFICES ASSUME readB' # <<>>
                   PROVE  readB'[1].from = got' + 1 /\ readB'[Len(readB')].to = pushed'
        OBVIOUS
      <4>1. Len(readB) >= 2
        BY <2>2, <3>2, <3>3
      <4>2. readB'[1] = readB[1 + 1] /\ readB'[Len(readB')] = readB[Len(readB)]
        BY <2>2, <3>2, <4>1
      <4>3. readB[1 + 1].from = readB[1].to + 1
        BY <2>2, <2>5, <4>1 DEF Contiguous
      <4>4. readB[Len(readB)].to = pushed
        BY <2>1, <2>5 DEF Contiguous
      <4>5. QED
        BY <2>1, <3>1, <4>2, <4>3, <4>4
    <3>6. \A i \in 1 .. Len(readB') :
            /\ readB'[i].from <= readB'[i].to + 1
            /\ readB'[i].from >= 1 /\ readB'[i].to <= pushed'
      BY <2>1, <2>2, <2>5, <3>2 DEF Contiguous
    <3>7. \A i \in 1 .. Len(readB') - 1 : readB'[i + 1].from = readB'[i].to + 1
      <4> SUFFICES ASSUME NEW i \in 1 .. Len(readB') - 1
                   PROVE  readB'[i + 1].from = readB'[i].to + 1
        OBVIOUS
      <4>1. i + 1 \in 1 .. Len(readB) - 1 /\ i \in 1 .. Len(readB) - 1
        BY <2>2, <3>2
      <4>2. readB'[i + 1] = readB[(i + 1) + 1] /\ readB'[i] = readB[i + 1]
        BY <3>2, <4>1
      <4>3. QED
        BY <2>5, <4>1, <4>2 DEF Contiguous
    <3>8. QED
      BY <3>4, <3>5, <3>6, <3>7 DEF Buffer, Contiguous
  <2>7. CASE /\ readB[1].from + n <= readB[1].to
             /\ Len(Rest(n)) = Len(readB)
             /\ Rest(n)[1] = Bytes(readB[1].from + n, readB[1].to)
             /\ \A i \in 2 .. Len(readB) : Rest(n)[i] = readB[i]
    <3>1. readB' # <<>> /\ Len(readB') = Len(readB)
          /\ readB'[1].from = got' + 1 /\ readB'[1].to = readB[1].to
      BY <2>1, <2>2, <2>3, <2>4, <2>7 DEF Bytes
    <3>2. \A i \in 1 .. Len(readB) : readB'[i].to = readB[i].to
      BY <2>1, <2>7, <3>1
    <3>3. \A i \in 1 .. Len(readB) - 1 : readB'[i + 1].from = readB[i + 1].from
      BY <2>1, <2>2, <2>7
    <3>4. readB'[Len(readB')].to = pushed'
      BY <2>1, <2>2, <2>5, <3>1, <3>2 DEF Contiguous
    <3>5. \A i \in 1 .. Len(readB') :
            /\ readB'[i].from <= readB'[i].to + 1
            /\ readB'[i].from >= 1 /\ readB'[i].to <= pushed'
      BY <2>1, <2>2, <2>3, <2>4, <2>5, <2>7, <3>1, <3>2 DEF Contiguous
    <3>6. \A i \in 1 .. Len(readB') - 1 : readB'[i + 1].from = readB'[i].to + 1
      BY <2>2, <2>5, <3>1, <3>2, <3>3 DEF Contiguous
    <3>7. QED
      BY <3>1, <3>4, <3>5, <3>6 DEF Buffer, Contiguous
  <2>8. QED
    BY <2>1, <2>2, <2>3, <2>6, <2>7, RestFacts
<1>4. QED
  BY <1>1, <1>2, <1>3
  DEF Next, vars, readVars, timerVars, ReadCall, ReadStep, ReadClosed, ReadTake,
      ReadEmpty, Fails, TimerFires, StaleFires, SetReadDeadline, TimerStep,
      TimerParks, TimerDue, TimerEnds, StaleEnds, Close

\* Every step keeps a token for the data in the buffer, and data for the token.
LEMMA TokenStep == IInv /\ [Next]_vars => NoLostWakeup' /\ Backed'
<1> SUFFICES ASSUME IInv, [Next]_vars PROVE NoLostWakeup' /\ Backed'
  OBVIOUS
<1> USE DEF IInv
<1>1. ASSUME UNCHANGED <<readB, reads, pc, overlap>> PROVE NoLostWakeup' /\ Backed'
  BY <1>1 DEF NoLostWakeup, Backed
<1>2. ASSUME NEW k \in ChunkSizes, AddToReadBuf(k) PROVE NoLostWakeup' /\ Backed'
  <2>1. readB' # <<>> /\ Len(readB') = Len(readB) + 1 /\ Len(readB) \in Nat
        /\ (readB # <<>> => Len(readB) >= 1)
    BY <1>2, AppendFacts DEF AddToReadBuf, TypeOK
  <2>2. QED
    BY <1>2, <2>1 DEF AddToReadBuf, NoLostWakeup, Backed
<1>3. ASSUME NEW r \in Readers, ReadCall(r) PROVE NoLostWakeup' /\ Backed'
  BY <1>3 DEF ReadCall, readVars, NoLostWakeup, Backed, TypeOK
<1>4. ASSUME NEW r \in Readers, pc[r] = "select" \/ readB = <<>>, Fails(r)
      PROVE  NoLostWakeup' /\ Backed'
  BY <1>4 DEF Fails, readVars, NoLostWakeup, Backed, TypeOK
<1>5. ASSUME NEW r \in Readers, ReadTake(r) PROVE NoLostWakeup' /\ Backed'
  BY <1>5 DEF ReadTake, NoLostWakeup, Backed, TypeOK
<1>6. ASSUME NEW r \in Readers, NEW size \in ReadSizes, ReadCopy(r, size)
      PROVE  NoLostWakeup' /\ Backed'
  <2> DEFINE n == Fits(size)
  <2>1. readB # <<>> /\ readB' = Rest(n) /\ pc[r] = "lock" /\ overlap' = overlap
        /\ pc' = [pc EXCEPT ![r] = "idle"] /\ reads' = (reads \/ Rest(n) # <<>>)
    BY <1>6 DEF ReadCopy, Copy
  <2>2. n \in Nat
    BY <2>1, FitsFacts
  <2> HIDE DEF n
  <2>3. readB \in Seq(Chunk)
    BY DEF TypeOK
  <2>4. Len(readB) >= 2 => Rest(n) # <<>>
    BY <2>1, <2>2, <2>3, RestFacts
  <2>5. NoLostWakeup'
    BY <2>1 DEF NoLostWakeup
  <2>6. Backed'
    BY <2>1, <2>4 DEF Backed, TypeOK
  <2>7. QED
    BY <2>5, <2>6
<1>7. ASSUME NEW r \in Readers, ReadClosed(r) \/ ReadEmpty(r) \/ StaleFires(r)
                                \/ TimerFires(r)
      PROVE  NoLostWakeup' /\ Backed'
  BY <1>4, <1>7 DEF ReadClosed, ReadEmpty, StaleFires, TimerFires
<1>8. QED
  BY <1>1, <1>2, <1>3, <1>5, <1>6, <1>7
  DEF Next, vars, readVars, timerVars, ReadStep, SetReadDeadline, TimerStep,
      TimerParks, TimerDue, TimerEnds, StaleEnds, Close

-----------------------------------------------------------------------------
(* The theorems.                                                           *)

\* IInv holds in every reachable state.
LEMMA Invariance == Spec => []IInv
<1>1. Init => IInv
  <2> SUFFICES ASSUME Init PROVE IInv
    OBVIOUS
  <2>1. Nothing \in Chunk
    BY DEF Nothing, Bytes, Chunk
  <2>2. TypeOK
    <3>1. sets \in 0 .. MaxSets /\ stale \in 0 .. (IF timer = "none" THEN sets ELSE sets - 1)
      BY ConstantsAssumption DEF Init
    <3>2. readB \in Seq(Chunk)
      <4>1. readB = <<>>
        BY DEF Init
      <4>2. QED
        BY <4>1
    <3>3. pc \in [Readers -> {"idle", "select", "lock"}] /\ res \in [Readers -> Chunk]
      BY <2>1 DEF Init
    <3>4. pushed \in Nat /\ got \in Nat
          /\ timer \in {"none", "new", "armed", "firing", "running"}
      BY DEF Init
    <3>5. reads \in BOOLEAN /\ closed \in BOOLEAN /\ overlap \in BOOLEAN
      BY DEF Init
    <3>6. QED
      BY <3>1, <3>2, <3>3, <3>4, <3>5 DEF TypeOK
  <2>3. Buffer /\ NoLostWakeup /\ Backed
    BY DEF Init, Buffer, Contiguous, NoLostWakeup, Backed
  <2>4. QED
    BY <2>2, <2>3 DEF IInv
<1>2. IInv /\ [Next]_vars => IInv'
  BY TypeStep, BufferStep, TokenStep DEF IInv
<1>3. QED
  BY <1>1, <1>2, PTL DEF Spec

\* The read half of a child keeps its types, and each SetReadDeadline leaves
\* at most one goroutine.
THEOREM ChildTypes == Spec => []TypeOK
<1>1. IInv => TypeOK
  BY DEF IInv
<1>2. QED
  BY <1>1, Invariance, PTL

\* Data in the buffer always has a token or a Read that will put it back.
THEOREM NoWakeupLost == Spec => []NoLostWakeup
<1>1. IInv => NoLostWakeup
  BY DEF IInv
<1>2. QED
  BY <1>1, Invariance, PTL

\* Reads that do not overlap never find the buffer empty after the token.
THEOREM SoleReadSucceeds == Spec => []SoleReaderFindsData
<1>1. IInv => SoleReaderFindsData
  BY DEF IInv, Backed, SoleReaderFindsData
<1>2. QED
  BY <1>1, Invariance, PTL

\* The buffer holds the bytes received and not read, once and in order.
THEOREM BufferInOrder == Spec => []Contiguous
<1>1. IInv => Contiguous
  BY DEF IInv, Buffer
<1>2. QED
  BY <1>1, Invariance, PTL

\* A step of the read buffer is a step of the stream or a stutter.
LEMMA StreamStep == IInv /\ [Next]_vars => [Stream!Next]_(Stream!vars)
<1> SUFFICES ASSUME IInv, [Next]_vars PROVE [Stream!Next]_(Stream!vars)
  OBVIOUS
<1>1. ASSUME UNCHANGED <<pushed, got, res>> PROVE [Stream!Next]_(Stream!vars)
  BY <1>1 DEF Stream!vars
<1>2. ASSUME NEW k \in ChunkSizes, AddToReadBuf(k) PROVE Stream!Put
  <2>1. k \in Nat /\ pushed \in Nat
    BY ConstantsAssumption DEF IInv, TypeOK
  <2>2. QED
    BY <1>2, <2>1 DEF AddToReadBuf, Stream!Put
<1>3. ASSUME NEW r \in Readers, Fails(r) PROVE Stream!GetNothing(r)
  BY <1>3 DEF Fails, readVars, Stream!GetNothing, Stream!Nothing, Stream!Bytes,
              Nothing, Bytes
<1>4. ASSUME NEW r \in Readers, NEW size \in ReadSizes, ReadCopy(r, size)
      PROVE  Stream!Get(r)
  <2> DEFINE n == Fits(size)
  <2>1. /\ readB # <<>> /\ got' = got + n /\ pushed' = pushed
        /\ res' = [res EXCEPT ![r] = Bytes(Head(readB).from, Head(readB).from + n - 1)]
    BY <1>4 DEF ReadCopy, Copy
  <2>2. /\ n \in Nat /\ n <= size
        /\ readB[1].from + n <= readB[1].to + 1
        /\ readB[1] \in Chunk /\ readB[1].from = got + 1
        /\ readB[1].to <= pushed /\ Head(readB) = readB[1]
    BY <2>1, FitsFacts DEF IInv
  <2> HIDE DEF n
  <2>3. got \in Nat /\ pushed \in Nat /\ readB[1].to \in Nat
    BY <2>2 DEF IInv, TypeOK, Chunk
  <2>4. n \in 0 .. pushed - got
    BY <2>2, <2>3
  <2>5. Bytes(Head(readB).from, Head(readB).from + n - 1) = Stream!Bytes(got + 1, got + n)
    BY <2>2, <2>3 DEF Bytes, Stream!Bytes
  <2>6. QED
    BY <2>1, <2>2, <2>4, <2>5 DEF Stream!Get
<1>5. ASSUME NEW r \in Readers, ReadClosed(r) \/ ReadEmpty(r) \/ StaleFires(r)
                                \/ TimerFires(r)
      PROVE  Fails(r)
  BY <1>5 DEF ReadClosed, ReadEmpty, StaleFires, TimerFires
<1>6. QED
  <2>1. Stream!Next => [Stream!Next]_(Stream!vars)
    OBVIOUS
  <2>2. \A r \in Readers : Fails(r) => Stream!Next
    BY <1>3 DEF Stream!Next
  <2>3. \A k \in ChunkSizes : AddToReadBuf(k) => Stream!Next
    BY <1>2 DEF Stream!Next
  <2>4. \A r \in Readers : \A size \in ReadSizes : ReadCopy(r, size) => Stream!Next
    BY <1>4 DEF Stream!Next
  <2>5. QED
    BY <1>1, <1>5, <2>1, <2>2, <2>3, <2>4
    DEF Next, vars, readVars, timerVars, ReadCall, ReadStep, ReadTake,
        SetReadDeadline, TimerStep, TimerParks, TimerDue, TimerEnds, StaleEnds, Close

\* Reads return the peer's bytes in order, none twice and none skipped, for
\* any readers and sizes: the read buffer implements ByteStream.
THEOREM StreamImplemented == Spec => ImplementsStream
<1>1. Init => Stream!Init
  BY DEF Init, Stream!Init, Nothing, Bytes, Stream!Nothing, Stream!Bytes
<1>2. QED
  BY <1>1, StreamStep, Invariance, PTL DEF Spec, ImplementsStream, Stream!Spec

-----------------------------------------------------------------------------


\* The parity a side takes when the two numbers differ.
Parity(s) == IF num[s] < num[Peer(s)] THEN 1 ELSE 0

\* Each side that has started has exactly its current number under way.
Level ==
  /\ \A s \in Side : wire[s] = IF loop[s] = "send" THEN <<>> ELSE <<Handshake(num[s])>>
  /\ \A s \in Side : ~hsDone[s] /\ nextID[s] = 0

\* s has seen a tie and drawn again, its peer has still to see the tie.
Ahead(s) ==
  /\ wire[s] = <<Handshake(num[Peer(s)]), Handshake(num[s])>>
  /\ wire[Peer(s)] = <<>>
  /\ \A r \in Side : ~hsDone[r] /\ nextID[r] = 0 /\ loop[r] # "send"

\* s has decided and acknowledged, its peer has still to see s's number.
Decided(s) ==
  /\ num[s] # num[Peer(s)]
  /\ nextID[s] = Parity(s)
  /\ nextID[Peer(s)] = 0
  /\ wire[s] = <<Handshake(num[s]), Ack>>
  /\ wire[Peer(s)] = <<>>
  /\ \A r \in Side : ~hsDone[r] /\ loop[r] # "send"

\* Both have decided; an acknowledgement is under way or handled.
Acked ==
  /\ \A s \in Side :
       /\ num[s] # num[Peer(s)]
       /\ nextID[s] = Parity(s)
       /\ wire[s] = IF hsDone[Peer(s)] THEN <<>> ELSE <<Ack>>
       /\ loop[s] # "send"

\* A write failed: both ends are closed and no handshake will complete.
Dead == \A s \in Side : loop[s] = "closed" /\ ~hsDone[s]

Agreed ==
  /\ HandshakeTypeOK
  /\ \/ Level
     \/ \E s \in Side : Ahead(s) \/ Decided(s)
     \/ Acked
     \/ Dead

-----------------------------------------------------------------------------
(* Facts about messages, sides and short sequences.                        *)

\* Handshakes and acknowledgements are messages and differ.
LEMMA MessageFacts ==
  /\ \A n \in Num : Handshake(n) \in Message /\ Handshake(n).t = "handshake"
                    /\ Handshake(n).n = n
  /\ Ack \in Message /\ Ack.t = "ack"
<1>1. 0 \in Num
  BY MaxNumAssumption DEF Num
<1>2. QED
  BY <1>1 DEF Handshake, Ack, Message

\* Peer exchanges the two sides.
LEMMA SideFacts ==
  /\ \A s \in Side : Peer(s) \in Side /\ Peer(s) # s /\ Peer(Peer(s)) = s
  /\ \A s \in Side : \A r \in Side : r = s \/ r = Peer(s)
BY DEF Side, Peer

\* Heads, tails and concatenations of sequences of one or two messages.
LEMMA SeqFacts ==
  ASSUME NEW x \in Message, NEW y \in Message
  PROVE  /\ Head(<<x>>) = x /\ Tail(<<x>>) = <<>> /\ <<x>> # <<>>
         /\ Head(<<x, y>>) = x /\ Tail(<<x, y>>) = <<y>> /\ <<x, y>> # <<>>
         /\ <<x>> \o <<y>> = <<x, y>> /\ <<>> \o <<y>> = <<y>>
         /\ <<x>> \in Seq(Message) /\ <<x, y>> \in Seq(Message)
<1>1. <<x>> \o <<y>> = <<x, y>>
  <2> DEFINE z == <<x>> \o <<y>>
  <2>1. z \in Seq(Message) /\ Len(z) = 2 /\ z[1] = x /\ z[2] = y
    OBVIOUS
  <2>2. <<x, y>> \in Seq(Message) /\ Len(<<x, y>>) = 2
    OBVIOUS
  <2> HIDE DEF z
  <2>3. \A i \in 1 .. Len(z) : z[i] = <<x, y>>[i]
    BY <2>1
  <2>4. z = <<x, y>>
    BY <2>1, <2>2, <2>3, SeqEqual
  <2>5. QED
    BY <2>4 DEF z
<1>2. Head(<<x>>) = x /\ Tail(<<x>>) = <<>> /\ <<x>> # <<>>
  OBVIOUS
<1>3. Head(<<x, y>>) = x /\ Tail(<<x, y>>) = <<y>> /\ <<x, y>> # <<>>
  OBVIOUS
<1>4. <<x>> \in Seq(Message) /\ <<x, y>> \in Seq(Message)
  OBVIOUS
<1>5. <<>> \o <<y>> = <<y>>
  OBVIOUS
<1>6. QED
  BY <1>1, <1>2, <1>3, <1>4, <1>5

\* Initially nothing has been written.
LEMMA InitInv == HandshakeInit => Agreed
<1> SUFFICES ASSUME HandshakeInit PROVE Agreed
  OBVIOUS
<1>1. HandshakeTypeOK
  BY MaxNumAssumption DEF HandshakeInit, HandshakeTypeOK, Num
<1>2. Level
  BY DEF HandshakeInit, Level
<1>3. QED
  BY <1>1, <1>2 DEF Agreed

\* In every state of Agreed the three safety properties hold.
LEMMA AgreedImpliesSafety ==
  Agreed => DistinctParity /\ ParityDecided /\ NoLateHandshake
<1> SUFFICES ASSUME Agreed
             PROVE  DistinctParity /\ ParityDecided /\ NoLateHandshake
  OBVIOUS
<1>1. CASE Acked
  <2>1. ParityDecided
    BY <1>1 DEF Acked, ParityDecided, Parity
  <2>2. NoLateHandshake
    <3> SUFFICES ASSUME NEW s \in Side, hsDone[s],
                        NEW i \in 1 .. Len(wire[Peer(s)])
                 PROVE  wire[Peer(s)][i].t # "handshake"
      BY DEF NoLateHandshake
    <3>1. wire[Peer(s)] = <<>>
      BY <1>1, SideFacts DEF Acked
    <3>2. QED
      BY <3>1
  <2>3. DistinctParity
    <3>1. num["client"] \in Nat /\ num["server"] \in Nat
      BY MaxNumAssumption DEF Agreed, HandshakeTypeOK, Num, Side
    <3>2. QED
      BY <1>1, <3>1 DEF Acked, DistinctParity, Parity, Side, Peer
  <2>4. QED
    BY <2>1, <2>2, <2>3
<1>2. CASE ~Acked
  <2>1. \A s \in Side : ~hsDone[s]
    BY <1>2, SideFacts DEF Agreed, Level, Ahead, Decided, Dead
  <2>2. QED
    BY <2>1 DEF DistinctParity, ParityDecided, NoLateHandshake, Side
<1>3. QED
  BY <1>1, <1>2

-----------------------------------------------------------------------------
(* Each step preserves Agreed.                                               *)

\* The first number of a side keeps the invariant.
LEMMA SendHandshakeInv ==
  ASSUME Agreed, NEW s \in Side, SendHandshake(s)
  PROVE  Agreed'
<1> DEFINE p == Peer(s)
<1>1. PICK n \in Num : num' = [num EXCEPT ![s] = n] /\ Write(s, <<Handshake(n)>>)
  BY DEF SendHandshake
<1>2. Level /\ loop[s] = "send" /\ wire[s] = <<>>
  BY SideFacts DEF Agreed, SendHandshake, Level, Ahead, Decided, Acked, Dead
<1>3. UNCHANGED <<nextID, hsDone, start>>
  BY DEF SendHandshake
<1>4. Handshake(n) \in Message
  BY MessageFacts
<1>5. <<>> \o <<Handshake(n)>> = <<Handshake(n)>> /\ <<Handshake(n)>> \in Seq(Message)
  BY <1>4, SeqFacts
<1>6. CASE /\ wire' = [wire EXCEPT ![s] = @ \o <<Handshake(n)>>]
           /\ loop' = [loop EXCEPT ![s] = "run"]
  <2>1. wire'[s] = <<Handshake(n)>> /\ num'[s] = n /\ loop'[s] = "run"
    BY <1>1, <1>2, <1>5, <1>6 DEF Agreed, HandshakeTypeOK
  <2>2. wire'[p] = wire[p] /\ num'[p] = num[p] /\ loop'[p] = loop[p]
    BY <1>1, <1>6, SideFacts DEF Agreed, HandshakeTypeOK
  <2>3. HandshakeTypeOK'
    BY <1>1, <1>2, <1>3, <1>5, <1>6 DEF Agreed, HandshakeTypeOK
  <2>4. Level'
    BY <1>2, <1>3, <2>1, <2>2, SideFacts DEF Level
  <2>5. QED
    BY <2>3, <2>4 DEF Agreed
<1>7. CASE /\ loop[p] = "closed"
           /\ loop' = [loop EXCEPT ![s] = "closed"]
           /\ UNCHANGED wire
  <2>1. HandshakeTypeOK'
    BY <1>1, <1>3, <1>7 DEF Agreed, HandshakeTypeOK
  <2>2. Dead'
    BY <1>2, <1>3, <1>7, SideFacts DEF Agreed, HandshakeTypeOK, Level, Dead
  <2>3. QED
    BY <2>1, <2>2 DEF Agreed
<1>8. QED
  BY <1>1, <1>6, <1>7 DEF Write

\* Handling a tie, and drawing again, keeps the invariant.
LEMMA HandshakeTieInv ==
  ASSUME Agreed, NEW s \in Side, HandshakeTie(s)
  PROVE  Agreed'
<1> DEFINE p == Peer(s)
<1>1. PICK n \in Num : num' = [num EXCEPT ![s] = n] /\ Answer(s, <<Handshake(n)>>)
  BY DEF HandshakeTie
<1>2. /\ loop[s] = "run" /\ ~hsDone[s] /\ wire[p] # <<>>
      /\ Head(wire[p]).t = "handshake" /\ Head(wire[p]).n = num[s]
      /\ UNCHANGED <<nextID, hsDone, start>>
  BY DEF HandshakeTie, Receives
<1>3. p \in Side /\ p # s /\ Peer(p) = s /\ \A r \in Side : r = s \/ r = p
  BY SideFacts
<1>4. HandshakeTypeOK
  BY DEF Agreed
<1>5. /\ Handshake(n) \in Message
      /\ \A m \in Num : Handshake(m) \in Message /\ Handshake(m).n = m
      /\ Ack \in Message /\ Ack.t # "handshake"
  BY MessageFacts
<1>6. num[s] \in Num /\ num[p] \in Num
  BY <1>3, <1>4 DEF HandshakeTypeOK
<1>7. \/ Level /\ wire[s] = <<Handshake(num[s])>> /\ wire[p] = <<Handshake(num[p])>>
      \/ Ahead(p) /\ wire[s] = <<>> /\ wire[p] = <<Handshake(num[s]), Handshake(num[p])>>
  <2>1. ~Decided(s) /\ ~Ahead(s)
    BY <1>2 DEF Decided, Ahead
  <2>2. ~Decided(p)
    <3>1. SUFFICES ASSUME Decided(p) PROVE FALSE
      OBVIOUS
    <3>2. Head(wire[p]) = Handshake(num[p])
      BY <1>5, <1>6, <3>1, SeqFacts DEF Decided
    <3>3. QED
      BY <1>2, <1>3, <1>5, <1>6, <3>1, <3>2 DEF Decided
  <2>3. ~Acked
    <3>1. SUFFICES ASSUME Acked PROVE FALSE
      OBVIOUS
    <3>2. wire[p] = <<Ack>>
      BY <1>2, <1>3, <3>1 DEF Acked
    <3>3. QED
      BY <1>2, <1>5, <3>2, SeqFacts
  <2>4. ~Dead
    BY <1>2 DEF Dead
  <2>5. Level \/ Ahead(p)
    BY <1>3, <2>1, <2>2, <2>3, <2>4 DEF Agreed
  <2>6. QED
    BY <1>2, <1>3, <2>5 DEF Level, Ahead
<1>8. CASE /\ wire' = [wire EXCEPT ![p] = Tail(@), ![s] = @ \o <<Handshake(n)>>]
           /\ UNCHANGED loop
  <2>1. /\ num'[s] = n /\ num'[p] = num[p]
        /\ wire'[p] = Tail(wire[p]) /\ wire'[s] = wire[s] \o <<Handshake(n)>>
    BY <1>1, <1>3, <1>4, <1>8 DEF HandshakeTypeOK
  <2>2. HandshakeTypeOK'
    <3>1. Tail(wire[p]) \in Seq(Message) /\ wire[s] \o <<Handshake(n)>> \in Seq(Message)
      BY <1>2, <1>3, <1>4, <1>5 DEF HandshakeTypeOK
    <3>2. QED
      BY <1>1, <1>2, <1>4, <1>8, <3>1 DEF HandshakeTypeOK
  <2>3. CASE Level /\ wire[s] = <<Handshake(num[s])>> /\ wire[p] = <<Handshake(num[p])>>
    <3>1. Handshake(num[p]).n = num[s]
      BY <1>2, <1>5, <1>6, <2>3, SeqFacts
    <3>2. num[p] = num[s]
      BY <1>5, <1>6, <3>1
    <3>3. wire'[p] = <<>> /\ wire'[s] = <<Handshake(num[p]), Handshake(n)>>
      BY <1>5, <1>6, <2>1, <2>3, <3>2, SeqFacts
    <3>4. loop[p] # "send"
      <4>1. <<Handshake(num[p])>> # <<>>
        BY <1>5, <1>6, SeqFacts
      <4>2. QED
        BY <1>3, <2>3, <4>1 DEF Level
    <3>5. Ahead(s)'
      BY <1>2, <1>3, <1>8, <2>1, <2>3, <3>3, <3>4 DEF Level, Ahead
    <3>6. QED
      BY <2>2, <3>5 DEF Agreed
  <2>4. CASE Ahead(p) /\ wire[s] = <<>> /\ wire[p] = <<Handshake(num[s]), Handshake(num[p])>>
    <3>1. wire'[p] = <<Handshake(num[p])>> /\ wire'[s] = <<Handshake(n)>>
      BY <1>5, <1>6, <2>1, <2>4, SeqFacts
    <3>2. Level'
      BY <1>2, <1>3, <1>8, <2>1, <2>4, <3>1 DEF Level, Ahead
    <3>3. QED
      BY <2>2, <3>2 DEF Agreed
  <2>5. QED
    BY <1>7, <2>3, <2>4
<1>9. CASE /\ loop[p] = "closed"
           /\ loop' = [loop EXCEPT ![s] = "closed"]
           /\ wire' = [wire EXCEPT ![p] = Tail(@)]
  <2>1. Tail(wire[p]) \in Seq(Message)
    BY <1>2, <1>3, <1>4 DEF HandshakeTypeOK
  <2>2. HandshakeTypeOK'
    BY <1>1, <1>2, <1>4, <1>9, <2>1 DEF HandshakeTypeOK
  <2>3. ~hsDone[p] /\ ~hsDone[s]
    BY <1>3, <1>7 DEF Level, Ahead
  <2>4. Dead'
    BY <1>2, <1>3, <1>4, <1>9, <2>3 DEF HandshakeTypeOK, Dead
  <2>5. QED
    BY <2>2, <2>4 DEF Agreed
<1>10. QED
  BY <1>1, <1>8, <1>9 DEF Answer

\* Handling a number that differs, and acknowledging it, keeps the invariant.
LEMMA HandshakeDecidedInv ==
  ASSUME Agreed, NEW s \in Side, HandshakeDecided(s)
  PROVE  Agreed'
<1> DEFINE p == Peer(s)
<1>1. /\ loop[s] = "run" /\ ~hsDone[s] /\ wire[p] # <<>>
      /\ Head(wire[p]).t = "handshake" /\ Head(wire[p]).n # num[s]
      /\ nextID' = IF num[s] < Head(wire[p]).n THEN [nextID EXCEPT ![s] = 1] ELSE nextID
      /\ Answer(s, <<Ack>>)
      /\ UNCHANGED <<num, hsDone, start>>
  BY DEF HandshakeDecided, Receives
<1>2. p \in Side /\ p # s /\ Peer(p) = s /\ \A r \in Side : r = s \/ r = p
  BY SideFacts
<1>3. HandshakeTypeOK
  BY DEF Agreed
<1>4. /\ \A m \in Num : Handshake(m) \in Message /\ Handshake(m).n = m
      /\ Ack \in Message /\ Ack.t # "handshake"
  BY MessageFacts
<1>5. num[s] \in Num /\ num[p] \in Num
  BY <1>2, <1>3 DEF HandshakeTypeOK
<1>6. \/ Level /\ wire[s] = <<Handshake(num[s])>> /\ wire[p] = <<Handshake(num[p])>>
      \/ Decided(p) /\ wire[s] = <<>> /\ wire[p] = <<Handshake(num[p]), Ack>>
  <2>1. ~Decided(s) /\ ~Ahead(s)
    BY <1>1 DEF Decided, Ahead
  <2>2. ~Ahead(p)
    <3>1. SUFFICES ASSUME Ahead(p) PROVE FALSE
      OBVIOUS
    <3>2. Head(wire[p]) = Handshake(num[s])
      BY <1>2, <1>4, <1>5, <3>1, SeqFacts DEF Ahead
    <3>3. QED
      BY <1>1, <1>4, <1>5, <3>2
  <2>3. ~Acked
    <3>1. SUFFICES ASSUME Acked PROVE FALSE
      OBVIOUS
    <3>2. wire[p] = <<Ack>>
      BY <1>1, <1>2, <3>1 DEF Acked
    <3>3. QED
      BY <1>1, <1>4, <3>2, SeqFacts
  <2>4. ~Dead
    BY <1>1 DEF Dead
  <2>5. Level \/ Decided(p)
    BY <1>2, <2>1, <2>2, <2>3, <2>4 DEF Agreed
  <2>6. QED
    BY <1>1, <1>2, <2>5 DEF Level, Decided
<1>7. Head(wire[p]) = Handshake(num[p]) /\ Head(wire[p]).n = num[p] /\ num[p] # num[s]
  BY <1>1, <1>4, <1>5, <1>6, SeqFacts
<1>8. nextID[s] = 0 /\ ~hsDone[p] /\ loop[p] # "send"
  <2>1. <<Handshake(num[p])>> # <<>>
    BY <1>4, <1>5, SeqFacts
  <2>2. CASE Level /\ wire[p] = <<Handshake(num[p])>>
    BY <1>2, <2>1, <2>2 DEF Level
  <2>3. CASE Decided(p)
    BY <1>2, <2>3 DEF Decided
  <2>4. QED
    BY <1>6, <2>2, <2>3
<1>9. nextID'[s] = Parity(s)' /\ nextID'[p] = nextID[p] /\ nextID' \in [Side -> {0, 1}]
  BY <1>1, <1>2, <1>3, <1>7, <1>8 DEF HandshakeTypeOK, Parity
<1>10. CASE /\ wire' = [wire EXCEPT ![p] = Tail(@), ![s] = @ \o <<Ack>>]
            /\ UNCHANGED loop
  <2>1. wire'[p] = Tail(wire[p]) /\ wire'[s] = wire[s] \o <<Ack>>
    BY <1>2, <1>3, <1>10 DEF HandshakeTypeOK
  <2>2. HandshakeTypeOK'
    <3>1. Tail(wire[p]) \in Seq(Message) /\ wire[s] \o <<Ack>> \in Seq(Message)
      BY <1>1, <1>2, <1>3, <1>4 DEF HandshakeTypeOK
    <3>2. QED
      BY <1>1, <1>3, <1>9, <1>10, <3>1 DEF HandshakeTypeOK
  <2>3. CASE Level /\ wire[s] = <<Handshake(num[s])>> /\ wire[p] = <<Handshake(num[p])>>
    <3>1. wire'[p] = <<>> /\ wire'[s] = <<Handshake(num[s]), Ack>>
      BY <1>4, <1>5, <2>1, <2>3, SeqFacts
    <3>2. Decided(s)'
      BY <1>1, <1>2, <1>7, <1>8, <1>9, <1>10, <2>3, <3>1 DEF Level, Decided
    <3>3. QED
      BY <2>2, <3>2 DEF Agreed
  <2>4. CASE Decided(p) /\ wire[s] = <<>> /\ wire[p] = <<Handshake(num[p]), Ack>>
    <3>1. wire'[p] = <<Ack>> /\ wire'[s] = <<Ack>>
      BY <1>4, <1>5, <2>1, <2>4, SeqFacts
    <3>2. nextID'[p] = Parity(p)'
      BY <1>1, <1>9, <2>4 DEF Decided, Parity
    <3>3. Acked'
      BY <1>1, <1>2, <1>7, <1>8, <1>9, <1>10, <3>1, <3>2 DEF Acked
    <3>4. QED
      BY <2>2, <3>3 DEF Agreed
  <2>5. QED
    BY <1>6, <2>3, <2>4
<1>11. CASE /\ loop[p] = "closed"
            /\ loop' = [loop EXCEPT ![s] = "closed"]
            /\ wire' = [wire EXCEPT ![p] = Tail(@)]
  <2>1. Tail(wire[p]) \in Seq(Message)
    BY <1>1, <1>2, <1>3 DEF HandshakeTypeOK
  <2>2. HandshakeTypeOK'
    BY <1>1, <1>3, <1>9, <1>11, <2>1 DEF HandshakeTypeOK
  <2>3. Dead'
    BY <1>1, <1>2, <1>3, <1>8, <1>11 DEF HandshakeTypeOK, Dead
  <2>4. QED
    BY <2>2, <2>3 DEF Agreed
<1>12. QED
  BY <1>1, <1>10, <1>11 DEF Answer

\* Handling an acknowledgement keeps the invariant.
LEMMA HandshakeAckInv ==
  ASSUME Agreed, NEW s \in Side, HandshakeAck(s)
  PROVE  Agreed'
<1> DEFINE p == Peer(s)
<1>1. /\ loop[s] = "run" /\ wire[p] # <<>> /\ Head(wire[p]).t = "ack"
      /\ hsDone' = [hsDone EXCEPT ![s] = TRUE]
      /\ wire' = [wire EXCEPT ![p] = Tail(@), ![s] = @ \o <<>>]
      /\ UNCHANGED <<num, nextID, loop, start>>
  BY DEF HandshakeAck, Receives, Answer
<1>2. p \in Side /\ p # s /\ Peer(p) = s /\ \A r \in Side : r = s \/ r = p
  BY SideFacts
<1>3. HandshakeTypeOK
  BY DEF Agreed
<1>4. /\ \A m \in Num : Handshake(m) \in Message /\ Handshake(m).t # "ack"
      /\ Ack \in Message
  BY MessageFacts
<1>5. num[s] \in Num /\ num[p] \in Num
  BY <1>2, <1>3 DEF HandshakeTypeOK
<1>6. Acked /\ wire[p] = <<Ack>>
  <2>1. ~(Level \/ Ahead(p) \/ Decided(p))
    <3>1. SUFFICES ASSUME Level \/ Ahead(p) \/ Decided(p) PROVE FALSE
      OBVIOUS
    <3>2. CASE Level
      <4>1. wire[p] = <<Handshake(num[p])>>
        BY <1>1, <1>2, <3>2 DEF Level
      <4>2. Head(wire[p]) = Handshake(num[p])
        BY <1>4, <1>5, <4>1, SeqFacts
      <4>3. QED
        BY <1>1, <1>4, <1>5, <4>2
    <3>3. CASE Ahead(p)
      <4>1. Head(wire[p]) = Handshake(num[s])
        BY <1>2, <1>4, <1>5, <3>3, SeqFacts DEF Ahead
      <4>2. QED
        BY <1>1, <1>4, <1>5, <4>1
    <3>4. CASE Decided(p)
      <4>1. Head(wire[p]) = Handshake(num[p])
        BY <1>4, <1>5, <3>4, SeqFacts DEF Decided
      <4>2. QED
        BY <1>1, <1>4, <1>5, <4>1
    <3>5. QED
      BY <3>1, <3>2, <3>3, <3>4
  <2>2. ~Ahead(s) /\ ~Decided(s) /\ ~Dead
    BY <1>1 DEF Ahead, Decided, Dead
  <2>3. Acked
    BY <1>2, <2>1, <2>2 DEF Agreed
  <2>4. QED
    BY <1>1, <1>2, <2>3 DEF Acked
<1>7. wire[s] \o <<>> = wire[s]
  BY <1>3 DEF HandshakeTypeOK
<1>8. wire'[p] = <<>> /\ wire'[s] = wire[s]
  BY <1>1, <1>2, <1>3, <1>4, <1>6, <1>7, SeqFacts DEF HandshakeTypeOK
<1>9. hsDone'[s] = TRUE /\ hsDone'[p] = hsDone[p]
  BY <1>1, <1>2, <1>3 DEF HandshakeTypeOK
<1>10. HandshakeTypeOK'
  <2>1. Tail(wire[p]) \in Seq(Message) /\ wire[s] \o <<>> \in Seq(Message)
    BY <1>1, <1>2, <1>3, <1>7 DEF HandshakeTypeOK
  <2>2. QED
    BY <1>1, <1>3, <2>1 DEF HandshakeTypeOK
<1>11. Acked'
  BY <1>1, <1>2, <1>6, <1>8, <1>9 DEF Acked, Parity
<1>12. QED
  BY <1>10, <1>11 DEF Agreed

\* A step that at most ends loops that had started leaves both directions alone.
LEMMA QuietStepInv ==
  ASSUME Agreed, HandshakeTypeOK',
         num' = num, nextID' = nextID, hsDone' = hsDone, wire' = wire,
         \A r \in Side : /\ (loop'[r] = "send") <=> (loop[r] = "send")
                         /\ (loop[r] = "closed") => (loop'[r] = "closed")
  PROVE  Agreed'
<1>1. Level => Level'
  BY DEF Level
<1>2. \A r \in Side : Ahead(r) => Ahead(r)'
  BY DEF Ahead
<1>3. \A r \in Side : Decided(r) => Decided(r)'
  BY DEF Decided, Parity
<1>4. Acked => Acked'
  BY DEF Acked, Parity
<1>5. Dead => Dead'
  BY DEF Dead
<1>6. QED
  BY <1>1, <1>2, <1>3, <1>4, <1>5 DEF Agreed

\* The steps of startMux and the closing of a side keep the invariant.
LEMMA OtherStepsInv ==
  ASSUME Agreed, NEW s \in Side,
         \/ ReadEOF(s) \/ LoopClose(s) \/ StartOK(s)
         \/ StartGivesUp(s) \/ StartFailed(s) \/ OwnerClose(s)
  PROVE  Agreed'
<1>1. /\ num' = num /\ nextID' = nextID /\ hsDone' = hsDone /\ wire' = wire
      /\ \/ loop' = loop
         \/ loop[s] = "run" /\ loop' = [loop EXCEPT ![s] = "closed"]
  BY DEF ReadEOF, LoopClose, StartOK, StartGivesUp, StartFailed, OwnerClose
<1>2. start' \in [Side -> {"wait", "ok", "closing", "failed", "ownerClosed"}]
  BY DEF Agreed, HandshakeTypeOK, ReadEOF, LoopClose, StartOK, StartGivesUp, StartFailed, OwnerClose
<1>3. HandshakeTypeOK'
  BY <1>1, <1>2 DEF Agreed, HandshakeTypeOK
<1>4. \A r \in Side : /\ (loop'[r] = "send") <=> (loop[r] = "send")
                      /\ (loop[r] = "closed") => (loop'[r] = "closed")
  BY <1>1 DEF Agreed, HandshakeTypeOK
<1>5. QED
  BY <1>1, <1>3, <1>4, QuietStepInv

\* Every step keeps the invariant.
LEMMA NextInv == Agreed /\ [HandshakeNext]_handshakeVars => Agreed'
<1> SUFFICES ASSUME Agreed, [HandshakeNext]_handshakeVars PROVE Agreed'
  OBVIOUS
<1>1. CASE HandshakeNext
  BY <1>1, SendHandshakeInv, HandshakeTieInv, HandshakeDecidedInv,
     HandshakeAckInv, OtherStepsInv DEF HandshakeNext, LoopStep
<1>2. CASE UNCHANGED handshakeVars
  BY <1>2 DEF handshakeVars, Agreed, HandshakeTypeOK, Level, Ahead, Decided, Acked, Dead, Parity
<1>3. QED
  BY <1>1, <1>2

-----------------------------------------------------------------------------
(* The theorems.                                                           *)

\* Agreed is an invariant of the handshake.
LEMMA AgreedAlways == HandshakeSpec => []Agreed
BY InitInv, NextInv, PTL DEF HandshakeSpec

\* The variables of the handshake keep their types: in particular ourNum
\* stays a byte and nextID stays 0 or 1 until the Mux has started.
THEOREM HandshakeTypes == HandshakeSpec => []HandshakeTypeOK
<1>1. Agreed => HandshakeTypeOK
  BY DEF Agreed
<1>2. QED
  BY <1>1, AgreedAlways, PTL

\* Two Muxes that both got past the handshake dial with disjoint identifiers,
\* for every range of numbers and any run of ties.
THEOREM DisjointIdentifiers == HandshakeSpec => []DistinctParity
BY AgreedImpliesSafety, AgreedAlways, PTL

\* A Mux that may dial has its parity from the final pair of numbers.
THEOREM DecidedBeforeDone == HandshakeSpec => []ParityDecided
BY AgreedImpliesSafety, AgreedAlways, PTL

\* The Mux never has to drop a handshake that arrives too late.
THEOREM HandshakeNeverLate == HandshakeSpec => []NoLateHandshake
BY AgreedImpliesSafety, AgreedAlways, PTL

=============================================================================
