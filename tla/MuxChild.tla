------------------------------ MODULE MuxChild ------------------------------
(***************************************************************************)
(* The reading half of one child connection of internal/connmux: the read  *)
(* buffer readB that Mux.loop fills, the channel reads whose one token     *)
(* says that it is not empty, concurrent calls of Read, the read deadline  *)
(* and Close.  Bytes are numbered; a chunk is the interval [from, to].     *)
(*                                                                         *)
(* A goroutine of setDeadline that is parked in a select ends at once when *)
(* it is cancelled; one that is between two selects finds the cancellation *)
(* and a waiting Read both ready and picks either.                         *)
(***************************************************************************)
EXTENDS Naturals, Sequences

CONSTANTS
  Readers,      \* goroutines that call Read
  ChunkSizes,   \* lengths of payloads
  ReadSizes,    \* lengths of the buffers given to Read
  MaxBytes,     \* bound: bytes received
  MaxChunks,    \* bound: chunks in the read buffer
  MaxSets       \* bound: calls of SetReadDeadline

ASSUME ConstantsAssumption ==
  /\ ChunkSizes \subseteq Nat
  /\ ReadSizes \subseteq Nat \ {0}
  /\ MaxBytes \in Nat /\ MaxChunks \in Nat /\ MaxSets \in Nat

Bytes(from, to) == [from |-> from, to |-> to]
Chunk == [from : Nat, to : Nat]
Nothing == Bytes(1, 0)

VARIABLES
  readB,     \* the list readB
  reads,     \* the channel reads holds its token
  closed,    \* the channel closed is closed
  pc,        \* pc[r]: "idle", in the "select" of Read, or past it ("lock")
  res,       \* res[r]: the bytes the last Read of r returned
  pushed,    \* bytes received from the peer
  got,       \* bytes Reads have returned
  overlap,   \* two Reads have been in progress at the same time
  timer,     \* the goroutine of the deadline in force
  stale,     \* goroutines of replaced deadlines that are between two selects
  sets       \* calls of SetReadDeadline

readVars == <<readB, reads, pushed, got>>
timerVars == <<timer, stale, sets>>
vars == <<readB, reads, closed, pc, res, pushed, got, overlap, timer, stale, sets>>

Init ==
  /\ readB = <<>>
  /\ reads = FALSE
  /\ closed = FALSE
  /\ pc = [r \in Readers |-> "idle"]
  /\ res = [r \in Readers |-> Nothing]
  /\ pushed = 0
  /\ got = 0
  /\ overlap = FALSE
  /\ timer = "none"
  /\ stale = 0
  /\ sets = 0

-----------------------------------------------------------------------------
(* Mux.loop: a payload for this child.                                     *)

\* The loop has not seen a Close of the program, so it may still add.
AddToReadBuf(k) ==
  /\ Len(readB) < MaxChunks
  /\ pushed + k <= MaxBytes
  /\ readB' = Append(readB, Bytes(pushed + 1, pushed + k))
  /\ pushed' = pushed + k
  /\ reads' = TRUE
  /\ UNCHANGED <<closed, pc, res, got, overlap, timerVars>>

-----------------------------------------------------------------------------
(* Read.                                                                   *)

ReadCall(r) ==
  /\ pc[r] = "idle"
  /\ pc' = [pc EXCEPT ![r] = "select"]
  /\ overlap' = (overlap \/ \E q \in Readers : pc[q] # "idle")
  /\ UNCHANGED <<readVars, closed, res, timerVars>>

\* Read returns without data.
Fails(r) ==
  /\ pc' = [pc EXCEPT ![r] = "idle"]
  /\ res' = [res EXCEPT ![r] = Nothing]
  /\ UNCHANGED <<readVars, closed, overlap>>

\* case <-o.closed
ReadClosed(r) ==
  /\ pc[r] = "select"
  /\ closed
  /\ Fails(r)
  /\ UNCHANGED timerVars

\* case <-o.reads
ReadTake(r) ==
  /\ pc[r] = "select"
  /\ reads
  /\ reads' = FALSE
  /\ pc' = [pc EXCEPT ![r] = "lock"]
  /\ UNCHANGED <<readB, closed, res, pushed, got, overlap, timerVars>>

\* Under readM, the buffer is empty: another Read was faster.
ReadEmpty(r) ==
  /\ pc[r] = "lock"
  /\ readB = <<>>
  /\ Fails(r)
  /\ UNCHANGED timerVars

Least(a, b) == IF a < b THEN a ELSE b

\* Fault: a chunk that was read in part is left as a whole.
RestWhole(n) == IF Head(readB).from + n > Head(readB).to THEN Tail(readB) ELSE readB

\* What the first chunk leaves behind when n bytes of it have been copied.
Rest(n) ==
  IF Head(readB).from + n > Head(readB).to
  THEN Tail(readB)
  ELSE [readB EXCEPT ![1].from = @ + n]

\* Under readM: n bytes of the first chunk go to the caller.
Copy(r, n) ==
  /\ pc[r] = "lock"
  /\ readB # <<>>
  /\ res' = [res EXCEPT ![r] = Bytes(Head(readB).from, Head(readB).from + n - 1)]
  /\ got' = got + n
  /\ readB' = Rest(n)
  /\ pc' = [pc EXCEPT ![r] = "idle"]
  /\ UNCHANGED <<closed, pushed, overlap, timerVars>>

\* How much of the first chunk fits into a buffer of the given size.
Fits(size) == Least(size, Head(readB).to + 1 - Head(readB).from)

\* Fault: the token is not put back for what is left.
ReadCopyNoToken(r, size) == Copy(r, Fits(size)) /\ UNCHANGED reads

\* Fault: the token is put back even if nothing is left.
ReadCopyToken(r, size) == Copy(r, Fits(size)) /\ reads' = TRUE

\* case <-o.reads, the rest: the token is put back if anything is left.
ReadCopy(r, size) ==
  /\ Copy(r, Fits(size))
  /\ reads' = (reads \/ Rest(Fits(size)) # <<>>)

-----------------------------------------------------------------------------
(* SetReadDeadline and the goroutine it starts.                            *)

\* The deadline in force is cancelled; a goroutine outside its select is left.
Cancel == stale' = IF timer \in {"new", "running"} THEN stale + 1 ELSE stale

SetReadDeadline(to) ==
  /\ sets < MaxSets
  /\ sets' = sets + 1
  /\ Cancel
  /\ timer' = to
  /\ UNCHANGED <<readVars, closed, pc, res, overlap>>

\* The goroutine reaches a select: the one for the time, or the one that
\* offers the time-out to Reads.
TimerParks ==
  /\ \/ timer = "new" /\ timer' = "armed"
     \/ timer = "running" /\ timer' = "firing"
  /\ ~closed
  /\ UNCHANGED <<readVars, closed, pc, res, overlap, stale, sets>>

\* case <-deadlineCtx.Done()
TimerDue ==
  /\ timer \in {"new", "armed"}
  /\ timer' = "running"
  /\ UNCHANGED <<readVars, closed, pc, res, overlap, stale, sets>>

\* Fault: the goroutine offers the time-out to one Read only.
TimerFiresOnce(r) ==
  /\ timer \in {"running", "firing"}
  /\ pc[r] = "select"
  /\ Fails(r)
  /\ timer' = "none"
  /\ UNCHANGED <<stale, sets>>

\* case deadlineCh <- struct{}{}, taken by a Read that waits
TimerFires(r) ==
  /\ timer \in {"running", "firing"}
  /\ pc[r] = "select"
  /\ Fails(r)
  /\ timer' = "running"
  /\ UNCHANGED <<stale, sets>>

\* case <-o.closed
TimerEnds ==
  /\ closed
  /\ timer # "none"
  /\ timer' = "none"
  /\ UNCHANGED <<readVars, closed, pc, res, overlap, stale, sets>>

\* A cancelled goroutine between two selects: it may still find a Read first.
StaleFires(r) ==
  /\ stale > 0
  /\ pc[r] = "select"
  /\ Fails(r)
  /\ UNCHANGED timerVars

\* case <-canceledCtx.Done()
StaleEnds ==
  /\ stale > 0
  /\ stale' = stale - 1
  /\ UNCHANGED <<readVars, closed, pc, res, overlap, timer, sets>>

-----------------------------------------------------------------------------
\* Close by the program, or the end of the connection.
Close ==
  /\ ~closed
  /\ closed' = TRUE
  /\ UNCHANGED <<readVars, pc, res, overlap, timerVars>>

\* What one Read does by itself.
ReadStep(r) ==
  \/ ReadClosed(r)
  \/ ReadTake(r)
  \/ ReadEmpty(r)
  \/ \E size \in ReadSizes : ReadCopy(r, size)

TimerStep == TimerParks \/ TimerDue \/ TimerEnds \/ StaleEnds

Next ==
  \/ \E k \in ChunkSizes : AddToReadBuf(k)
  \/ \E r \in Readers : ReadCall(r) \/ ReadStep(r) \/ TimerFires(r) \/ StaleFires(r)
  \/ \E to \in {"none", "new"} : SetReadDeadline(to)
  \/ TimerStep
  \/ Close

Spec == Init /\ [][Next]_vars

\* A Read whose select has a ready case goes on, a time that is due passes,
\* and a goroutine that is cancelled or closed ends: select picks each ready
\* case in the end.  The receivers that wait on a Go channel form a queue, so
\* a Read that waits for a token gets one if tokens keep coming.  Nothing is
\* assumed of the program or of the peer.
Fairness ==
  /\ \A r \in Readers :
       WF_vars(ReadStep(r)) /\ SF_vars(ReadTake(r)) /\ WF_vars(TimerFires(r))
  /\ WF_vars(TimerParks \/ TimerDue)
  /\ WF_vars(TimerEnds)
  /\ WF_vars(StaleEnds)

FairSpec == Spec /\ Fairness

-----------------------------------------------------------------------------
TypeOK ==
  /\ readB \in Seq(Chunk)
  /\ reads \in BOOLEAN
  /\ closed \in BOOLEAN
  /\ pc \in [Readers -> {"idle", "select", "lock"}]
  /\ res \in [Readers -> Chunk]
  /\ pushed \in Nat
  /\ got \in Nat
  /\ overlap \in BOOLEAN
  /\ timer \in {"none", "new", "armed", "firing", "running"}
  /\ sets \in 0 .. MaxSets
  /\ stale \in 0 .. (IF timer = "none" THEN sets ELSE sets - 1)

\* No lost wakeup: data in the buffer always has a token in the channel, or a
\* Read that has taken it and will put it back for what it leaves behind.
NoLostWakeup == readB # <<>> => reads \/ \E r \in Readers : pc[r] = "lock"

\* As long as Reads do not overlap, a Read that took the token finds data: it
\* never returns zero bytes without an error because the buffer was empty.
SoleReaderFindsData ==
  ~overlap => \A r \in Readers : pc[r] = "lock" => readB # <<>>

\* Every byte received and not read is in the buffer, once and in order.
Contiguous ==
  /\ readB = <<>> => pushed = got
  /\ readB # <<>> => readB[1].from = got + 1 /\ readB[Len(readB)].to = pushed
  /\ \A i \in 1 .. Len(readB) : readB[i].from <= readB[i].to + 1
  /\ \A i \in 1 .. Len(readB) - 1 : readB[i + 1].from = readB[i].to + 1

\* Reads return the bytes of the peer in order, none twice and none skipped,
\* however their steps and the pushes of the loop interleave.
Stream == INSTANCE ByteStream WITH written <- pushed, read <- got, last <- res

ImplementsStream == Stream!Spec

\* A waiting Read with data in the buffer does not wait for ever: it or
\* another Read takes the token and makes the buffer move.
DataWakesRead ==
  \A r \in Readers :
    (pc[r] = "select" /\ readB # <<>>) ~> (pc[r] # "select" \/ readB = <<>>)

\* Close ends every waiting Read, and every goroutine of a deadline.
CloseEndsAll ==
  /\ \A r \in Readers : (closed /\ pc[r] = "select") ~> pc[r] # "select"
  /\ closed ~> timer = "none"

\* A deadline that is due ends a waiting Read unless it is replaced.
DeadlineEndsRead ==
  \A r \in Readers : \A n \in 1 .. MaxSets :
    (timer = "running" /\ sets = n /\ pc[r] = "select")
      ~> (pc[r] # "select" \/ sets # n)

\* A Read returns: data, a close or a due deadline each ends the wait.
WaitsEnd == DataWakesRead /\ CloseEndsAll /\ DeadlineEndsRead

=============================================================================
