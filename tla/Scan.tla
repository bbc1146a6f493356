-------------------------------- MODULE Scan --------------------------------
(***************************************************************************)
(* The scan command: it chooses the regions to search, a goroutine feeds   *)
(* them to workers over an unbuffered channel, each worker searches one    *)
(* region at a time, a collector gathers what they found. A region is      *)
(* searched in one read (FindAllBytes) when the pattern has no wildcard,   *)
(* else through the sliding window of memory.BufferedReader.               *)
(*                                                                         *)
(* A region is its position in the table; its bytes do not change while it *)
(* is searched, and any read of it may fail. Another session may detach    *)
(* from the process at any moment and attach to it again.                  *)
(***************************************************************************)
EXTENDS Naturals, Sequences, FiniteSets

CONSTANTS
    Workers,      \* one per CPU
    Tables,       \* the region tables: sequences of records, in order of address
    Patterns,     \* what is searched for: sequences of bytes and Wild, maybe empty
    Ranges,       \* the start and end the user may give, 0 for none
    Wild,         \* the pattern byte ??
    MinRead,      \* BufferedReader reads at least this much ahead (1 MiB in the code)
    Nothing       \* no region

ASSUME ScanAssumption ==
    /\ Workers # {} /\ IsFiniteSet(Workers)
    /\ MinRead \in Nat \ {0, 1}
    /\ \A p \in Patterns : p \in Seq(Nat \cup {Wild})
    /\ \A t \in Tables : t \in Seq([base : Nat, readable : BOOLEAN, data : Seq(Nat)])
    /\ Nothing \notin Nat

VARIABLES
    regions, pattern, range,   \* the input
    cancelled,                 \* the user interrupted the command
    scanDone,                  \* scanCtx is done
    next, closed,              \* the feeder: next region, regionCh closed
    pc, region, reader, found, \* of a worker
    results,                   \* resultCh
    matches, firstErr,         \* the collector
    failed,                    \* regions of which a read failed
    attached,                  \* progctl.Ctl has a process
    refused,                   \* regions for which no reader could be made
    crashed,                   \* a worker panicked: the program is gone
    returned

input == <<regions, pattern, range>>
ctxVars == <<cancelled, scanDone>>
feedVars == <<next, closed>>
workVars == <<pc, region, reader, found>>
collectVars == <<results, matches, firstErr>>
ctlVars == <<attached, refused, crashed>>
vars == <<input, ctxVars, feedVars, workVars, collectVars, failed, ctlVars, returned>>
-----------------------------------------------------------------------------
(* memory.PatternByte and memory.ParsedPattern. *)
ByteMatches(p, b) == p = Wild \/ p = b
Matches(p, data) == /\ Len(data) = Len(p) /\ Len(data) # 0
                    /\ \A i \in DOMAIN data : ByteMatches(p[i], data[i])
HasWildcards(p) == \E i \in DOMAIN p : p[i] = Wild

(* Where a pattern is in a region: what both ways of searching are to find.*)
Occurrences(p, data) ==
    {o \in 0 .. Len(data) - 1 : o + Len(p) <= Len(data) /\ Matches(p, SubSeq(data, o + 1, o + Len(p)))}

(* memory.FindAllBytes: from offset on, the first place of the needle; the *)
(* search goes on one byte after it. The mutant goes on after the needle.  *)
FirstFrom(p, data, offset) ==
    {o \in Occurrences(p, data) : o >= offset /\ \A q \in Occurrences(p, data) : q >= offset => o <= q}
FindAllBytesSkipping(p, data) ==
    LET f[offset \in 0 .. Len(data) + Len(p)] ==
          IF FirstFrom(p, data, offset) = {} THEN <<>>
          ELSE LET o == CHOOSE o \in FirstFrom(p, data, offset) : TRUE IN <<o>> \o f[o + Len(p)]
    IN f[0]
FindAllBytes(p, data) ==
    LET f[offset \in 0 .. Len(data) + 1] ==
          IF FirstFrom(p, data, offset) = {} THEN <<>>
          ELSE LET o == CHOOSE o \in FirstFrom(p, data, offset) : TRUE IN <<o>> \o f[o + 1]
    IN f[0]

(* bytes.Index finds an empty needle behind the last byte too: the search  *)
(* then goes on one byte past the end of the data, which panics.           *)
FoundAt(p, data, o) == o + Len(p) <= Len(data) /\ SubSeq(data, o + 1, o + Len(p)) = p
Overruns(p, data) == FoundAt(p, data, Len(data))
-----------------------------------------------------------------------------
(* memory.BufferedReader with advanceBy = 1. *)
NewBufferedReader(size) ==
    [buf |-> <<>>, remain |-> size, off |-> 0, lastOffset |-> 0, bufOffset |-> 0,
     done |-> FALSE, hasMore |-> TRUE, last |-> <<>>]

Smaller(a, b) == IF a <= b THEN a ELSE b

(* read: nothing to do while the buffer holds more than is needed. The     *)
(* mutant is content with one byte less than that.                         *)
WantsReadLate(r, need) == ~r.done /\ Len(r.buf) < need - 1
WantsRead(r, need) == ~r.done /\ Len(r.buf) <= need
ReadSize(need) == IF need < MinRead THEN need + MinRead ELSE need

Read(r, need, data) ==
    IF ~WantsRead(r, need) THEN r
    ELSE LET size == Smaller(ReadSize(need), r.remain)
         IN [r EXCEPT !.done = ReadSize(need) > r.remain,
                      !.remain = @ - size,
                      !.buf = @ \o SubSeq(data, r.off + 1, r.off + size),
                      !.off = @ + size]

(* Next: the byte the window leaves behind is dropped, the buffer filled,  *)
(* the window taken from its front.                                        *)
Slide(r) == [r EXCEPT !.buf = IF r.bufOffset > 0 /\ @ # <<>> THEN Tail(@) ELSE @]
Chunk(r, need, data) ==
    LET slid == Read(Slide(r), need, data)
        empty == slid.buf = <<>>
        step == [slid EXCEPT !.last = SubSeq(slid.buf, 1, Smaller(need, Len(slid.buf))),
                             !.lastOffset = IF empty THEN @ ELSE slid.bufOffset,
                             !.bufOffset = IF empty THEN @ ELSE @ + 1]
    IN [step EXCEPT !.hasMore = ~(step.done /\ step.off = step.bufOffset)]
-----------------------------------------------------------------------------
(* The regions that run keeps: readable ones inside the range asked for.   *)
EndAddr(r) == r.base + Len(r.data)
Selected == LET keep(r) == /\ r.readable
                           /\ range[1] > 0 => r.base >= range[1]
                           /\ range[2] > 0 => EndAddr(r) <= range[2]
            IN {i \in DOMAIN regions : keep(regions[i])}

NoMatch == [matches |-> <<>>, err |-> FALSE]

Init ==
    /\ regions \in Tables /\ pattern \in Patterns /\ range \in Ranges
    /\ cancelled = FALSE /\ scanDone = FALSE
    /\ next = 1 /\ closed = FALSE
    /\ pc = [w \in Workers |-> "receive"]
    /\ region = [w \in Workers |-> Nothing]
    /\ reader = [w \in Workers |-> Nothing]
    /\ found = [w \in Workers |-> NoMatch]
    /\ results = <<>> /\ matches = <<>> /\ firstErr = FALSE
    /\ failed = {} /\ returned = FALSE
    /\ attached = TRUE /\ refused = {} /\ crashed = FALSE

Goto(w, where) == pc' = [pc EXCEPT ![w] = where]

(* The feeder: over the table in order, past what is not selected. *)
ToFeed == {i \in Selected : i >= next}
Feed(w) ==
    /\ ~closed /\ pc[w] = "receive" /\ ToFeed # {}
    /\ LET i == CHOOSE i \in ToFeed : \A j \in ToFeed : i <= j
       IN region' = [region EXCEPT ![w] = i] /\ next' = i + 1
    /\ Goto(w, "search")
    /\ UNCHANGED <<input, ctxVars, closed, reader, found, collectVars, failed, returned, ctlVars>>

(* It stops after the last region, or when it sees the scan cancelled, and *)
(* closes the channel. The mutant leaves it open when cancelled.           *)
FeederStopsOpen ==
    /\ ~crashed /\ ~closed /\ ToFeed = {} /\ ~scanDone
    /\ closed' = TRUE
    /\ UNCHANGED <<input, ctxVars, next, workVars, collectVars, failed, returned, ctlVars>>
FeederStops ==
    /\ ~crashed /\ ~closed /\ (ToFeed = {} \/ scanDone)
    /\ closed' = TRUE
    /\ UNCHANGED <<input, ctxVars, next, workVars, collectVars, failed, returned, ctlVars>>

WorkerEnds(w) ==
    /\ closed /\ pc[w] = "receive"
    /\ Goto(w, "done")
    /\ UNCHANGED <<input, ctxVars, feedVars, region, reader, found, collectVars, failed, returned, ctlVars>>

Data(w) == regions[region[w]].data

Answer(w, offsets, err) ==
    /\ found' = [found EXCEPT ![w] = [matches |-> [i \in DOMAIN offsets |-> <<region[w], offsets[i]>>], err |-> err]]
    /\ Goto(w, "send")

(* searchRegion. A read that fails is not an error of the search.          *)
SearchRefused(w) ==
    /\ pc[w] = "search" /\ scanDone
    /\ Answer(w, <<>>, TRUE)
    /\ UNCHANGED <<input, ctxVars, feedVars, region, reader, collectVars, failed, returned, ctlVars>>

SearchBytes(w) ==
    /\ pc[w] = "search" /\ ~scanDone /\ ~HasWildcards(pattern)
    /\ \/ /\ attached /\ ~Overruns(pattern, Data(w))
          /\ Answer(w, FindAllBytes(pattern, Data(w)), FALSE) /\ UNCHANGED failed
       \/ Answer(w, <<>>, FALSE) /\ failed' = failed \cup {region[w]}
    /\ UNCHANGED <<input, ctxVars, feedVars, region, reader, collectVars, returned, ctlVars>>

SearchPanics(w) ==
    /\ pc[w] = "search" /\ ~scanDone /\ ~HasWildcards(pattern)
    /\ attached /\ Overruns(pattern, Data(w))
    /\ crashed' = TRUE
    /\ UNCHANGED <<input, ctxVars, feedVars, workVars, collectVars, failed, attached, refused, returned>>

(* A reader is only made while attached; that error is one of the search.  *)
SearchReader(w) ==
    /\ pc[w] = "search" /\ ~scanDone /\ HasWildcards(pattern)
    /\ \/ /\ attached
          /\ reader' = [reader EXCEPT ![w] = NewBufferedReader(Len(Data(w)))]
          /\ found' = [found EXCEPT ![w] = NoMatch]
          /\ Goto(w, "read") /\ UNCHANGED refused
       \/ /\ ~attached
          /\ Answer(w, <<>>, TRUE)
          /\ refused' = refused \cup {region[w]} /\ UNCHANGED reader
    /\ UNCHANGED <<input, ctxVars, feedVars, region, collectVars, failed, attached, crashed, returned>>

(* One turn of FindAllReader's loop; its read fails if the scan is         *)
(* cancelled or nothing is attached, and FindAllReader then returns no     *)
(* match at all.                                                           *)
ReaderNext(w) ==
    /\ pc[w] = "read" /\ reader[w].hasMore
    /\ LET r == Chunk(reader[w], Len(pattern), Data(w))
           reads == WantsRead(Slide(reader[w]), Len(pattern))
       IN \/ /\ ~(reads /\ (scanDone \/ ~attached))
             /\ reader' = [reader EXCEPT ![w] = r]
             /\ found' = [found EXCEPT ![w].matches =
                            IF Matches(pattern, r.last) THEN Append(@, <<region[w], r.lastOffset>>) ELSE @]
             /\ UNCHANGED <<pc, failed>>
          \/ /\ reads
             /\ Answer(w, <<>>, FALSE)
             /\ failed' = failed \cup {region[w]} /\ UNCHANGED reader
    /\ UNCHANGED <<input, ctxVars, feedVars, region, collectVars, returned, ctlVars>>

ReaderEnds(w) ==
    /\ pc[w] = "read" /\ ~reader[w].hasMore
    /\ Goto(w, "send")
    /\ UNCHANGED <<input, ctxVars, feedVars, region, reader, found, collectVars, failed, returned, ctlVars>>

Send(w) ==
    /\ pc[w] = "send" /\ Len(results) < Cardinality(Workers)
    /\ results' = Append(results, found[w])
    /\ found' = [found EXCEPT ![w] = NoMatch] /\ region' = [region EXCEPT ![w] = Nothing]
    /\ reader' = [reader EXCEPT ![w] = Nothing]
    /\ Goto(w, "receive")
    /\ UNCHANGED <<input, ctxVars, feedVars, matches, firstErr, failed, returned, ctlVars>>

(* The collector: the first error cancels the rest. *)
Collect ==
    /\ ~crashed /\ results # <<>>
    /\ results' = Tail(results)
    /\ matches' = matches \o Head(results).matches
    /\ firstErr' = (firstErr \/ Head(results).err)
    /\ scanDone' = (scanDone \/ Head(results).err)
    /\ UNCHANGED <<input, cancelled, feedVars, workVars, failed, returned, ctlVars>>

(* resultCh is closed when every worker has ended; the collector ends when *)
(* it has read the rest.                                                   *)
Return ==
    /\ ~crashed /\ ~returned /\ results = <<>> /\ \A w \in Workers : pc[w] = "done"
    /\ returned' = TRUE
    /\ UNCHANGED <<input, ctxVars, feedVars, workVars, collectVars, failed, ctlVars>>

Interrupt ==
    /\ ~crashed /\ ~cancelled /\ ~returned
    /\ cancelled' = TRUE /\ scanDone' = TRUE
    /\ UNCHANGED <<input, feedVars, workVars, collectVars, failed, returned, ctlVars>>

(* Ctl.Detach or the automatic detach, Ctl.Attach, by another session.     *)
OthersUnchanged ==
    UNCHANGED <<input, ctxVars, feedVars, workVars, collectVars, failed, refused, crashed, returned>>
Detach ==
    /\ ~crashed /\ ~returned /\ attached
    /\ attached' = FALSE /\ OthersUnchanged
Attach ==
    /\ ~crashed /\ ~returned /\ ~attached
    /\ attached' = TRUE /\ OthersUnchanged

WorkerStep(w) ==
    /\ ~crashed
    /\ \/ Feed(w) \/ WorkerEnds(w) \/ SearchRefused(w) \/ SearchBytes(w) \/ SearchPanics(w)
       \/ SearchReader(w) \/ ReaderNext(w) \/ ReaderEnds(w) \/ Send(w)

Next ==
    \/ \E w \in Workers : WorkerStep(w)
    \/ FeederStops \/ Collect \/ Return \/ Interrupt \/ Detach \/ Attach

Fairness ==
    /\ \A w \in Workers : WF_vars(WorkerStep(w))
    /\ WF_vars(FeederStops) /\ WF_vars(Collect) /\ WF_vars(Return)

Spec == Init /\ [][Next]_vars /\ Fairness
-----------------------------------------------------------------------------
(* TypeOK: the state stays within its types. *)
TypeOK ==
    /\ <<cancelled, scanDone, closed, firstErr, returned>> \in BOOLEAN \X BOOLEAN \X BOOLEAN \X BOOLEAN \X BOOLEAN
    /\ next \in 1 .. Len(regions) + 1
    /\ pc \in [Workers -> {"receive", "search", "read", "send", "done"}]
    /\ \A w \in Workers : region[w] \in DOMAIN regions \cup {Nothing}
    /\ Len(results) <= Cardinality(Workers)
    /\ failed \subseteq DOMAIN regions
    /\ <<attached, crashed>> \in BOOLEAN \X BOOLEAN /\ refused \subseteq DOMAIN regions

(* WindowInPlace: what a worker looks at is the part of the region that    *)
(* starts where it says, and shorter than the pattern only at the end      *)
(* of the region (BufferedReader.next).                              *)
WindowInPlace ==
    \A w \in Workers : pc[w] = "read" =>
        LET r == reader[w]
        IN /\ r.last = SubSeq(Data(w), r.lastOffset + 1, r.lastOffset + Len(r.last))
           /\ r.bufOffset > 0 => Len(r.last) = Smaller(Len(pattern), Len(Data(w)) - r.lastOffset)

(* ScanIsWhole: a scan that was not interrupted fails exactly when a       *)
(* worker found nothing attached to make a reader of, and one that does    *)
(* not fail reports every occurrence in every region it was to search and  *)
(* could read, each once, whichever worker searched it and in whatever     *)
(* order they answered.                                                    *)
ReportsAll ==
    /\ {matches[i] : i \in DOMAIN matches} =
          UNION {{<<r, o>> : o \in Occurrences(pattern, regions[r].data)} : r \in Selected \ failed}
    /\ \A i, j \in DOMAIN matches : matches[i] = matches[j] => i = j
ScanIsWhole ==
    returned /\ ~cancelled =>
        /\ firstErr <=> refused # {}
        /\ ~firstErr => ReportsAll

(* ScanEnds: the command returns, interrupted or not, unless the program   *)
(* is gone.                                                                *)
ScanEnds == <>(returned \/ crashed)

(* Not kept by the code. NeverCrashes: no pattern makes a worker panic; an *)
(* empty one does. CutShortIsError: a scan that was cut short returns an   *)
(* error; interrupted when no worker is about to search, the feeder stops  *)
(* and the scan returns what it has as if that were all.                   *)
NeverCrashes == ~crashed
CutShortIsError == returned /\ ~firstErr => ReportsAll
=============================================================================
