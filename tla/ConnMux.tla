------------------------------ MODULE ConnMux -------------------------------
(***************************************************************************)
(* Two Muxes of internal/connmux after their handshake (MuxHandshake):     *)
(* dialing and accepting child connections, moving their payloads, and     *)
(* closing children and Muxes.  Each Mux has one goroutine, Mux.loop, that *)
(* owns its maps and writes the net.Conn; the calls of the programs on the *)
(* two sides meet it through unbuffered channels.  A direction of the      *)
(* net.Conn, with the message its reading goroutine may hold, is one FIFO  *)
(* of at most PipeCap messages: a loop that writes to a full one stays in  *)
(* the write.  The texts of errors and of addresses are left out.          *)
(***************************************************************************)
EXTENDS Naturals, Sequences, FiniteSets

CONSTANTS
  ClientCalls,   \* calls of DialContext on the client's Mux
  ServerCalls,   \* calls of DialContext on the server's Mux
  Expiring,      \* the calls whose context may expire
  NoAccept,      \* the sides that were made by NewDialOnly
  Closing,       \* the sides whose program may call Mux.Close
  PipeCap,       \* messages one direction can hold
  AcceptCap,     \* capacity of the accept channel (10 in the code)
  MaxWrites,     \* bound: MaxWrites[s] payloads written by s per connection
  MaxCloses,     \* bound: MaxCloses[s] calls of Close by s per child connection
  NoCall         \* stands for "no dial call" in a write

Side == {"client", "server"}
Peer(s) == IF s = "client" THEN "server" ELSE "client"
Call == ClientCalls \union ServerCalls
Caller(c) == IF c \in ClientCalls THEN "client" ELSE "server"

ASSUME ConstantsAssumption ==
  /\ ClientCalls \intersect ServerCalls = {} /\ Expiring \subseteq Call
  /\ IsFiniteSet(Call)
  /\ NoAccept \subseteq Side /\ Closing \subseteq Side /\ NoCall \notin Call
  /\ {PipeCap, AcceptCap} \subseteq Nat \ {0}
  /\ {MaxWrites, MaxCloses} \subseteq [Side -> Nat]

Id == 0 .. 2 * Cardinality(Call) + 1

VARIABLES
  loop,      \* where the goroutine Mux.loop of each side is
  busy,      \* busy[s]: the message its loop is writing, and what follows
  wire,      \* wire[s]: messages written by s and not yet handled by its peer
  closeReq,  \* Close was called: the channel o.close is closed
  nextID,    \* identifier of the next dial
  dial,      \* dial[c]: the call c and its dialCB
  dialing,   \* dialing[s]: the calls in the map o.dialing
  conns,     \* conns[s]: the identifiers in the map o.idsToConns
  accept,    \* accept[s]: the channel o.accept
  held,      \* held[s]: children the program has from DialContext or Accept
  closed,    \* closed[s]: children whose channel closed is closed
  closing,   \* closing[s][i]: goroutines in childClosed for child i
  closes,    \* closes[s][i]: calls of Close made on child i
  readB,     \* readB[s][i]: payloads in the read buffer of child i
  rcvd,      \* rcvd[s][i]: the numbers of the payloads read from child i
  writer     \* writer[s][i]: the call of Write on child i

vars == <<loop, busy, wire, closeReq, nextID, dial, dialing, conns, accept,
          held, closed, closing, closes, readB, rcvd, writer>>

Msg(t, i) == [t |-> t, id |-> i, n |-> 0]
Payload(i, n) == [t |-> "payload", id |-> i, n |-> n]
NotBusy == [m |-> Msg("none", 0), then |-> "none", call |-> NoCall]

\* The process of s has ended or its Mux has closed the net.Conn.
ConnEnded(s) == loop[s] \in {"done", "panic"}
Alive(s) == loop[s] # "panic"

Queued(s) == {accept[s][k] : k \in 1 .. Len(accept[s])}

\* New has returned on both sides: one numbers with 0, 2, ..., the other
\* with 1, 3, ... (MuxHandshake, DistinctParity).
Init ==
  /\ loop = [s \in Side |-> "select"]
  /\ busy = [s \in Side |-> NotBusy]
  /\ wire = [s \in Side |-> <<>>]
  /\ closeReq = [s \in Side |-> FALSE]
  /\ \E odd \in Side : nextID = [s \in Side |-> IF s = odd THEN 1 ELSE 0]
  /\ dial = [c \in Call |-> [st |-> "idle", id |-> 0, expired |-> FALSE]]
  /\ dialing = [s \in Side |-> {}]
  /\ conns = [s \in Side |-> {}]
  /\ accept = [s \in Side |-> <<>>]
  /\ held = [s \in Side |-> {}]
  /\ closed = [s \in Side |-> {}]
  /\ closing = [s \in Side |-> [i \in Id |-> 0]]
  /\ closes = [s \in Side |-> [i \in Id |-> 0]]
  /\ readB = [s \in Side |-> [i \in Id |-> <<>>]]
  /\ rcvd = [s \in Side |-> [i \in Id |-> <<>>]]
  /\ writer = [s \in Side |-> [i \in Id |-> [st |-> "idle", n |-> 0]]]

-----------------------------------------------------------------------------
(* The programs that use the two Muxes.                                    *)

DialContext(c) ==
  /\ Alive(Caller(c))
  /\ dial[c].st = "idle"
  /\ dial' = [dial EXCEPT ![c].st = "offer"]
  /\ UNCHANGED <<loop, busy, wire, closeReq, nextID, dialing, conns, accept,
                 held, closed, closing, closes, readB, rcvd, writer>>

ContextExpires(c) ==
  /\ Alive(Caller(c))
  /\ c \in Expiring
  /\ dial[c].st \in {"offer", "wait"}
  /\ ~dial[c].expired
  /\ dial' = [dial EXCEPT ![c].expired = TRUE]
  /\ UNCHANGED <<loop, busy, wire, closeReq, nextID, dialing, conns, accept,
                 held, closed, closing, closes, readB, rcvd, writer>>

\* The loop has not taken the call: an expired context or a closed Mux ends it.
DialGivesUp(c) ==
  /\ Alive(Caller(c))
  /\ dial[c].st = "offer"
  /\ dial[c].expired \/ loop[Caller(c)] = "done"
  /\ dial' = [dial EXCEPT ![c].st = "err"]
  /\ UNCHANGED <<loop, busy, wire, closeReq, nextID, dialing, conns, accept,
                 held, closed, closing, closes, readB, rcvd, writer>>

AcceptContext(s) ==
  /\ Alive(s)
  /\ s \notin NoAccept
  /\ accept[s] # <<>>
  /\ held' = [held EXCEPT ![s] = @ \union {Head(accept[s])}]
  /\ accept' = [accept EXCEPT ![s] = Tail(@)]
  /\ UNCHANGED <<loop, busy, wire, closeReq, nextID, dial, dialing, conns,
                 closed, closing, closes, readB, rcvd, writer>>

\* One Write at a time on each child; the n-th payload carries the number n.
ChildWrite(s, i) ==
  /\ Alive(s)
  /\ i \in held[s]
  /\ writer[s][i].st = "idle"
  /\ writer[s][i].n < MaxWrites[s]
  /\ writer' = [writer EXCEPT ![s][i].st = "offer"]
  /\ UNCHANGED <<loop, busy, wire, closeReq, nextID, dial, dialing, conns,
                 accept, held, closed, closing, closes, readB, rcvd>>

\* The loop has not taken the write: a closed child ends it.
ChildWriteFails(s, i) ==
  /\ Alive(s)
  /\ writer[s][i].st = "offer"
  /\ i \in closed[s]
  /\ writer' = [writer EXCEPT ![s][i].st = "failed"]
  /\ UNCHANGED <<loop, busy, wire, closeReq, nextID, dial, dialing, conns,
                 accept, held, closed, closing, closes, readB, rcvd>>

\* Fault: Read leaves the payload it has copied in the buffer.
ChildReadKeeps(s, i) ==
  /\ Alive(s)
  /\ i \in held[s]
  /\ readB[s][i] # <<>>
  /\ rcvd' = [rcvd EXCEPT ![s][i] = Append(@, Head(readB[s][i]))]
  /\ UNCHANGED <<loop, busy, wire, closeReq, nextID, dial, dialing, conns,
                 accept, held, closed, closing, closes, readB, writer>>

\* Read of a whole payload; a Read that returns an error changes nothing.
ChildRead(s, i) ==
  /\ Alive(s)
  /\ i \in held[s]
  /\ readB[s][i] # <<>>
  /\ rcvd' = [rcvd EXCEPT ![s][i] = Append(@, Head(readB[s][i]))]
  /\ readB' = [readB EXCEPT ![s][i] = Tail(@)]
  /\ UNCHANGED <<loop, busy, wire, closeReq, nextID, dial, dialing, conns,
                 accept, held, closed, closing, closes, writer>>

\* The child is closed at once, a goroutine brings it to the loop.
ChildClose(s, i) ==
  /\ Alive(s)
  /\ i \in held[s]
  /\ closes[s][i] < MaxCloses[s]
  /\ closes' = [closes EXCEPT ![s][i] = @ + 1]
  /\ closed' = [closed EXCEPT ![s] = @ \union {i}]
  /\ closing' = [closing EXCEPT ![s][i] = @ + 1]
  /\ UNCHANGED <<loop, busy, wire, closeReq, nextID, dial, dialing, conns,
                 accept, held, readB, rcvd, writer>>

\* The goroutine of Close ends when the Mux has ended first.
ChildClosedLate(s, i) ==
  /\ loop[s] = "done"
  /\ closing[s][i] > 0
  /\ closing' = [closing EXCEPT ![s][i] = @ - 1]
  /\ UNCHANGED <<loop, busy, wire, closeReq, nextID, dial, dialing, conns,
                 accept, held, closed, closes, readB, rcvd, writer>>

MuxClose(s) ==
  /\ Alive(s)
  /\ s \in Closing
  /\ ~closeReq[s]
  /\ closeReq' = [closeReq EXCEPT ![s] = TRUE]
  /\ UNCHANGED <<loop, busy, wire, nextID, dial, dialing, conns, accept,
                 held, closed, closing, closes, readB, rcvd, writer>>

-----------------------------------------------------------------------------
(* Mux.loop: what it writes.                                               *)

\* The loop starts writing m; then says what happens after the write.
Send(s, m, then, c) ==
  /\ busy' = [busy EXCEPT ![s] = [m |-> m, then |-> then, call |-> c]]
  /\ loop' = [loop EXCEPT ![s] = "write"]

\* Takes the oldest message of the peer.
Take(s) == wire' = [wire EXCEPT ![Peer(s)] = Tail(@)]

Receives(s, t) ==
  /\ loop[s] = "select"
  /\ wire[Peer(s)] # <<>>
  /\ Head(wire[Peer(s)]).t = t

Received(s) == Head(wire[Peer(s)])

AfterWrite(s) == IF busy[s].then = "cleanup" THEN "cleanup" ELSE "select"

\* What WriteSucceeds does apart from the identifiers and the map o.dialing.
Written(s) ==
  /\ loop[s] = "write"
  /\ ~ConnEnded(Peer(s))
  /\ Len(wire[s]) < PipeCap
  /\ wire' = [wire EXCEPT ![s] = Append(@, busy[s].m)]
  /\ loop' = [loop EXCEPT ![s] = AfterWrite(s)]
  /\ busy' = [busy EXCEPT ![s] = NotBusy]
  /\ IF busy[s].then = "payload"
     THEN writer' = [writer EXCEPT ![s][busy[s].m.id] = [st |-> "idle", n |-> @.n + 1]]
     ELSE UNCHANGED writer
  /\ UNCHANGED <<closeReq, dial, conns, accept, held, closed, closing, closes,
                 readB, rcvd>>

\* The dial message of a call is on its way: its entry in o.dialing.
Dialed(s) ==
  dialing' = IF busy[s].then = "dial"
             THEN [dialing EXCEPT ![s] = @ \union {busy[s].call}] ELSE dialing

\* Fault: the next identifier is the next number, whichever the parity.
WriteSucceedsNextNumber(s) ==
  /\ Written(s) /\ Dialed(s)
  /\ nextID' = IF busy[s].then = "dial" THEN [nextID EXCEPT ![s] = @ + 1] ELSE nextID

\* The write is complete: the message is in the socket buffer.
WriteSucceeds(s) ==
  /\ Written(s) /\ Dialed(s)
  /\ nextID' = IF busy[s].then = "dial" THEN [nextID EXCEPT ![s] = @ + 2] ELSE nextID

\* The peer has closed the net.Conn.  A failed payload is reported to its
\* writer, a failed dial to its caller; all but a payload end the loop.
WriteFails(s) ==
  /\ loop[s] = "write"
  /\ ConnEnded(Peer(s))
  /\ loop' = [loop EXCEPT ![s] = CASE busy[s].then = "payload" -> "select"
                                   [] busy[s].then = "cleanup" -> "cleanup"
                                   [] OTHER -> "ending"]
  /\ busy' = [busy EXCEPT ![s] = NotBusy]
  /\ dial' = IF busy[s].then = "dial"
             THEN [dial EXCEPT ![busy[s].call].st = "err"] ELSE dial
  /\ writer' = IF busy[s].then = "payload"
               THEN [writer EXCEPT ![s][busy[s].m.id].st = "failed"] ELSE writer
  /\ UNCHANGED <<wire, closeReq, nextID, dialing, conns, accept, held,
                 closed, closing, closes, readB, rcvd>>

-----------------------------------------------------------------------------
(* Mux.loop: the calls it takes in its select.                             *)

\* case dial := <-o.onDial
LoopDial(c) ==
  LET s == Caller(c) IN
  /\ loop[s] = "select"
  /\ dial[c].st = "offer"
  /\ dial' = [dial EXCEPT ![c].st = "wait", ![c].id = nextID[s]]
  /\ Send(s, Msg("dial", nextID[s]), "dial", c)
  /\ UNCHANGED <<wire, closeReq, nextID, dialing, conns, accept, held, closed,
                 closing, closes, readB, rcvd, writer>>

\* case write := <-o.onWrite
LoopWrite(s, i) ==
  /\ loop[s] = "select"
  /\ writer[s][i].st = "offer"
  /\ IF i \in conns[s]
     THEN /\ writer' = [writer EXCEPT ![s][i].st = "wait"]
          /\ Send(s, Payload(i, writer[s][i].n + 1), "payload", NoCall)
     ELSE /\ writer' = [writer EXCEPT ![s][i].st = "failed"]
          /\ UNCHANGED <<loop, busy>>
  /\ UNCHANGED <<wire, closeReq, nextID, dial, dialing, conns, accept, held,
                 closed, closing, closes, readB, rcvd>>

\* Fault: the peer of a child closed by its program is not told.
LoopChildClosedSilent(s, i) ==
  /\ loop[s] = "select"
  /\ closing[s][i] > 0
  /\ closing' = [closing EXCEPT ![s][i] = @ - 1]
  /\ conns' = [conns EXCEPT ![s] = @ \ {i}]
  /\ UNCHANGED <<loop, busy, wire, closeReq, nextID, dial, dialing, accept,
                 held, closed, closes, readB, rcvd, writer>>

\* case child := <-o.onClose: the peer is told even if the map has no entry.
LoopChildClosed(s, i) ==
  /\ loop[s] = "select"
  /\ closing[s][i] > 0
  /\ closing' = [closing EXCEPT ![s][i] = @ - 1]
  /\ conns' = [conns EXCEPT ![s] = @ \ {i}]
  /\ Send(s, Msg("close", i), "loop", NoCall)
  /\ UNCHANGED <<wire, closeReq, nextID, dial, dialing, accept, held, closed,
                 closes, readB, rcvd, writer>>

\* case <-o.close
LoopClose(s) ==
  /\ loop[s] = "select"
  /\ closeReq[s]
  /\ loop' = [loop EXCEPT ![s] = "ending"]
  /\ UNCHANGED <<busy, wire, closeReq, nextID, dial, dialing, conns, accept,
                 held, closed, closing, closes, readB, rcvd, writer>>

-----------------------------------------------------------------------------
(* Mux.loop: handleMessage.                                                *)

\* The peer closed the net.Conn and its last message has been handled.
HandleEOF(s) ==
  /\ loop[s] = "select"
  /\ ConnEnded(Peer(s))
  /\ wire[Peer(s)] = <<>>
  /\ loop' = [loop EXCEPT ![s] = "ending"]
  /\ UNCHANGED <<busy, wire, closeReq, nextID, dial, dialing, conns, accept,
                 held, closed, closing, closes, readB, rcvd, writer>>

\* A dial: refused by a dial-only Mux, else offered to the accept channel
\* (loop "accept"; the answer is prepared in busy).
HandleDial(s) ==
  /\ Receives(s, "dial")
  /\ Take(s)
  /\ IF s \in NoAccept
     THEN Send(s, Msg("errChild", Received(s).id), "loop", NoCall)
     ELSE /\ busy' = [busy EXCEPT ![s] = [m |-> Msg("dialAck", Received(s).id),
                                          then |-> "loop", call |-> NoCall]]
          /\ loop' = [loop EXCEPT ![s] = "accept"]
  /\ UNCHANGED <<closeReq, nextID, dial, dialing, conns, accept, held, closed,
                 closing, closes, readB, rcvd, writer>>

\* case o.accept <- childConn
AcceptQueued(s) ==
  /\ loop[s] = "accept"
  /\ Len(accept[s]) < AcceptCap
  /\ accept' = [accept EXCEPT ![s] = Append(@, busy[s].m.id)]
  /\ conns' = [conns EXCEPT ![s] = @ \union {busy[s].m.id}]
  /\ loop' = [loop EXCEPT ![s] = "write"]
  /\ UNCHANGED <<busy, wire, closeReq, nextID, dial, dialing, held, closed,
                 closing, closes, readB, rcvd, writer>>

\* Fault: the time-out drops the dial without an answer.
AcceptTimesOutSilent(s) ==
  /\ loop[s] = "accept"
  /\ Len(accept[s]) >= AcceptCap
  /\ loop' = [loop EXCEPT ![s] = "select"]
  /\ busy' = [busy EXCEPT ![s] = NotBusy]
  /\ UNCHANGED <<wire, closeReq, nextID, dial, dialing, conns, accept, held,
                 closed, closing, closes, readB, rcvd, writer>>

\* Fault: the child that timed out is queued all the same.
AcceptTimesOutQueued(s) ==
  /\ loop[s] = "accept"
  /\ Len(accept[s]) >= AcceptCap
  /\ accept' = [accept EXCEPT ![s] = Append(@, busy[s].m.id)]
  /\ Send(s, Msg("errChild", busy[s].m.id), "loop", NoCall)
  /\ UNCHANGED <<wire, closeReq, nextID, dial, dialing, conns, held, closed,
                 closing, closes, readB, rcvd, writer>>

\* case <-acceptTimeout.C: the channel stayed full for a second.
AcceptTimesOut(s) ==
  /\ loop[s] = "accept"
  /\ Len(accept[s]) >= AcceptCap
  /\ Send(s, Msg("errChild", busy[s].m.id), "loop", NoCall)
  /\ UNCHANGED <<wire, closeReq, nextID, dial, dialing, conns, accept, held,
                 closed, closing, closes, readB, rcvd, writer>>

\* The calls that wait under identifier i in the map o.dialing.
DialingAs(s, i) == {c \in dialing[s] : dial[c].id = i}

\* A dial is acknowledged: the caller gets the connection.  A ready channel
\* that is closed a second time is a panic, which ends the process.
HandleDialAck(s) ==
  /\ Receives(s, "dialAck")
  /\ Take(s)
  /\ LET i == Received(s).id
         C == DialingAs(s, i)
     IN IF C = {}
        THEN /\ Send(s, Msg("errChild", i), "loop", NoCall)
             /\ UNCHANGED <<dial, dialing, conns, held>>
        ELSE /\ dialing' = [dialing EXCEPT ![s] = @ \ C]
             /\ conns' = [conns EXCEPT ![s] = @ \union {i}]
             /\ held' = [held EXCEPT ![s] = @ \union {i}]
             /\ dial' = [c \in Call |-> IF c \in C THEN [dial[c] EXCEPT !.st = "ok"]
                                        ELSE dial[c]]
             /\ UNCHANGED busy
             /\ loop' = IF \A c \in C : dial[c].st = "wait" THEN loop
                        ELSE [loop EXCEPT ![s] = "panic"]
  /\ UNCHANGED <<closeReq, nextID, accept, closed, closing, closes, readB,
                 rcvd, writer>>

\* Fault: an error about an unknown connection is answered with another one.
HandleErrChildReplies(s) ==
  /\ Receives(s, "errChild")
  /\ Take(s)
  /\ Send(s, Msg("errChild", Received(s).id), "loop", NoCall)
  /\ UNCHANGED <<closeReq, nextID, dial, dialing, conns, accept, held, closed,
                 closing, closes, readB, rcvd, writer>>

\* An error about one connection: a known child is closed and the peer told;
\* a waiting dial is answered and stays in the map; else nothing happens.
HandleErrChild(s) ==
  /\ Receives(s, "errChild")
  /\ Take(s)
  /\ LET i == Received(s).id
         C == DialingAs(s, i)
     IN IF i \in conns[s]
        THEN /\ closed' = [closed EXCEPT ![s] = @ \union {i}]
             /\ conns' = [conns EXCEPT ![s] = @ \ {i}]
             /\ Send(s, Msg("close", i), "loop", NoCall)
             /\ UNCHANGED dial
        ELSE /\ dial' = [c \in Call |-> IF c \in C THEN [dial[c] EXCEPT !.st = "err"]
                                        ELSE dial[c]]
             /\ loop' = IF \A c \in C : dial[c].st = "wait" THEN loop
                        ELSE [loop EXCEPT ![s] = "panic"]
             /\ UNCHANGED <<busy, closed, conns>>
  /\ UNCHANGED <<closeReq, nextID, dialing, accept, held, closing, closes,
                 readB, rcvd, writer>>

\* Fault: a close message removes the map entry, the child stays open.
HandleCloseForgets(s) ==
  /\ Receives(s, "close")
  /\ Take(s)
  /\ conns' = [conns EXCEPT ![s] = @ \ {Received(s).id}]
  /\ UNCHANGED <<loop, busy, closeReq, nextID, dial, dialing, accept, held,
                 closed, closing, closes, readB, rcvd, writer>>

\* A close for a known child closes it; for an unknown one the peer is told.
HandleClose(s) ==
  /\ Receives(s, "close")
  /\ Take(s)
  /\ LET i == Received(s).id
     IN IF i \in conns[s]
        THEN /\ closed' = [closed EXCEPT ![s] = @ \union {i}]
             /\ conns' = [conns EXCEPT ![s] = @ \ {i}]
             /\ UNCHANGED <<loop, busy>>
        ELSE /\ Send(s, Msg("errChild", i), "loop", NoCall)
             /\ UNCHANGED <<closed, conns>>
  /\ UNCHANGED <<closeReq, nextID, dial, dialing, accept, held, closing,
                 closes, readB, rcvd, writer>>

\* Fault: a payload overtakes those in the read buffer.
HandlePayloadFirst(s) ==
  /\ Receives(s, "payload")
  /\ Take(s)
  /\ readB' = [readB EXCEPT ![s][Received(s).id] = <<Received(s).n>> \o @]
  /\ UNCHANGED <<loop, busy, closeReq, nextID, dial, dialing, conns, accept,
                 held, closed, closing, closes, rcvd, writer>>

\* A payload goes to the read buffer of a known child, else the peer is told.
HandlePayload(s) ==
  /\ Receives(s, "payload")
  /\ Take(s)
  /\ LET i == Received(s).id
     IN IF i \in conns[s]
        THEN /\ readB' = [readB EXCEPT ![s][i] = Append(@, Received(s).n)]
             /\ UNCHANGED <<loop, busy>>
        ELSE /\ Send(s, Msg("errChild", i), "loop", NoCall)
             /\ UNCHANGED readB
  /\ UNCHANGED <<closeReq, nextID, dial, dialing, conns, accept, held, closed,
                 closing, closes, rcvd, writer>>

-----------------------------------------------------------------------------
(* Mux.loop: the deferred cleanup.                                         *)

\* Every call still in o.dialing gets the final error through its ready
\* channel; closing one that is closed already is a panic.
CleanupDials(s) ==
  /\ loop[s] = "ending"
  /\ dialing' = [dialing EXCEPT ![s] = {}]
  /\ IF \A c \in dialing[s] : dial[c].st = "wait"
     THEN /\ dial' = [c \in Call |-> IF c \in dialing[s]
                                     THEN [dial[c] EXCEPT !.st = "err"] ELSE dial[c]]
          /\ loop' = [loop EXCEPT ![s] = "cleanup"]
     ELSE /\ loop' = [loop EXCEPT ![s] = "panic"]
          /\ UNCHANGED dial
  /\ UNCHANGED <<busy, wire, closeReq, nextID, conns, accept, held, closed,
                 closing, closes, readB, rcvd, writer>>

\* Every child is closed and the peer told, in the order of the map iteration.
CleanupChild(s, i) ==
  /\ loop[s] = "cleanup"
  /\ i \in conns[s]
  /\ closed' = [closed EXCEPT ![s] = @ \union {i}]
  /\ conns' = [conns EXCEPT ![s] = @ \ {i}]
  /\ Send(s, Msg("close", i), "cleanup", NoCall)
  /\ UNCHANGED <<wire, closeReq, nextID, dial, dialing, accept, held, closing,
                 closes, readB, rcvd, writer>>

\* The net.Conn and o.closed are closed; unread messages are lost.
CleanupEnds(s) ==
  /\ loop[s] = "cleanup"
  /\ conns[s] = {}
  /\ loop' = [loop EXCEPT ![s] = "done"]
  /\ wire' = [wire EXCEPT ![Peer(s)] = <<>>]
  /\ UNCHANGED <<busy, closeReq, nextID, dial, dialing, conns, accept, held,
                 closed, closing, closes, readB, rcvd, writer>>

-----------------------------------------------------------------------------
HandleMessage(s) ==
  \/ HandleDial(s)
  \/ HandleDialAck(s)
  \/ HandleErrChild(s)
  \/ HandleClose(s)
  \/ HandlePayload(s)
  \/ HandleEOF(s)

LoopStep(s) ==
  \/ WriteSucceeds(s)
  \/ WriteFails(s)
  \/ \E c \in Call : Caller(c) = s /\ LoopDial(c)
  \/ \E i \in Id : LoopWrite(s, i) \/ LoopChildClosed(s, i)
  \/ LoopClose(s)
  \/ HandleMessage(s)
  \/ AcceptQueued(s)
  \/ AcceptTimesOut(s)
  \/ CleanupDials(s)
  \/ \E i \in Id : CleanupChild(s, i)
  \/ CleanupEnds(s)

ProgramStep ==
  \/ \E c \in Call : DialContext(c) \/ ContextExpires(c)
  \/ \E s \in Side : AcceptContext(s) \/ MuxClose(s)
  \/ \E s \in Side, i \in Id :
       ChildWrite(s, i) \/ ChildRead(s, i) \/ ChildClose(s, i)

\* Calls that return by themselves.
CallStep ==
  \/ \E c \in Call : DialGivesUp(c)
  \/ \E s \in Side, i \in Id : ChildWriteFails(s, i) \/ ChildClosedLate(s, i)

Next == ProgramStep \/ CallStep \/ \E s \in Side : LoopStep(s)

Spec == Init /\ [][Next]_vars

\* The two loops run and blocked calls that can return do; nothing is assumed
\* of the programs, which may stop reading, accepting or calling at any time.
Fairness == WF_vars(CallStep) /\ \A s \in Side : WF_vars(LoopStep(s))

FairSpec == Spec /\ Fairness

=============================================================================
