---------------------------- MODULE MuxHandshake ----------------------------
(***************************************************************************)
(* The handshake of internal/connmux: two Muxes joined by one net.Conn     *)
(* agree which of them numbers its outgoing connections with even and      *)
(* which with odd identifiers.  Each side writes a random byte; on a tie   *)
(* both write another one; otherwise the smaller number takes the odd      *)
(* identifiers and each side acknowledges the other.  startMux waits for   *)
(* the acknowledgement, the caller's context or a 5 second timer.          *)
(*                                                                         *)
(* A direction of the net.Conn and the goroutine readConnMuxMessage that   *)
(* drains it form one FIFO, wire[s], written by s and read by its peer.    *)
(* The branch for an empty handshake payload needs a peer that is not this *)
(* code and is left out.                                                   *)
(***************************************************************************)
EXTENDS Naturals, Sequences

CONSTANT MaxNum         \* the largest number a handshake can carry (uint8)

ASSUME MaxNumAssumption == MaxNum \in Nat

Num == 0 .. MaxNum

Side == {"client", "server"}

Peer(s) == IF s = "client" THEN "server" ELSE "client"

VARIABLES
  num,      \* ourNum of each side
  nextID,   \* first identifier each side would dial with: 0 or 1
  hsDone,   \* the peer's acknowledgement was handled (hsComplete is closed)
  wire,     \* wire[s]: messages written by s and not yet handled by its peer
  loop,     \* the goroutine Mux.loop of each side
  start     \* the call of startMux of each side

handshakeVars == <<num, nextID, hsDone, wire, loop, start>>

Handshake(n) == [t |-> "handshake", n |-> n]
Ack == [t |-> "ack", n |-> 0]
Message == [t : {"handshake", "ack"}, n : Num]

HandshakeInit ==
  /\ num = [s \in Side |-> 0]
  /\ nextID = [s \in Side |-> 0]
  /\ hsDone = [s \in Side |-> FALSE]
  /\ wire = [s \in Side |-> <<>>]
  /\ loop = [s \in Side |-> "send"]
  /\ start = [s \in Side |-> "wait"]

-----------------------------------------------------------------------------
(* Writing to the net.Conn.                                                *)

\* The write succeeds unless the peer has closed its end; a failed write
\* ends the loop.
Write(s, ms) ==
  \/ /\ wire' = [wire EXCEPT ![s] = @ \o ms]
     /\ loop' = [loop EXCEPT ![s] = "run"]
  \/ /\ loop[Peer(s)] = "closed"
     /\ loop' = [loop EXCEPT ![s] = "closed"]
     /\ UNCHANGED wire

\* Takes the oldest message of the peer and writes ms in answer.
Answer(s, ms) ==
  \/ /\ wire' = [wire EXCEPT ![Peer(s)] = Tail(@), ![s] = @ \o ms]
     /\ UNCHANGED loop
  \/ /\ loop[Peer(s)] = "closed"
     /\ ms # <<>>
     /\ loop' = [loop EXCEPT ![s] = "closed"]
     /\ wire' = [wire EXCEPT ![Peer(s)] = Tail(@)]

-----------------------------------------------------------------------------
(* The steps of Mux.loop that belong to the handshake.                     *)

\* The first thing the loop does: ourNum is drawn before it is written.
SendHandshake(s) ==
  /\ loop[s] = "send"
  /\ \E n \in Num :
       /\ num' = [num EXCEPT ![s] = n]
       /\ Write(s, <<Handshake(n)>>)
  /\ UNCHANGED <<nextID, hsDone, start>>

Receives(s, t) ==
  /\ loop[s] = "run"
  /\ wire[Peer(s)] # <<>>
  /\ Head(wire[Peer(s)]).t = t

\* Fault: a tie is acknowledged like a decision.
HandshakeTieAccepted(s) ==
  /\ Receives(s, "handshake")
  /\ Head(wire[Peer(s)]).n = num[s]
  /\ Answer(s, <<Ack>>)
  /\ UNCHANGED <<num, nextID, hsDone, start>>

\* Fault: the redrawn number follows an acknowledgement of the tie.
HandshakeTieAcknowledged(s) ==
  /\ Receives(s, "handshake")
  /\ ~hsDone[s]
  /\ Head(wire[Peer(s)]).n = num[s]
  /\ \E n \in Num :
       /\ num' = [num EXCEPT ![s] = n]
       /\ Answer(s, <<Ack, Handshake(n)>>)
  /\ UNCHANGED <<nextID, hsDone, start>>

\* Both sides drew the same number: draw again.
HandshakeTie(s) ==
  /\ Receives(s, "handshake")
  /\ ~hsDone[s]
  /\ Head(wire[Peer(s)]).n = num[s]
  /\ \E n \in Num :
       /\ num' = [num EXCEPT ![s] = n]
       /\ Answer(s, <<Handshake(n)>>)
  /\ UNCHANGED <<nextID, hsDone, start>>

\* The numbers differ: the smaller one dials with odd identifiers.
HandshakeDecided(s) ==
  /\ Receives(s, "handshake")
  /\ ~hsDone[s]
  /\ Head(wire[Peer(s)]).n # num[s]
  /\ nextID' = IF num[s] < Head(wire[Peer(s)]).n
               THEN [nextID EXCEPT ![s] = 1]
               ELSE nextID
  /\ Answer(s, <<Ack>>)
  /\ UNCHANGED <<num, hsDone, start>>

HandshakeAck(s) ==
  /\ Receives(s, "ack")
  /\ hsDone' = [hsDone EXCEPT ![s] = TRUE]
  /\ Answer(s, <<>>)
  /\ UNCHANGED <<num, nextID, start>>

\* The peer closed its end and everything it wrote has been read.
ReadEOF(s) ==
  /\ loop[s] = "run"
  /\ loop[Peer(s)] = "closed"
  /\ wire[Peer(s)] = <<>>
  /\ loop' = [loop EXCEPT ![s] = "closed"]
  /\ UNCHANGED <<num, nextID, hsDone, wire, start>>

\* Fault: the loop looks at o.close only once the handshake is complete.
LoopCloseAfterHandshake(s) ==
  /\ loop[s] = "run"
  /\ start[s] = "closing"
  /\ hsDone[s]
  /\ loop' = [loop EXCEPT ![s] = "closed"]
  /\ UNCHANGED <<num, nextID, hsDone, wire, start>>

\* The loop sees that Close was called, by startMux or by the owner of a
\* started Mux, and runs its deferred cleanup.
LoopClose(s) ==
  /\ loop[s] = "run"
  /\ start[s] \in {"closing", "ownerClosed"}
  /\ loop' = [loop EXCEPT ![s] = "closed"]
  /\ UNCHANGED <<num, nextID, hsDone, wire, start>>

-----------------------------------------------------------------------------
(* startMux and the caller that owns the Mux.                              *)

StartOK(s) ==
  /\ start[s] = "wait"
  /\ hsDone[s]
  /\ start' = [start EXCEPT ![s] = "ok"]
  /\ UNCHANGED <<num, nextID, hsDone, wire, loop>>

\* The context is done or the timer fired: startMux closes the Mux ...
StartGivesUp(s) ==
  /\ start[s] = "wait"
  /\ start' = [start EXCEPT ![s] = "closing"]
  /\ UNCHANGED <<num, nextID, hsDone, wire, loop>>

\* ... and returns an error when the loop has ended.
StartFailed(s) ==
  /\ start[s] = "closing"
  /\ loop[s] = "closed"
  /\ start' = [start EXCEPT ![s] = "failed"]
  /\ UNCHANGED <<num, nextID, hsDone, wire, loop>>

\* The owner of a started Mux calls Close.
OwnerClose(s) ==
  /\ start[s] = "ok"
  /\ start' = [start EXCEPT ![s] = "ownerClosed"]
  /\ UNCHANGED <<num, nextID, hsDone, wire, loop>>

LoopStep(s) ==
  \/ SendHandshake(s)
  \/ HandshakeTie(s)
  \/ HandshakeDecided(s)
  \/ HandshakeAck(s)
  \/ ReadEOF(s)

HandshakeNext ==
  \E s \in Side :
    \/ LoopStep(s)
    \/ LoopClose(s)
    \/ StartOK(s)
    \/ StartGivesUp(s)
    \/ StartFailed(s)
    \/ OwnerClose(s)

HandshakeSpec == HandshakeInit /\ [][HandshakeNext]_handshakeVars

\* The goroutines run; select eventually takes a ready o.close, since it
\* picks among the ready cases at random; the timer of startMux fires.
HandshakeFairness ==
  \A s \in Side :
    /\ WF_handshakeVars(LoopStep(s))
    /\ WF_handshakeVars(LoopClose(s))
    /\ WF_handshakeVars(StartOK(s) \/ StartGivesUp(s))
    /\ WF_handshakeVars(StartFailed(s))

FairHandshake == HandshakeSpec /\ HandshakeFairness

-----------------------------------------------------------------------------
HandshakeTypeOK ==
  /\ num \in [Side -> Num]
  /\ nextID \in [Side -> {0, 1}]
  /\ hsDone \in [Side -> BOOLEAN]
  /\ wire \in [Side -> Seq(Message)]
  /\ loop \in [Side -> {"send", "run", "closed"}]
  /\ start \in [Side -> {"wait", "ok", "closing", "failed", "ownerClosed"}]

\* When both sides have seen the peer's acknowledgement, exactly one of them
\* numbers its connections with odd identifiers, whatever ties came before:
\* newID + 2 then never produces an identifier the peer also produces.
DistinctParity ==
  hsDone["client"] /\ hsDone["server"] => nextID["client"] # nextID["server"]

\* A side that may dial has taken its parity from the two numbers that are
\* final: the peer's number was handled before the peer's acknowledgement,
\* and neither side draws again, even if the peer has since closed.
ParityDecided ==
  \A s \in Side :
    hsDone[s] => nextID[s] = IF num[s] < num[Peer(s)] THEN 1 ELSE 0

\* No handshake follows an acknowledgement: the early return for a handshake
\* that arrives when hsDone is set never runs between two of these Muxes,
\* so dropping it cannot leave the peer without an answer.
NoLateHandshake ==
  \A s \in Side :
    hsDone[s] => \A i \in 1 .. Len(wire[Peer(s)]) :
                   wire[Peer(s)][i].t # "handshake"

\* Every startMux returns: the handshake completes, or the timer closes the
\* Mux and the loop notices, even when every number drawn is a tie.
StartReturns == \A s \in Side : <>(start[s] \notin {"wait", "closing"})

=============================================================================
