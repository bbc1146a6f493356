------------------------- MODULE ConnMuxProperties --------------------------
(***************************************************************************)
(* What two joined Muxes must guarantee, over the state of ConnMux.        *)
(***************************************************************************)
EXTENDS ConnMux

Children(s) == held[s] \union Queued(s)

TypeOK ==
  /\ loop \in [Side -> {"select", "write", "accept", "ending", "cleanup",
                        "done", "panic"}]
  /\ closeReq \in [Side -> BOOLEAN]
  /\ \A s \in Side : nextID[s] \in Id /\ Len(wire[s]) <= PipeCap
  /\ \A c \in Call : /\ dial[c].st \in {"idle", "offer", "wait", "ok", "err"}
                     /\ dial[c].id \in Id
  /\ \A s \in Side : dialing[s] \subseteq Call
  /\ conns \in [Side -> SUBSET Id] /\ held \in [Side -> SUBSET Id]
  /\ closed \in [Side -> SUBSET Id]
  /\ \A s \in Side : Len(accept[s]) <= AcceptCap
  /\ \A s \in Side, i \in Id :
       /\ writer[s][i].st \in {"idle", "offer", "wait", "failed"}
       /\ writer[s][i].n \in 0 .. MaxWrites[s]
       /\ Len(rcvd[s][i]) <= MaxWrites[Peer(s)]

\* An identifier that waits for an answer names no connection of its side and
\* no other call: an incoming dial, numbered by the peer, never takes the
\* entry of an outgoing one in idsToConns or the other way round.
FreshIdentifiers ==
  /\ \A s \in Side : \A c \in dialing[s] : dial[c].id \notin conns[s] \union Children(s)
  /\ \A c, d \in Call : c # d /\ {dial[c].st, dial[d].st} \subseteq {"wait", "ok"}
                        => dial[c].id # dial[d].id

\* A child the program can see and that left idsToConns is closed: no Read
\* or Write on it can wait for messages that the loop no longer routes.
UnroutedIsClosed ==
  \A s \in Side : Alive(s) => Children(s) \subseteq conns[s] \union closed[s]

\* A dial the peer refused never reaches the peer's AcceptContext: the
\* time-out of acceptDial and the send on the accept channel exclude each other.
RefusedNotAccepted ==
  \A s \in Side : \A c \in dialing[s] :
    dial[c].st = "err" => dial[c].id \notin Children(Peer(s))

PayloadsFor(s, i) ==
  {k \in 1 .. Len(wire[s]) : wire[s][k].t = "payload" /\ wire[s][k].id = i}

\* As long as a side routes a connection, its read buffer and the messages on
\* their way hold exactly the payloads written and not yet read, in order:
\* what was received is numbered 1, 2, ..., and what is on the wire continues
\* that up to the last payload written.
NothingLostWhileRouted ==
  \A s \in Side : \A i \in conns[s] :
    LET p == Peer(s)
        got == rcvd[s][i] \o readB[s][i]
        n == writer[p][i].n
    IN /\ \A k \in 1 .. Len(got) : got[k] = k
       /\ Len(got) <= n
       /\ {wire[p][k].n : k \in PayloadsFor(p, i)} = Len(got) + 1 .. n
       /\ \A j, k \in PayloadsFor(p, i) : j < k => wire[p][j].n < wire[p][k].n

\* The Muxes implement MuxService: dials are answered once and only for
\* connections the peer queued; reads return what was written, in order.
Service ==
  INSTANCE MuxService WITH
    answer <- [c \in Call |-> CASE dial[c].st = "idle" -> "idle"
                                [] dial[c].st = "ok" -> "conn"
                                [] dial[c].st = "err" -> "error"
                                [] OTHER -> "none"],
    backlog <- accept,
    sent <- [s \in Side |-> [i \in Id |-> writer[s][i].n]]

ImplementsService == Service!Spec

\* Every call of DialContext returns, whatever the peer's program does: it is
\* accepted, refused after a second, or fails with the Mux.
DialsAnswered ==
  \A c \in Call :
    dial[c].st \in {"offer", "wait"}
      ~> dial[c].st \in {"ok", "err"} \/ ~Alive(Caller(c))

\* A child closed on one side is closed on the other in the end, through a
\* close message or the end of the Mux.
CloseReachesPeer ==
  \A s \in Side, i \in Id :
    i \in closed[s] /\ i \in Children(Peer(s))
      ~> i \in closed[Peer(s)] \/ ~Alive(Peer(s))

\* Replies about unknown connections do not answer each other for ever: when
\* the programs stop calling, the loops fall silent with nothing in between.
Quiesces ==
  <>[](\A s \in Side : /\ loop[s] \in {"select", "done", "panic"}
                       /\ loop[s] = "select" => wire[Peer(s)] = <<>>)

\* Mux.Close returns (connmux.go: "Close closes the Mux and any remaining open
\* connections"): the loop reaches its end and closes o.closed.
CloseReturns == \A s \in Side : closeReq[s] ~> ~Alive(s) \/ loop[s] = "done"

\* A close takes effect: on the other side for a child, here for the Mux.
CloseTakesEffect == CloseReachesPeer /\ CloseReturns

\* Closing a Mux, or losing its peer, ends its loop in an orderly way: it
\* never crashes the process by closing the ready channel of a dial twice. The
\* code does not keep this: a refused dial stays in the dialing map.
LoopEndsOrderly == \A s \in Side : loop[s] # "panic"
=============================================================================
