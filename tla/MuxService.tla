----------------------------- MODULE MuxService -----------------------------
(***************************************************************************)
(* What a pair of joined Muxes promises to the programs on its two sides:  *)
(* a dial is answered once, a dial that succeeds names a connection its    *)
(* peer has queued for AcceptContext, and what is read from a connection   *)
(* is what the peer wrote to it, in order and without gaps.                *)
(***************************************************************************)
EXTENDS Naturals, Sequences

CONSTANTS
  ClientCalls,   \* calls of DialContext on the client's Mux
  ServerCalls,   \* calls of DialContext on the server's Mux
  Id             \* connection identifiers (sAddr)

Side == {"client", "server"}
Peer(s) == IF s = "client" THEN "server" ELSE "client"
Call == ClientCalls \union ServerCalls
Caller(c) == IF c \in ClientCalls THEN "client" ELSE "server"

VARIABLES
  answer,    \* answer[c]: what the call c of DialContext has returned, if made
  backlog,   \* backlog[s]: connections waiting for AcceptContext, oldest first
  held,      \* held[s]: connections the program on side s has been given
  sent,      \* sent[s][i]: payloads s put on connection i
  rcvd       \* rcvd[s][i]: the numbers of the payloads s read from connection i

vars == <<answer, backlog, held, sent, rcvd>>

Queued(s) == {backlog[s][k] : k \in 1 .. Len(backlog[s])}

Init ==
  /\ answer = [c \in Call |-> "idle"]
  /\ backlog = [s \in Side |-> <<>>]
  /\ held = [s \in Side |-> {}]
  /\ sent = [s \in Side |-> [i \in Id |-> 0]]
  /\ rcvd = [s \in Side |-> [i \in Id |-> <<>>]]

Ask(c) ==
  /\ answer[c] = "idle"
  /\ answer' = [answer EXCEPT ![c] = "none"]
  /\ UNCHANGED <<backlog, held, sent, rcvd>>

\* A connection reaches the queue of s because the peer's program asked for
\* one; its own side may have failed the call meanwhile, by ending.
Enqueue(s, i) ==
  /\ \E c \in Call : Caller(c) = Peer(s) /\ answer[c] \in {"none", "error"}
  /\ \A r \in Side : i \notin held[r] \union Queued(r)
  /\ backlog' = [backlog EXCEPT ![s] = Append(@, i)]
  /\ UNCHANGED <<answer, held, sent, rcvd>>

Accept(s) ==
  /\ backlog[s] # <<>>
  /\ held' = [held EXCEPT ![s] = @ \union {Head(backlog[s])}]
  /\ backlog' = [backlog EXCEPT ![s] = Tail(@)]
  /\ UNCHANGED <<answer, sent, rcvd>>

\* The dial succeeds: the peer has the connection, the caller gets it once.
Connected(c, i) ==
  /\ answer[c] = "none"
  /\ i \in held[Peer(Caller(c))] \union Queued(Peer(Caller(c)))
  /\ i \notin held[Caller(c)]
  /\ answer' = [answer EXCEPT ![c] = "conn"]
  /\ held' = [held EXCEPT ![Caller(c)] = @ \union {i}]
  /\ UNCHANGED <<backlog, sent, rcvd>>

\* Several dials may fail at once, when a Mux ends.
Failed(C) ==
  /\ \A c \in C : answer[c] = "none"
  /\ answer' = [c \in Call |-> IF c \in C THEN "error" ELSE answer[c]]
  /\ UNCHANGED <<backlog, held, sent, rcvd>>

Put(s, i) ==
  /\ i \in held[s]
  /\ sent' = [sent EXCEPT ![s][i] = @ + 1]
  /\ UNCHANGED <<answer, backlog, held, rcvd>>

Get(s, i) ==
  /\ i \in held[s]
  /\ Len(rcvd[s][i]) < sent[Peer(s)][i]
  /\ rcvd' = [rcvd EXCEPT ![s][i] = Append(@, Len(@) + 1)]
  /\ UNCHANGED <<answer, backlog, held, sent>>

Next ==
  \/ \E c \in Call : Ask(c)
  \/ \E s \in Side : Accept(s)
  \/ \E s \in Side, i \in Id : Enqueue(s, i) \/ Put(s, i) \/ Get(s, i)
  \/ \E c \in Call, i \in Id : Connected(c, i)
  \/ \E C \in SUBSET Call : Failed(C)

Spec == Init /\ [][Next]_vars

=============================================================================
