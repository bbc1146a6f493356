---------------------------- MODULE ConnMuxProofs ----------------------------
(***************************************************************************)
(* Proofs about two joined Muxes, for any calls, capacities and bounds.    *)
(*                                                                         *)
(* Both sides number their dials themselves, so everything rests on what   *)
(* an identifier can mean at each place it occurs in: who has issued it    *)
(* (Numbers, Calls), which children carry it (Families), what the messages *)
(* that carry it say of the side that sent them (Messages), and how the    *)
(* payloads that carry it follow each other (Order).                       *)
(***************************************************************************)
EXTENDS ConnMuxProperties, SequenceTheorems, FiniteSetTheorems, TLAPS

(* An identifier that s gives to its dials, and one that a side has put    *)
(* into a dial message.                                                    *)
Mine(s, i) == i % 2 = nextID[s] % 2
Issued(i) == \E r \in Side : Mine(r, i) /\ i < nextID[r]

(* The messages that s sent, the one that it is writing included.          *)
Wired(s, t, i) == \E k \in 1 .. Len(wire[s]) : wire[s][k].t = t /\ wire[s][k].id = i
Sent(s, t, i) ==
  Wired(s, t, i) \/ (loop[s] = "write" /\ busy[s].m.t = t /\ busy[s].m.id = i)

(* acceptDial of s waits to queue child i.                                 *)
Accepting(s, i) == loop[s] = "accept" /\ busy[s].m.id = i

(* The calls of s that the loop has taken.                                 *)
Begun(s) == {c \in Call : Caller(c) = s /\ dial[c].st \notin {"idle", "offer"}}

(* The two sides number with different parities, and no side has issued    *)
(* more identifiers than it has taken calls.                               *)
Numbers ==
  /\ nextID["client"] % 2 # nextID["server"] % 2
  /\ \A s \in Side :
       nextID[s] + (IF busy[s].then = "dial" THEN 2 ELSE 0) <= 1 + 2 * Cardinality(Begun(s))

(* What a loop that writes is about.                                       *)
WritingOf(s) ==
  /\ loop[s] \notin {"write", "accept"} => busy[s] = NotBusy
  /\ loop[s] = "accept" => busy[s].then = "loop" /\ busy[s].m.t = "dialAck"
  /\ loop[s] = "write" => /\ busy[s].then \in {"dial", "payload", "loop", "cleanup"}
                          /\ busy[s].m.t # "none"
  /\ (loop[s] = "write" /\ busy[s].m.t = "dial") <=> busy[s].then = "dial"
  /\ (loop[s] = "write" /\ busy[s].m.t = "payload") <=> busy[s].then = "payload"
  /\ busy[s].then = "dial" =>
       /\ busy[s].m.id = nextID[s]
       /\ busy[s].call \in Call \ dialing[s]
       /\ Caller(busy[s].call) = s
       /\ dial[busy[s].call].st = "wait" /\ dial[busy[s].call].id = nextID[s]
  /\ busy[s].then = "payload" =>
       /\ writer[s][busy[s].m.id].st = "wait"
       /\ busy[s].m.n = writer[s][busy[s].m.id].n + 1
Writing == \A s \in Side : WritingOf(s)

(* A call has its identifier for itself, among those of its side.          *)
Numbered(c) == dial[c].st \in {"wait", "ok"} \/ c \in dialing[Caller(c)]
Calls ==
  /\ \A s \in Side : \A c \in dialing[s] : Caller(c) = s /\ dial[c].st \in {"wait", "err"}
  /\ \A c \in Call : Numbered(c) =>
       /\ Mine(Caller(c), dial[c].id)
       /\ \/ dial[c].id < nextID[Caller(c)]
          \/ busy[Caller(c)].then = "dial" /\ busy[Caller(c)].call = c
  /\ \A c, d \in Call :
       (Numbered(c) /\ Numbered(d) /\ Caller(c) = Caller(d) /\ dial[c].id = dial[d].id) => c = d
  /\ \A s \in Side : loop[s] \in {"cleanup", "done"} \/ busy[s].then = "cleanup"
                       => dialing[s] = {}

(* A child is routed or closed; its identifier was issued, and no call     *)
(* waits under it.                                                         *)
FamiliesOf(s) ==
  /\ Children(s) = conns[s] \union closed[s]
  /\ \A i \in Children(s) : Issued(i)
  /\ \A c \in dialing[s] : dial[c].id \notin Children(s)
  /\ \A i \in Id :
       /\ closing[s][i] > 0 => i \in closed[s]
       /\ writer[s][i].st # "idle" \/ writer[s][i].n > 0 => i \in held[s]
       /\ rcvd[s][i] # <<>> \/ readB[s][i] # <<>> => i \in Children(s)
Families == \A s \in Side : FamiliesOf(s)

(* A dial that its peer has not answered: nobody has the connection yet,   *)
(* and the call that asked for it has not got one.                         *)
Unanswered(s, i) ==
  /\ Mine(s, i) /\ Issued(i)
  /\ i \notin Children(s) \union Children(Peer(s))
  /\ \E c \in Call : Caller(c) = s /\ dial[c].id = i /\ dial[c].st \in {"wait", "err"}

(* The peer has refused it.                                                *)
Refused(s, i) ==
  /\ i \notin Children(Peer(s))
  /\ ~Wired(s, "dial", i)
  /\ ~Accepting(Peer(s), i)

(* What can be said of the identifiers in the messages of s, and of those  *)
(* that its calls wait under.                                              *)
MessagesOf(s) ==
  /\ \A k \in 1 .. Len(wire[s]) : Issued(wire[s][k].id)
  /\ loop[s] = "write" /\ busy[s].then # "dial" => Issued(busy[s].m.id)
  /\ \A i \in Id : Wired(s, "dial", i) => Unanswered(s, i) /\ ~Accepting(Peer(s), i)
  /\ \A i \in Id : Accepting(Peer(s), i) => Unanswered(s, i)
  /\ \A j, k \in 1 .. Len(wire[s]) :
       wire[s][j].t = "dial" /\ wire[s][k].t = "dial" /\ wire[s][j].id = wire[s][k].id => j = k
  /\ \A i \in Id : \A t \in {"dialAck", "payload", "close"} : Sent(s, t, i) => i \in Children(s)
  /\ \A c \in dialing[s] :
       dial[c].st = "err" \/ Sent(Peer(s), "errChild", dial[c].id) => Refused(s, dial[c].id)
Messages == \A s \in Side : MessagesOf(s)

(* Payloads are received in the order they were written in.                *)
Got(s, i) == Len(rcvd[s][i]) + Len(readB[s][i])
Counted(s, i) ==
  /\ \A k \in 1 .. Len(rcvd[s][i]) : rcvd[s][i][k] = k
  /\ \A k \in 1 .. Len(readB[s][i]) : readB[s][i][k] = Len(rcvd[s][i]) + k
  /\ Got(s, i) <= writer[Peer(s)][i].n

(* Those on their way to a connection that is routed, or that will be when *)
(* the answer arrives, are the ones that were written since.               *)
Following(s, i) ==
  /\ \A k \in PayloadsFor(Peer(s), i) :
       Got(s, i) < wire[Peer(s)][k].n /\ wire[Peer(s)][k].n <= writer[Peer(s)][i].n
  /\ \A n \in Got(s, i) + 1 .. writer[Peer(s)][i].n :
       \E k \in PayloadsFor(Peer(s), i) : wire[Peer(s)][k].n = n
  /\ \A j, k \in PayloadsFor(Peer(s), i) : j < k => wire[Peer(s)][j].n < wire[Peer(s)][k].n

(* The answer comes before every payload of the connection.                *)
Announced(s, i) ==
  /\ i \in Children(Peer(s)) => Sent(Peer(s), "dialAck", i)
  /\ \A k \in PayloadsFor(Peer(s), i) :
       \E j \in 1 .. k - 1 : wire[Peer(s)][j].t = "dialAck" /\ wire[Peer(s)][j].id = i

Awaited(s, i) == loop[s] # "panic" /\ \E c \in dialing[s] : dial[c].id = i
OrderOf(s, i) ==
  /\ Counted(s, i)
  /\ i \in conns[s] \/ Awaited(s, i) => Following(s, i)
  /\ Awaited(s, i) => Announced(s, i)
Order == \A s \in Side, i \in Id : OrderOf(s, i)

(* The types of what the loops own, which TypeOK takes together.           *)
Locs == {"select", "write", "accept", "ending", "cleanup", "done", "panic"}
Message == [t : {"none", "dial", "dialAck", "errChild", "close", "payload"}, id : Id, n : Nat]
Busy == [m : Message, then : {"none", "dial", "payload", "loop", "cleanup"},
         call : Call \union {NoCall}]
DialCB == [st : {"idle", "offer", "wait", "ok", "err"}, id : Id, expired : BOOLEAN]
Writer == [st : {"idle", "offer", "wait", "failed"}, n : Nat]

Types ==
  /\ loop \in [Side -> Locs]
  /\ busy \in [Side -> Busy]
  /\ wire \in [Side -> Seq(Message)]
  /\ closeReq \in [Side -> BOOLEAN]
  /\ nextID \in [Side -> Nat]
  /\ dial \in [Call -> DialCB]
  /\ dialing \in [Side -> SUBSET Call]
  /\ conns \in [Side -> SUBSET Id]
  /\ accept \in [Side -> Seq(Id)]
  /\ held \in [Side -> SUBSET Id]
  /\ closed \in [Side -> SUBSET Id]
  /\ closing \in [Side -> [Id -> Nat]]
  /\ closes \in [Side -> [Id -> Nat]]
  /\ readB \in [Side -> [Id -> Seq(Nat)]]
  /\ rcvd \in [Side -> [Id -> Seq(Nat)]]
  /\ writer \in [Side -> [Id -> Writer]]

(* What the channels hold.                                                 *)
Capacities ==
  /\ \A s \in Side : Len(wire[s]) <= PipeCap /\ Len(accept[s]) <= AcceptCap
  /\ \A s \in Side, i \in Id :
       /\ writer[s][i].n <= MaxWrites[s]
       /\ writer[s][i].st \in {"offer", "wait"} => writer[s][i].n < MaxWrites[s]

IInv == Types /\ Capacities /\ Numbers /\ Writing /\ Calls /\ Families /\ Messages /\ Order
-----------------------------------------------------------------------------
(* Facts about sides, identifiers, messages and queues.                    *)

(* The two sides.                                                          *)
LEMMA SideFacts ==
  /\ "client" \in Side /\ "server" \in Side /\ "client" # "server"
  /\ \A s \in Side : Peer(s) \in Side /\ Peer(s) # s /\ Peer(Peer(s)) = s
  /\ \A s, r \in Side : r = s \/ r = Peer(s)
  /\ \A c \in Call : Caller(c) \in Side
  BY DEF Side, Peer, Caller

(* There is an identifier for every call, and 0 is one.                    *)
LEMMA IdFacts ==
  /\ IsFiniteSet(Call) /\ Cardinality(Call) \in Nat
  /\ 0 \in Id /\ Id \subseteq Nat
<1>1. IsFiniteSet(Call) /\ Cardinality(Call) \in Nat
  BY ConstantsAssumption, FS_CardinalityType
<1> QED
  BY <1>1 DEF Id

(* The calls that the loop has taken are finitely many, and fewer than all *)
(* while another one is offered.                                           *)
LEMMA BegunFacts ==
  ASSUME NEW s \in Side
  PROVE  /\ IsFiniteSet(Begun(s)) /\ Cardinality(Begun(s)) \in Nat
         /\ Cardinality(Begun(s)) <= Cardinality(Call)
         /\ \A c \in Call : dial[c].st = "offer" => Cardinality(Begun(s)) < Cardinality(Call)
<1>1. Begun(s) \subseteq Call
  BY DEF Begun
<1>2. ASSUME NEW c \in Call, dial[c].st = "offer"
      PROVE  Cardinality(Begun(s)) < Cardinality(Call)
  <2>1. Begun(s) \in SUBSET Call /\ Begun(s) # Call
    BY <1>1, <1>2 DEF Begun
  <2>2. /\ Cardinality(Begun(s)) <= Cardinality(Call)
        /\ Cardinality(Begun(s)) # Cardinality(Call)
        /\ IsFiniteSet(Begun(s))
    BY <2>1, IdFacts, FS_Subset
  <2>3. Cardinality(Begun(s)) \in Nat
    BY <2>2, FS_CardinalityType
  <2> QED
    BY <2>2, <2>3, IdFacts
<1>3. /\ IsFiniteSet(Begun(s)) /\ Cardinality(Begun(s)) \in Nat
      /\ Cardinality(Begun(s)) <= Cardinality(Call)
  <2>1. Begun(s) \in SUBSET Call
    BY <1>1
  <2>2. IsFiniteSet(Begun(s)) /\ Cardinality(Begun(s)) <= Cardinality(Call)
    BY <2>1, IdFacts, FS_Subset
  <2>3. Cardinality(Begun(s)) \in Nat
    BY <2>2, FS_CardinalityType
  <2> QED
    BY <2>2, <2>3
<1> QED
  BY <1>2, <1>3

(* The number of a side's next dial is an identifier while a call of that  *)
(* side waits for one.                                                     *)
LEMMA NextIsId ==
  ASSUME Types, Numbers, NEW c \in Call, dial[c].st = "offer"
  PROVE  nextID[Caller(c)] \in Id
<1> DEFINE s == Caller(c)
<1>1. s \in Side
  BY SideFacts
<1> HIDE DEF s
<1>2. Cardinality(Begun(s)) < Cardinality(Call) /\ Cardinality(Begun(s)) \in Nat
  BY <1>1, BegunFacts
<1>3. nextID[s] \in Nat /\ nextID[s] <= 1 + 2 * Cardinality(Begun(s))
  <2>1. nextID[s] \in Nat
    BY <1>1 DEF Types
  <2>2. nextID[s] + (IF busy[s].then = "dial" THEN 2 ELSE 0) <= 1 + 2 * Cardinality(Begun(s))
    BY <1>1 DEF Numbers
  <2> QED
    BY <1>2, <2>1, <2>2
<1>4. nextID[s] \in Id
  BY <1>2, <1>3, IdFacts DEF Id
<1> QED
  BY <1>4 DEF s

(* The messages and what a loop is about have their types.                 *)
LEMMA MessageFacts ==
  /\ \A t \in {"none", "dial", "dialAck", "errChild", "close", "payload"}, i \in Id :
       Msg(t, i) \in Message /\ Msg(t, i).t = t /\ Msg(t, i).id = i
  /\ \A i \in Id, n \in Nat : /\ Payload(i, n) \in Message
                              /\ Payload(i, n).t = "payload"
                              /\ Payload(i, n).id = i /\ Payload(i, n).n = n
  /\ \A m \in Message, c \in Call \union {NoCall},
        then \in {"none", "dial", "payload", "loop", "cleanup"} :
       [m |-> m, then |-> then, call |-> c] \in Busy
  /\ NotBusy \in Busy /\ NotBusy.then = "none" /\ NotBusy.m.t = "none"
  /\ NoCall \notin Call
<1>1. \A t \in {"none", "dial", "dialAck", "errChild", "close", "payload"}, i \in Id :
        Msg(t, i) \in Message /\ Msg(t, i).t = t /\ Msg(t, i).id = i
  BY DEF Msg, Message
<1>2. \A i \in Id, n \in Nat : /\ Payload(i, n) \in Message
                               /\ Payload(i, n).t = "payload"
                               /\ Payload(i, n).id = i /\ Payload(i, n).n = n
  BY DEF Payload, Message
<1>3. \A m \in Message, c \in Call \union {NoCall},
         then \in {"none", "dial", "payload", "loop", "cleanup"} :
        [m |-> m, then |-> then, call |-> c] \in Busy
  BY DEF Busy
<1>4. NotBusy \in Busy /\ NotBusy.then = "none" /\ NotBusy.m.t = "none"
  BY <1>1, <1>3, IdFacts DEF NotBusy
<1> QED
  BY <1>1, <1>2, <1>3, <1>4, ConstantsAssumption

(* A queue whose first element was taken.                                  *)
LEMMA TailFacts ==
  ASSUME NEW S, NEW q \in Seq(S), q # <<>>
  PROVE  /\ Len(q) \in Nat /\ Len(q) > 0 /\ Head(q) = q[1] /\ Head(q) \in S
         /\ Tail(q) \in Seq(S) /\ Len(Tail(q)) = Len(q) - 1
         /\ \A k \in 1 .. Len(q) - 1 : Tail(q)[k] = q[k + 1]
  OBVIOUS

(* A queue that something was put into.                                    *)
LEMMA AppendFacts ==
  ASSUME NEW S, NEW q \in Seq(S), NEW e \in S
  PROVE  /\ Len(q) \in Nat /\ Append(q, e) \in Seq(S) /\ Len(Append(q, e)) = Len(q) + 1
         /\ \A k \in 1 .. Len(q) : Append(q, e)[k] = q[k]
         /\ Append(q, e)[Len(q) + 1] = e
  OBVIOUS
-----------------------------------------------------------------------------
(* The types of the state.                                                 *)

(* The types hold at the start.                                            *)
LEMMA TypesInit == Init => Types
<1> SUFFICES ASSUME Init PROVE Types
  OBVIOUS
<1>1. /\ loop \in [Side -> Locs] /\ busy \in [Side -> Busy] /\ wire \in [Side -> Seq(Message)]
      /\ closeReq \in [Side -> BOOLEAN] /\ nextID \in [Side -> Nat]
  BY MessageFacts DEF Init, Locs
<1>2. /\ dial \in [Call -> DialCB] /\ dialing \in [Side -> SUBSET Call]
      /\ conns \in [Side -> SUBSET Id] /\ held \in [Side -> SUBSET Id]
      /\ closed \in [Side -> SUBSET Id] /\ accept \in [Side -> Seq(Id)]
  BY IdFacts DEF Init, DialCB
<1>3. /\ closing \in [Side -> [Id -> Nat]] /\ closes \in [Side -> [Id -> Nat]]
      /\ readB \in [Side -> [Id -> Seq(Nat)]] /\ rcvd \in [Side -> [Id -> Seq(Nat)]]
  BY DEF Init
<1>4. writer \in [Side -> [Id -> Writer]]
  BY DEF Init, Writer
<1> QED
  BY <1>1, <1>2, <1>3, <1>4 DEF Types

(* The types, each by itself.                                              *)
LEMMA TypeParts ==
  ASSUME Types
  PROVE  /\ loop \in [Side -> Locs] /\ busy \in [Side -> Busy]
         /\ dial \in [Call -> DialCB] /\ dialing \in [Side -> SUBSET Call]
         /\ conns \in [Side -> SUBSET Id] /\ held \in [Side -> SUBSET Id]
         /\ closed \in [Side -> SUBSET Id] /\ writer \in [Side -> [Id -> Writer]]
  BY DEF Types

(* A writer that moves keeps the types of the writers.                     *)
LEMMA WriterUpdate ==
  ASSUME Types, NEW s \in Side, NEW i \in Id,
         \/ \E st \in {"idle", "offer", "wait", "failed"} :
              writer' = [writer EXCEPT ![s][i].st = st]
         \/ writer' = [writer EXCEPT ![s][i] = [st |-> "idle", n |-> @.n + 1]]
  PROVE  writer' \in [Side -> [Id -> Writer]]
<1>1. writer \in [Side -> [Id -> Writer]]
  BY TypeParts
<1>2. ASSUME NEW st \in {"idle", "offer", "wait", "failed"},
             writer' = [writer EXCEPT ![s][i].st = st]
      PROVE  writer' \in [Side -> [Id -> Writer]]
  BY <1>1, <1>2 DEF Writer
<1>3. CASE writer' = [writer EXCEPT ![s][i] = [st |-> "idle", n |-> @.n + 1]]
  BY <1>1, <1>3 DEF Writer
<1> QED
  BY <1>2, <1>3

(* The programs and the calls that return by themselves keep the types.    *)
LEMMA TypesProgram ==
  ASSUME Types, ProgramStep \/ CallStep
  PROVE  Types'
<1>1. ASSUME NEW c \in Call, DialContext(c) \/ ContextExpires(c) \/ DialGivesUp(c)
      PROVE  Types'
  <2>1. dial' \in [Call -> DialCB]
    <3>1. dial \in [Call -> DialCB]
      BY TypeParts
    <3>2. \/ dial' = [dial EXCEPT ![c].st = "offer"]
          \/ dial' = [dial EXCEPT ![c].expired = TRUE]
          \/ dial' = [dial EXCEPT ![c].st = "err"]
      BY <1>1 DEF DialContext, ContextExpires, DialGivesUp
    <3> QED
      BY <3>1, <3>2 DEF DialCB
  <2> QED
    BY <1>1, <2>1 DEF Types, DialContext, ContextExpires, DialGivesUp
<1>2. ASSUME NEW s \in Side, AcceptContext(s)
      PROVE  Types'
  <2>1. accept[s] \in Seq(Id) /\ accept[s] # <<>>
    BY <1>2 DEF Types, AcceptContext
  <2>2. Head(accept[s]) \in Id /\ Tail(accept[s]) \in Seq(Id)
    BY <2>1
  <2>3. accept' \in [Side -> Seq(Id)] /\ held' \in [Side -> SUBSET Id]
    BY <1>2, <2>2 DEF Types, AcceptContext
  <2> QED
    BY <1>2, <2>3 DEF Types, AcceptContext
<1>3. ASSUME NEW s \in Side, MuxClose(s)
      PROVE  Types'
  BY <1>3 DEF Types, MuxClose
<1>4. ASSUME NEW s \in Side, NEW i \in Id, ChildWrite(s, i) \/ ChildWriteFails(s, i)
      PROVE  Types'
  <2>1. writer' \in [Side -> [Id -> Writer]]
    <3>1. \/ writer' = [writer EXCEPT ![s][i].st = "offer"]
          \/ writer' = [writer EXCEPT ![s][i].st = "failed"]
      BY <1>4 DEF ChildWrite, ChildWriteFails
    <3> QED
      BY <3>1, WriterUpdate
  <2> QED
    BY <1>4, <2>1 DEF Types, ChildWrite, ChildWriteFails
<1>5. ASSUME NEW s \in Side, NEW i \in Id, ChildRead(s, i)
      PROVE  Types'
  <2>1. readB[s][i] \in Seq(Nat) /\ readB[s][i] # <<>> /\ rcvd[s][i] \in Seq(Nat)
    BY <1>5 DEF Types, ChildRead
  <2>2. Tail(readB[s][i]) \in Seq(Nat) /\ Append(rcvd[s][i], Head(readB[s][i])) \in Seq(Nat)
    BY <2>1
  <2>3. readB' \in [Side -> [Id -> Seq(Nat)]] /\ rcvd' \in [Side -> [Id -> Seq(Nat)]]
    BY <1>5, <2>2 DEF Types, ChildRead
  <2> QED
    BY <1>5, <2>3 DEF Types, ChildRead
<1>6. ASSUME NEW s \in Side, NEW i \in Id, ChildClose(s, i) \/ ChildClosedLate(s, i)
      PROVE  Types'
  <2>1. closes' \in [Side -> [Id -> Nat]] /\ closing' \in [Side -> [Id -> Nat]]
    <3>1. closes \in [Side -> [Id -> Nat]] /\ closing \in [Side -> [Id -> Nat]]
      BY DEF Types
    <3>2. CASE ChildClose(s, i)
      BY <3>1, <3>2 DEF ChildClose
    <3>3. CASE ChildClosedLate(s, i)
      BY <3>1, <3>3 DEF ChildClosedLate
    <3> QED
      BY <1>6, <3>2, <3>3
  <2>2. closed' \in [Side -> SUBSET Id]
    <3>1. closed' = [closed EXCEPT ![s] = @ \union {i}] \/ closed' = closed
      BY <1>6 DEF ChildClose, ChildClosedLate
    <3>2. closed \in [Side -> SUBSET Id]
      BY DEF Types
    <3> QED
      BY <3>1, <3>2
  <2> QED
    BY <1>6, <2>1, <2>2 DEF Types, ChildClose, ChildClosedLate
<1> QED
  BY <1>1, <1>2, <1>3, <1>4, <1>5, <1>6 DEF ProgramStep, CallStep

(* What a loop writes next has a type, if its message has.                 *)
LEMMA SendType ==
  ASSUME Types, NEW s \in Side, NEW m \in Message,
         NEW then \in {"none", "dial", "payload", "loop", "cleanup"},
         NEW c \in Call \union {NoCall}, Send(s, m, then, c)
  PROVE  loop' \in [Side -> Locs] /\ busy' \in [Side -> Busy]
<1>1. [m |-> m, then |-> then, call |-> c] \in Busy
  BY MessageFacts
<1>2. "write" \in Locs
  BY DEF Locs
<1> QED
  BY <1>1, <1>2 DEF Types, Send

(* The oldest message and the rest of the queue have their types.          *)
LEMMA TakeType ==
  ASSUME Types, NEW s \in Side, NEW t, Receives(s, t), Take(s)
  PROVE  /\ wire' \in [Side -> Seq(Message)]
         /\ Received(s) \in Message /\ Received(s).id \in Id /\ Received(s).n \in Nat
         /\ Received(s).t = t
<1>1. Peer(s) \in Side /\ wire[Peer(s)] \in Seq(Message) /\ wire[Peer(s)] # <<>>
  BY SideFacts DEF Types, Receives
<1>2. Head(wire[Peer(s)]) \in Message /\ Tail(wire[Peer(s)]) \in Seq(Message)
  BY <1>1
<1>3. wire' \in [Side -> Seq(Message)]
  BY <1>1, <1>2 DEF Types, Take
<1>4. Received(s) \in Message /\ Received(s).t = t
  BY <1>2 DEF Received, Receives
<1> QED
  BY <1>3, <1>4 DEF Message

(* Writing keeps the types.                                                *)
LEMMA TypesWrite ==
  ASSUME Types, Writing, NEW s \in Side, WriteSucceeds(s) \/ WriteFails(s)
  PROVE  Types'
<1>1. /\ busy[s] \in Busy /\ busy[s].m \in Message /\ busy[s].m.id \in Id
      /\ busy[s].then = "dial" => busy[s].call \in Call
  BY DEF Types, Busy, Message, Writing, WritingOf
<1>2. loop' \in [Side -> Locs] /\ busy' \in [Side -> Busy]
  <2>1. busy' = [busy EXCEPT ![s] = NotBusy]
    BY DEF WriteSucceeds, Written, WriteFails
  <2>2. \E l \in {"select", "cleanup", "ending"} : loop' = [loop EXCEPT ![s] = l]
    BY DEF WriteSucceeds, Written, WriteFails, AfterWrite
  <2>3. {"select", "cleanup", "ending"} \subseteq Locs
    BY DEF Locs
  <2> QED
    BY <2>1, <2>2, <2>3, MessageFacts, TypeParts
<1>3. wire' \in [Side -> Seq(Message)]
  <2>1. wire[s] \in Seq(Message)
    BY DEF Types
  <2>2. Append(wire[s], busy[s].m) \in Seq(Message)
    BY <1>1, <2>1
  <2> QED
    BY <2>2 DEF Types, WriteSucceeds, Written, WriteFails
<1>4. writer' \in [Side -> [Id -> Writer]]
  <2>1. \/ writer' = writer
        \/ writer' = [writer EXCEPT ![s][busy[s].m.id] = [st |-> "idle", n |-> @.n + 1]]
        \/ writer' = [writer EXCEPT ![s][busy[s].m.id].st = "failed"]
    BY DEF WriteSucceeds, Written, WriteFails
  <2>2. writer \in [Side -> [Id -> Writer]]
    BY DEF Types
  <2> QED
    BY <1>1, <2>1, <2>2, WriterUpdate
<1>5. nextID' \in [Side -> Nat]
  <2>1. nextID \in [Side -> Nat]
    BY DEF Types
  <2>2. nextID' = [nextID EXCEPT ![s] = @ + 2] \/ nextID' = nextID
    BY DEF WriteSucceeds, WriteFails
  <2> QED
    BY <2>1, <2>2
<1>6. dialing' \in [Side -> SUBSET Call]
  <2>1. \/ dialing' = dialing
        \/ /\ busy[s].then = "dial"
           /\ dialing' = [dialing EXCEPT ![s] = @ \union {busy[s].call}]
    BY DEF WriteSucceeds, Dialed, WriteFails
  <2>2. dialing \in [Side -> SUBSET Call] /\ dialing[s] \in SUBSET Call
    BY DEF Types
  <2> QED
    BY <1>1, <2>1, <2>2
<1>7. dial' \in [Call -> DialCB]
  <2>1. \/ dial' = dial
        \/ busy[s].then = "dial" /\ dial' = [dial EXCEPT ![busy[s].call].st = "err"]
    BY DEF WriteSucceeds, Written, WriteFails
  <2>2. dial \in [Call -> DialCB]
    BY DEF Types
  <2> QED
    BY <1>1, <2>1, <2>2 DEF DialCB
<1> QED
  BY <1>2, <1>3, <1>4, <1>5, <1>6, <1>7 DEF Types, WriteSucceeds, Written, WriteFails

(* So do the calls that a loop takes.                                      *)
LEMMA TypesTaken ==
  ASSUME Types, Numbers, NEW s \in Side,
         \/ \E c \in Call : Caller(c) = s /\ LoopDial(c)
         \/ \E i \in Id : LoopWrite(s, i) \/ LoopChildClosed(s, i)
         \/ LoopClose(s)
  PROVE  Types'
<1>1. ASSUME NEW c \in Call, Caller(c) = s, LoopDial(c)
      PROVE  Types'
  <2>1. nextID[s] \in Id
    BY <1>1, NextIsId DEF LoopDial
  <2>2. loop' \in [Side -> Locs] /\ busy' \in [Side -> Busy]
    BY <1>1, <2>1, MessageFacts, SendType DEF LoopDial
  <2>3. dial' \in [Call -> DialCB]
    <3>1. dial \in [Call -> DialCB]
      BY TypeParts
    <3> QED
      BY <1>1, <2>1, <3>1 DEF DialCB, LoopDial
  <2> QED
    BY <1>1, <2>2, <2>3 DEF Types, LoopDial
<1>2. ASSUME NEW i \in Id, LoopWrite(s, i)
      PROVE  Types'
  <2>1. writer[s][i] \in Writer /\ writer[s][i].n + 1 \in Nat
    BY DEF Types, Writer
  <2>2. writer' \in [Side -> [Id -> Writer]]
    <3>1. \/ writer' = [writer EXCEPT ![s][i].st = "wait"]
          \/ writer' = [writer EXCEPT ![s][i].st = "failed"]
      BY <1>2 DEF LoopWrite
    <3> QED
      BY <3>1, WriterUpdate
  <2>3. loop' \in [Side -> Locs] /\ busy' \in [Side -> Busy]
    <3>1. CASE i \in conns[s]
      <4>1. Send(s, Payload(i, writer[s][i].n + 1), "payload", NoCall)
        BY <1>2, <3>1 DEF LoopWrite
      <4> QED
        BY <2>1, <4>1, MessageFacts, SendType
    <3>2. CASE i \notin conns[s]
      BY <1>2, <3>2 DEF Types, LoopWrite
    <3> QED
      BY <3>1, <3>2
  <2> QED
    BY <1>2, <2>2, <2>3 DEF Types, LoopWrite
<1>3. ASSUME NEW i \in Id, LoopChildClosed(s, i)
      PROVE  Types'
  <2>1. loop' \in [Side -> Locs] /\ busy' \in [Side -> Busy]
    BY <1>3, MessageFacts, SendType DEF LoopChildClosed
  <2>2. closing' \in [Side -> [Id -> Nat]] /\ conns' \in [Side -> SUBSET Id]
    BY <1>3 DEF Types, LoopChildClosed
  <2> QED
    BY <1>3, <2>1, <2>2 DEF Types, LoopChildClosed
<1>4. CASE LoopClose(s)
  BY <1>4 DEF Types, Locs, LoopClose
<1> QED
  BY <1>1, <1>2, <1>3, <1>4

(* So do the messages that it handles.                                     *)
LEMMA TypesHandle ==
  ASSUME Types, NEW s \in Side, HandleMessage(s)
  PROVE  Types'
<1> DEFINE i == Received(s).id
<1>1. CASE HandleDial(s)
  <2>1. wire' \in [Side -> Seq(Message)] /\ i \in Id
    BY <1>1, TakeType DEF HandleDial
  <2>2. loop' \in [Side -> Locs] /\ busy' \in [Side -> Busy]
    <3>1. CASE s \in NoAccept
      BY <1>1, <2>1, <3>1, MessageFacts, SendType DEF HandleDial
    <3>2. CASE s \notin NoAccept
      <4>1. [m |-> Msg("dialAck", i), then |-> "loop", call |-> NoCall] \in Busy
        BY <2>1, MessageFacts
      <4>2. "accept" \in Locs
        BY DEF Locs
      <4> QED
        BY <1>1, <3>2, <4>1, <4>2, TypeParts DEF HandleDial
    <3> QED
      BY <3>1, <3>2
  <2> QED
    BY <1>1, <2>1, <2>2 DEF Types, HandleDial
<1>2. CASE HandleDialAck(s)
  <2>1. wire' \in [Side -> Seq(Message)] /\ i \in Id
    BY <1>2, TakeType DEF HandleDialAck
  <2>2. CASE DialingAs(s, i) = {}
    <3>1. loop' \in [Side -> Locs] /\ busy' \in [Side -> Busy]
      BY <1>2, <2>1, <2>2, MessageFacts, SendType DEF HandleDialAck
    <3> QED
      BY <1>2, <2>1, <2>2, <3>1 DEF Types, HandleDialAck
  <2>3. CASE DialingAs(s, i) # {}
    <3>1. loop' \in [Side -> Locs] /\ busy' = busy
      BY <1>2, <2>3 DEF Types, Locs, HandleDialAck
    <3>2. dial' \in [Call -> DialCB]
      <4>1. DialingAs(s, i) \in SUBSET Call
        BY DEF DialingAs, Types
      <4>2. dial \in [Call -> DialCB]
        BY TypeParts
      <4> QED
        BY <1>2, <2>3, <4>1, <4>2 DEF DialCB, HandleDialAck
    <3>3. dialing' \in [Side -> SUBSET Call]
      <4>1. dialing' = [dialing EXCEPT ![s] = @ \ DialingAs(s, i)]
        BY <1>2, <2>3 DEF HandleDialAck
      <4>2. dialing \in [Side -> SUBSET Call] /\ dialing[s] \ DialingAs(s, i) \in SUBSET Call
        BY DEF Types
      <4> QED
        BY <4>1, <4>2
    <3>4. conns' \in [Side -> SUBSET Id] /\ held' \in [Side -> SUBSET Id]
      <4>1. conns \in [Side -> SUBSET Id] /\ held \in [Side -> SUBSET Id]
        BY TypeParts
      <4>2. /\ conns' = [conns EXCEPT ![s] = @ \union {i}]
            /\ held' = [held EXCEPT ![s] = @ \union {i}]
        BY <1>2, <2>3 DEF HandleDialAck
      <4> HIDE DEF i
      <4> QED
        BY <2>1, <4>1, <4>2
    <3> QED
      BY <1>2, <2>1, <3>1, <3>2, <3>3, <3>4 DEF Types, HandleDialAck
  <2> QED
    BY <2>2, <2>3
<1>3. CASE HandleErrChild(s)
  <2>1. wire' \in [Side -> Seq(Message)] /\ i \in Id
    BY <1>3, TakeType DEF HandleErrChild
  <2>2. CASE i \in conns[s]
    <3>1. loop' \in [Side -> Locs] /\ busy' \in [Side -> Busy]
      BY <1>3, <2>1, <2>2, MessageFacts, SendType DEF HandleErrChild
    <3>2. closed' \in [Side -> SUBSET Id] /\ conns' \in [Side -> SUBSET Id]
      <4>1. conns \in [Side -> SUBSET Id] /\ closed \in [Side -> SUBSET Id]
        BY TypeParts
      <4>2. /\ conns' = [conns EXCEPT ![s] = @ \ {i}]
            /\ closed' = [closed EXCEPT ![s] = @ \union {i}]
        BY <1>3, <2>2 DEF HandleErrChild
      <4> HIDE DEF i
      <4> QED
        BY <2>1, <4>1, <4>2
    <3> QED
      BY <1>3, <2>1, <2>2, <3>1, <3>2 DEF Types, HandleErrChild
  <2>3. CASE i \notin conns[s]
    <3>1. loop' \in [Side -> Locs] /\ dial' \in [Call -> DialCB]
      <4>1. loop' \in [Side -> Locs]
        BY <1>3, <2>3 DEF Types, Locs, HandleErrChild
      <4>2. DialingAs(s, i) \in SUBSET Call
        BY DEF DialingAs, Types
      <4>3. dial \in [Call -> DialCB]
        BY TypeParts
      <4> QED
        BY <1>3, <2>3, <4>1, <4>2, <4>3 DEF DialCB, HandleErrChild
    <3> QED
      BY <1>3, <2>1, <2>3, <3>1 DEF Types, HandleErrChild
  <2> QED
    BY <2>2, <2>3
<1>4. CASE HandleClose(s)
  <2>1. wire' \in [Side -> Seq(Message)] /\ i \in Id
    BY <1>4, TakeType DEF HandleClose
  <2>2. CASE i \in conns[s]
    <3>1. closed' \in [Side -> SUBSET Id] /\ conns' \in [Side -> SUBSET Id]
      <4>1. conns \in [Side -> SUBSET Id] /\ closed \in [Side -> SUBSET Id]
        BY TypeParts
      <4>2. /\ conns' = [conns EXCEPT ![s] = @ \ {i}]
            /\ closed' = [closed EXCEPT ![s] = @ \union {i}]
        BY <1>4, <2>2 DEF HandleClose
      <4> HIDE DEF i
      <4> QED
        BY <2>1, <4>1, <4>2
    <3> QED
      BY <1>4, <2>1, <2>2, <3>1 DEF Types, HandleClose
  <2>3. CASE i \notin conns[s]
    <3>1. loop' \in [Side -> Locs] /\ busy' \in [Side -> Busy]
      BY <1>4, <2>1, <2>3, MessageFacts, SendType DEF HandleClose
    <3> QED
      BY <1>4, <2>1, <2>3, <3>1 DEF Types, HandleClose
  <2> QED
    BY <2>2, <2>3
<1>5. CASE HandlePayload(s)
  <2>1. wire' \in [Side -> Seq(Message)] /\ i \in Id /\ Received(s).n \in Nat
    BY <1>5, TakeType DEF HandlePayload
  <2>2. CASE i \in conns[s]
    <3>1. Append(readB[s][i], Received(s).n) \in Seq(Nat)
      BY <2>1 DEF Types
    <3>2. readB' \in [Side -> [Id -> Seq(Nat)]]
      <4>1. readB \in [Side -> [Id -> Seq(Nat)]] /\ readB[s] \in [Id -> Seq(Nat)]
        BY DEF Types
      <4>2. [readB[s] EXCEPT ![i] = Append(readB[s][i], Received(s).n)] \in [Id -> Seq(Nat)]
        BY <2>1, <3>1, <4>1
      <4>3. readB' = [readB EXCEPT ![s] = [readB[s] EXCEPT ![i] = Append(readB[s][i], Received(s).n)]]
        BY <1>5, <2>2, <4>1 DEF HandlePayload
      <4> QED
        BY <4>1, <4>2, <4>3
    <3> QED
      BY <1>5, <2>1, <2>2, <3>2 DEF Types, HandlePayload
  <2>3. CASE i \notin conns[s]
    <3>1. loop' \in [Side -> Locs] /\ busy' \in [Side -> Busy]
      BY <1>5, <2>1, <2>3, MessageFacts, SendType DEF HandlePayload
    <3> QED
      BY <1>5, <2>1, <2>3, <3>1 DEF Types, HandlePayload
  <2> QED
    BY <2>2, <2>3
<1>6. CASE HandleEOF(s)
  BY <1>6 DEF Types, Locs, HandleEOF
<1> QED
  BY <1>1, <1>2, <1>3, <1>4, <1>5, <1>6 DEF HandleMessage

(* So do acceptDial and the deferred cleanup.                              *)
LEMMA TypesRest ==
  ASSUME Types, NEW s \in Side,
         \/ AcceptQueued(s) \/ AcceptTimesOut(s)
         \/ CleanupDials(s) \/ CleanupEnds(s) \/ \E i \in Id : CleanupChild(s, i)
  PROVE  Types'
<1>1. busy[s].m.id \in Id
  BY DEF Types, Busy, Message
<1>2. CASE AcceptQueued(s)
  <2>1. Append(accept[s], busy[s].m.id) \in Seq(Id)
    BY <1>1 DEF Types
  <2>2. /\ accept' \in [Side -> Seq(Id)] /\ conns' \in [Side -> SUBSET Id]
        /\ loop' \in [Side -> Locs]
    BY <1>1, <1>2, <2>1 DEF Types, Locs, AcceptQueued
  <2> QED
    BY <1>2, <2>2 DEF Types, AcceptQueued
<1>3. CASE AcceptTimesOut(s)
  <2>1. loop' \in [Side -> Locs] /\ busy' \in [Side -> Busy]
    BY <1>1, <1>3, MessageFacts, SendType DEF AcceptTimesOut
  <2> QED
    BY <1>3, <2>1 DEF Types, AcceptTimesOut
<1>4. CASE CleanupDials(s)
  <2>1. dialing' \in [Side -> SUBSET Call] /\ loop' \in [Side -> Locs]
    BY <1>4 DEF Types, Locs, CleanupDials
  <2>2. dial' \in [Call -> DialCB]
    <3>1. dialing[s] \in SUBSET Call /\ dial \in [Call -> DialCB]
      BY DEF Types
    <3> QED
      BY <1>4, <3>1 DEF DialCB, CleanupDials
  <2> QED
    BY <1>4, <2>1, <2>2 DEF Types, CleanupDials
<1>5. CASE CleanupEnds(s)
  <2>1. loop' \in [Side -> Locs] /\ wire' \in [Side -> Seq(Message)]
    <3>1. <<>> \in Seq(Message)
      OBVIOUS
    <3>2. loop' \in [Side -> Locs]
      BY <1>5 DEF Types, Locs, CleanupEnds
    <3> QED
      <4>1. wire \in [Side -> Seq(Message)]
        BY DEF Types
      <4> QED
        BY <1>5, <3>1, <3>2, <4>1 DEF CleanupEnds
  <2> QED
    BY <1>5, <2>1 DEF Types, CleanupEnds
<1>6. ASSUME NEW i \in Id, CleanupChild(s, i)
      PROVE  Types'
  <2>1. loop' \in [Side -> Locs] /\ busy' \in [Side -> Busy]
    BY <1>6, MessageFacts, SendType DEF CleanupChild
  <2>2. closed' \in [Side -> SUBSET Id] /\ conns' \in [Side -> SUBSET Id]
    BY <1>6, TypeParts DEF CleanupChild
  <2> QED
    BY <1>6, <2>1, <2>2 DEF Types, CleanupChild
<1> QED
  BY <1>2, <1>3, <1>4, <1>5, <1>6

(* Every step keeps the types.                                             *)
LEMMA TypesStep == Types /\ Numbers /\ Writing /\ [Next]_vars => Types'
<1> SUFFICES ASSUME Types, Numbers, Writing, [Next]_vars
             PROVE  Types'
  OBVIOUS
<1>1. CASE UNCHANGED vars
  BY <1>1 DEF Types, vars
<1>2. ASSUME NEW s \in Side, LoopStep(s)
      PROVE  Types'
  BY <1>2, TypesWrite, TypesTaken, TypesHandle, TypesRest DEF LoopStep
<1> QED
  BY <1>1, <1>2, TypesProgram DEF Next
-----------------------------------------------------------------------------
(* What a step must leave alone to keep each part.                         *)

(* The first d messages of s were taken.                                   *)
Cut(s, d) ==
  /\ d \in 0 .. Len(wire[s])
  /\ Len(wire'[s]) = Len(wire[s]) - d
  /\ \A k \in 1 .. Len(wire'[s]) : wire'[s][k] = wire[s][k + d]

(* An untouched queue has lost nothing, one that was taken from one        *)
(* message.                                                                *)
LEMMA CutFacts ==
  ASSUME Types, NEW s \in Side
  PROVE  /\ wire'[s] = wire[s] => Cut(s, 0)
         /\ wire[s] # <<>> /\ wire'[s] = Tail(wire[s]) => Cut(s, 1)
         /\ Len(wire[s]) \in Nat
<1>1. wire[s] \in Seq(Message)
  BY DEF Types
<1>2. ASSUME wire[s] # <<>>, wire'[s] = Tail(wire[s])
      PROVE  Cut(s, 1)
  BY <1>1, <1>2, TailFacts DEF Cut
<1>3. ASSUME wire'[s] = wire[s]
      PROVE  Cut(s, 0)
  BY <1>1, <1>3 DEF Cut
<1> QED
  BY <1>1, <1>2, <1>3

(* The identifiers that were issued stay so, and keep their side.          *)
LEMMA IssuedFrame ==
  ASSUME Types, NEW s \in Side,
         nextID'[s] \in {nextID[s], nextID[s] + 2}, nextID'[Peer(s)] = nextID[Peer(s)]
  PROVE  /\ \A r \in Side, i \in Id : Mine(r, i)' <=> Mine(r, i)
         /\ \A i \in Id : Issued(i) => Issued(i)'
<1>1. nextID[s] \in Nat /\ nextID[Peer(s)] \in Nat /\ Peer(s) \in Side
  BY SideFacts DEF Types
<1>2. \A r \in Side : nextID'[r] % 2 = nextID[r] % 2 /\ nextID[r] <= nextID'[r]
                      /\ nextID[r] \in Nat /\ nextID'[r] \in Nat
  BY <1>1, SideFacts
<1>3. \A r \in Side, i \in Id : Mine(r, i)' <=> Mine(r, i)
  BY <1>2 DEF Mine
<1>4. ASSUME NEW i \in Id, Issued(i)
      PROVE  Issued(i)'
  <2>1. PICK r \in Side : Mine(r, i) /\ i < nextID[r]
    BY <1>4 DEF Issued
  <2>2. Mine(r, i)' /\ i < nextID'[r]
    BY <1>2, <1>3, <2>1, IdFacts
  <2> QED
    BY <2>2 DEF Issued
<1> QED
  BY <1>3, <1>4

(* The messages of r and its waiting calls.                                *)
LEMMA MessagesFrame ==
  ASSUME Types, Types', NEW r \in Side, NEW d, Cut(r, d), MessagesOf(r),
         \A i \in Id : (Mine(r, i)' <=> Mine(r, i)) /\ (Issued(i) => Issued(i)'),
         loop'[r] = "write" /\ busy'[r].then # "dial" => Issued(busy[r].m.id)',
         \A i \in Id : Accepting(Peer(r), i)' =>
           \/ Accepting(Peer(r), i)
           \/ ~Wired(r, "dial", i)' /\ Wired(r, "dial", i),
         \A i \in Id : Unanswered(r, i) /\ (Wired(r, "dial", i)' \/ Accepting(Peer(r), i)')
           => Unanswered(r, i)',
         Children(r) \subseteq Children(r)',
         loop'[r] = "write" /\ busy'[r].m.t \in {"dialAck", "payload", "close"}
           => busy'[r].m.id \in Children(r)',
         \A c \in dialing'[r] :
           /\ c \in dialing[r] /\ dial'[c].id = dial[c].id
           /\ dial'[c].st = "err" \/ Sent(Peer(r), "errChild", dial[c].id)' =>
                \/ dial[c].st = "err" \/ Sent(Peer(r), "errChild", dial[c].id)
                \/ Refused(r, dial[c].id)'
           /\ Refused(r, dial[c].id) => dial[c].id \notin Children(Peer(r))'
  PROVE  MessagesOf(r)'
<1>1. wire[r] \in Seq(Message) /\ wire'[r] \in Seq(Message) /\ d \in Nat
  BY DEF Types, Cut
<1>2. \A k \in 1 .. Len(wire'[r]) :
        k + d \in 1 .. Len(wire[r]) /\ wire'[r][k] = wire[r][k + d] /\ wire[r][k + d].id \in Id
  <2>1. \A k \in 1 .. Len(wire'[r]) :
          k + d \in 1 .. Len(wire[r]) /\ wire'[r][k] = wire[r][k + d]
    BY <1>1 DEF Cut
  <2>2. \A k \in 1 .. Len(wire[r]) : wire[r][k].id \in Id
    <3>1. \A k \in 1 .. Len(wire[r]) : wire[r][k] \in Message
      BY <1>1
    <3> QED
      BY <3>1 DEF Message
  <2> QED
    BY <2>1, <2>2
<1>3. \A t, i : Wired(r, t, i)' => Wired(r, t, i)
  BY <1>2 DEF Wired
<1>4. \A k \in 1 .. Len(wire'[r]) : Issued(wire[r][k].id)'
  <2>1. \A k \in 1 .. Len(wire'[r]) : \A i \in Id : i = wire'[r][k].id => Issued(i)'
    BY <1>2 DEF MessagesOf
  <2> QED
    BY <1>2, <2>1 DEF Issued, Mine
<1>5. ASSUME NEW i \in Id, Wired(r, "dial", i)'
      PROVE  Unanswered(r, i)' /\ ~Accepting(Peer(r), i)'
  <2>1. Unanswered(r, i) /\ ~Accepting(Peer(r), i)
    BY <1>3, <1>5 DEF MessagesOf
  <2> QED
    BY <1>5, <2>1
<1>6. ASSUME NEW i \in Id, Accepting(Peer(r), i)'
      PROVE  Unanswered(r, i)'
  <2>1. Unanswered(r, i)
    BY <1>6 DEF MessagesOf
  <2> QED
    BY <1>6, <2>1
<1>7. ASSUME NEW j \in 1 .. Len(wire'[r]), NEW k \in 1 .. Len(wire'[r]),
             wire'[r][j].t = "dial" /\ wire'[r][k].t = "dial" /\ wire'[r][j].id = wire'[r][k].id
      PROVE  j = k
  <2>1. j + d = k + d
    BY <1>2, <1>7 DEF MessagesOf
  <2> QED
    BY <1>1, <2>1
<1>8. ASSUME NEW i \in Id, NEW t \in {"dialAck", "payload", "close"}, Sent(r, t, i)'
      PROVE  i \in Children(r)'
  <2>1. Wired(r, t, i) \/ (loop'[r] = "write" /\ busy'[r].m.t = t /\ busy'[r].m.id = i)
    BY <1>3, <1>8 DEF Sent
  <2>2. CASE Wired(r, t, i)
    BY <2>2 DEF MessagesOf, Sent
  <2>3. CASE loop'[r] = "write" /\ busy'[r].m.t = t /\ busy'[r].m.id = i
    BY <2>3
  <2> QED
    BY <2>1, <2>2, <2>3
<1>9. ASSUME NEW c \in dialing'[r],
             dial'[c].st = "err" \/ Sent(Peer(r), "errChild", dial[c].id)'
      PROVE  Refused(r, dial[c].id)'
  <2> DEFINE i == dial[c].id
  <2>1. c \in dialing[r] /\ dial'[c].id = i /\ i \in Id
    BY DEF Types, DialCB
  <2>2. CASE dial[c].st = "err" \/ Sent(Peer(r), "errChild", i)
    <3>1. Refused(r, i)
      BY <2>1, <2>2 DEF MessagesOf
    <3>2. i \notin Children(Peer(r))'
      BY <2>1, <3>1 DEF Refused
    <3>3. ~Wired(r, "dial", i)'
      BY <1>3, <3>1 DEF Refused
    <3>4. ~Accepting(Peer(r), i)'
      BY <2>1, <3>1 DEF Refused
    <3> QED
      BY <2>1, <3>2, <3>3, <3>4 DEF Refused
  <2>3. CASE ~(dial[c].st = "err" \/ Sent(Peer(r), "errChild", i))
    BY <1>9, <2>1, <2>3
  <2> QED
    BY <2>2, <2>3
<1> QED
  BY <1>4, <1>5, <1>6, <1>7, <1>8, <1>9 DEF MessagesOf

(* Payloads that were not taken move to the front.                         *)
LEMMA CutPayloads ==
  ASSUME Types, NEW q \in Side, NEW i \in Id, NEW d, Cut(q, d)
  PROVE  /\ d \in Nat
         /\ \A k \in PayloadsFor(q, i)' : /\ k \in Nat \ {0} /\ k + d \in PayloadsFor(q, i)
                                          /\ wire'[q][k].n = wire[q][k + d].n
         /\ \A k \in PayloadsFor(q, i) : k > d => /\ k - d \in PayloadsFor(q, i)'
                                                  /\ wire'[q][k - d].n = wire[q][k].n
<1>1. wire[q] \in Seq(Message) /\ d \in Nat
  BY DEF Types, Cut
<1>2. Len(wire[q]) \in Nat /\ Len(wire'[q]) = Len(wire[q]) - d /\ d <= Len(wire[q])
  BY <1>1 DEF Cut
<1>3. \A k \in 1 .. Len(wire'[q]) :
        k \in Nat \ {0} /\ k + d \in 1 .. Len(wire[q]) /\ wire'[q][k] = wire[q][k + d]
  BY <1>1, <1>2 DEF Cut
<1>4. ASSUME NEW k \in 1 .. Len(wire[q]), k > d
      PROVE  k - d \in 1 .. Len(wire'[q]) /\ wire'[q][k - d] = wire[q][k]
  <2>1. k - d \in 1 .. Len(wire'[q]) /\ (k - d) + d = k
    BY <1>1, <1>2, <1>4
  <2> QED
    BY <1>3, <2>1
<1> QED
  BY <1>1, <1>3, <1>4 DEF PayloadsFor

(* How many payloads were received is a number.                            *)
LEMMA GotType ==
  ASSUME Types, NEW r \in Side, NEW i \in Id
  PROVE  /\ rcvd[r][i] \in Seq(Nat) /\ readB[r][i] \in Seq(Nat)
         /\ Len(rcvd[r][i]) \in Nat /\ Len(readB[r][i]) \in Nat
         /\ Got(r, i) \in Nat
         /\ writer[r][i] \in Writer /\ writer[r][i].n \in Nat
<1>1. rcvd[r][i] \in Seq(Nat) /\ readB[r][i] \in Seq(Nat) /\ writer[r][i] \in Writer
  BY DEF Types
<1>2. Len(rcvd[r][i]) \in Nat /\ Len(readB[r][i]) \in Nat
  BY <1>1
<1>3. \A a, b \in Nat : a + b \in Nat
  OBVIOUS
<1> QED
  BY <1>1, <1>2, <1>3 DEF Got, Writer

(* The payloads on their way to a connection of r.                         *)
LEMMA OrderFrame ==
  ASSUME Types, NEW r \in Side, NEW i \in Id, OrderOf(r, i), NEW d,
         rcvd'[r][i] = rcvd[r][i], readB'[r][i] = readB[r][i],
         writer'[Peer(r)][i].n = writer[Peer(r)][i].n,
         Awaited(r, i)' => Awaited(r, i),
         i \in conns'[r] => i \in conns[r] \/ Awaited(r, i),
         i \in conns'[r] \/ Awaited(r, i)' =>
           /\ Cut(Peer(r), d)
           /\ \A k \in PayloadsFor(Peer(r), i) : k > d,
         Awaited(r, i)' =>
           /\ \A k \in 1 .. d : ~(wire[Peer(r)][k].t = "dialAck" /\ wire[Peer(r)][k].id = i)
           /\ i \in Children(Peer(r))' => Sent(Peer(r), "dialAck", i)'
  PROVE  OrderOf(r, i)'
<1> DEFINE q == Peer(r)
<1>1. q \in Side /\ Peer(r) = q
  BY SideFacts
<1>2. /\ wire[q] \in Seq(Message)
      /\ rcvd[r][i] \in Seq(Nat) /\ readB[r][i] \in Seq(Nat) /\ writer[q][i].n \in Nat
  <2>1. writer[q][i] \in Writer
    BY <1>1 DEF Types
  <2> QED
    BY <1>1, <2>1 DEF Types, Writer
<1>3. Got(r, i) \in Nat /\ Got(r, i)' = Got(r, i)
  <2>1. Got(r, i) \in Nat
    BY GotType
  <2>2. Got(r, i)' = Got(r, i)
    BY DEF Got
  <2> QED
    BY <2>1, <2>2
<1>4. Counted(r, i)'
  BY <1>3 DEF Counted, OrderOf
<1>5. ASSUME i \in conns'[r] \/ Awaited(r, i)'
      PROVE  Following(r, i)'
  <2>1. /\ d \in Nat
        /\ \A k \in PayloadsFor(q, i)' : /\ k \in Nat \ {0} /\ k + d \in PayloadsFor(q, i)
                                         /\ wire'[q][k].n = wire[q][k + d].n
        /\ \A k \in PayloadsFor(q, i) : k > d => /\ k - d \in PayloadsFor(q, i)'
                                                 /\ wire'[q][k - d].n = wire[q][k].n
    BY <1>1, <1>5, CutPayloads
  <2>2. Following(r, i) /\ \A k \in PayloadsFor(q, i) : k > d
    BY <1>5 DEF OrderOf
  <2> HIDE DEF q
  <2>3. ASSUME NEW k \in PayloadsFor(q, i)'
        PROVE  Got(r, i) < wire'[q][k].n /\ wire'[q][k].n <= writer[q][i].n
    BY <1>1, <2>1, <2>2 DEF Following
  <2>4. ASSUME NEW n \in Got(r, i) + 1 .. writer[q][i].n
        PROVE  \E k \in PayloadsFor(q, i)' : wire'[q][k].n = n
    BY <1>1, <2>1, <2>2 DEF Following
  <2>5. ASSUME NEW j \in PayloadsFor(q, i)', NEW k \in PayloadsFor(q, i)', j < k
        PROVE  wire'[q][j].n < wire'[q][k].n
    <3>1. j + d < k + d
      BY <2>1, <2>5
    <3> QED
      BY <1>1, <2>1, <2>2, <3>1 DEF Following
  <2> QED
    BY <1>1, <1>3, <2>3, <2>4, <2>5 DEF Following
<1>6. ASSUME Awaited(r, i)'
      PROVE  Announced(r, i)'
  <2>1. /\ d \in Nat
        /\ \A k \in PayloadsFor(q, i)' : /\ k \in Nat \ {0} /\ k + d \in PayloadsFor(q, i)
                                         /\ wire'[q][k].n = wire[q][k + d].n
    BY <1>1, <1>6, CutPayloads
  <2>2. Announced(r, i) /\ \A k \in PayloadsFor(q, i) : k > d
    BY <1>6 DEF OrderOf
  <2>3. /\ Len(wire[q]) \in Nat /\ Len(wire'[q]) = Len(wire[q]) - d
        /\ \A k \in 1 .. Len(wire'[q]) : wire'[q][k] = wire[q][k + d]
    BY <1>2, <1>6 DEF Cut
  <2>4. ASSUME NEW k \in PayloadsFor(q, i)'
        PROVE  \E j \in 1 .. k - 1 : wire'[q][j].t = "dialAck" /\ wire'[q][j].id = i
    <3>1. PICK j \in 1 .. (k + d) - 1 : wire[q][j].t = "dialAck" /\ wire[q][j].id = i
      BY <1>1, <2>1, <2>2 DEF Announced
    <3>2. j > d /\ k + d \in 1 .. Len(wire[q])
      BY <1>1, <1>6, <2>1, <3>1 DEF PayloadsFor
    <3>3. j - d \in 1 .. k - 1 /\ j - d \in 1 .. Len(wire'[q]) /\ (j - d) + d = j
      BY <2>1, <2>3, <3>1, <3>2
    <3> QED
      BY <2>3, <3>1, <3>3
  <2> QED
    BY <1>1, <1>6, <2>4 DEF Announced
<1> QED
  BY <1>4, <1>5, <1>6 DEF OrderOf
-----------------------------------------------------------------------------
(* The steps, by what they do to each side.                                *)

(* The loop of the peer of s stays where it is, or that of s starts to     *)
(* write a message.                                                        *)
PeerStays(s) == loop'[Peer(s)] = loop[Peer(s)] /\ busy'[Peer(s)] = busy[Peer(s)]
Starts(s, t, i, then) ==
  /\ loop'[s] = "write"
  /\ busy'[s].m.t = t /\ busy'[s].m.id = i /\ busy'[s].then = then
  /\ PeerStays(s)

(* A call that the loop has not taken moves.                               *)
DialMoves ==
  /\ UNCHANGED <<loop, busy, wire, nextID, dialing, conns, accept, held, closed,
                 closing, readB, rcvd, writer>>
  /\ \A c \in Call :
       /\ dial'[c].id = dial[c].id
       /\ dial'[c].st # dial[c].st => \/ dial[c].st = "idle" /\ dial'[c].st = "offer"
                                      \/ dial[c].st = "offer" /\ dial'[c].st = "err"
  /\ \A c, d \in Call :
       dial[c].st = "idle" /\ dial'[c].st # "idle" /\ dial'[d].st # dial[d].st => d = c

(* A program takes a child from the accept channel.                        *)
AcceptMoves ==
  /\ UNCHANGED <<loop, busy, wire, nextID, dial, dialing, conns, closed, closing,
                 readB, rcvd, writer>>
  /\ \A r \in Side : /\ Children(r)' = Children(r) /\ held[r] \subseteq held'[r]
                     /\ Len(accept'[r]) <= Len(accept[r])
  /\ \E s \in Side :
       /\ accept[s] # <<>>
       /\ held'[s] = held[s] \union {Head(accept[s])} /\ accept'[s] = Tail(accept[s])
       /\ held'[Peer(s)] = held[Peer(s)] /\ accept'[Peer(s)] = accept[Peer(s)]

(* A call of Write is made, or ends without the loop's answer.             *)
WriterMoves ==
  /\ UNCHANGED <<loop, busy, wire, nextID, dial, dialing, conns, accept, held, closed,
                 closing, readB, rcvd>>
  /\ \A r \in Side, i \in Id :
       /\ writer'[r][i].n = writer[r][i].n
       /\ writer'[r][i].st = "wait" <=> writer[r][i].st = "wait"
       /\ writer'[r][i].st = "offer" =>
            writer[r][i].st = "offer" \/ writer[r][i].n < MaxWrites[r]
       /\ writer'[r][i].st # "idle" => writer[r][i].st # "idle" \/ i \in held[r]

(* A payload is read.                                                      *)
Reads(s, i) ==
  /\ UNCHANGED <<loop, busy, wire, nextID, dial, dialing, conns, accept, held, closed,
                 closing, writer>>
  /\ i \in held[s]
  /\ readB[s][i] # <<>>
  /\ rcvd'[s][i] = Append(rcvd[s][i], Head(readB[s][i]))
  /\ readB'[s][i] = Tail(readB[s][i])
  /\ \A r \in Side, j \in Id :
       r # s \/ j # i => rcvd'[r][j] = rcvd[r][j] /\ readB'[r][j] = readB[r][j]

(* A child is closed by its program, or the goroutine of Close ends.       *)
ClosedMoves ==
  /\ UNCHANGED <<loop, busy, wire, nextID, dial, dialing, conns, accept, held,
                 readB, rcvd, writer>>
  /\ \A r \in Side : closed[r] \subseteq closed'[r] /\ closed'[r] \subseteq closed[r] \union held[r]
  /\ \A r \in Side, i \in Id :
       closing'[r][i] > 0 => closing[r][i] > 0 \/ i \in closed'[r]

(* A Mux is closed, or its loop notices that or the end of the peer.       *)
LoopMoves ==
  /\ UNCHANGED <<busy, wire, nextID, dial, dialing, conns, accept, held, closed,
                 closing, readB, rcvd, writer>>
  /\ \A r \in Side : loop'[r] = loop[r] \/ (loop[r] = "select" /\ loop'[r] = "ending")

(* The loop takes a dial.                                                  *)
Dials(s, c) ==
  /\ UNCHANGED <<wire, nextID, dialing, conns, accept, held, closed, closing,
                 readB, rcvd, writer>>
  /\ Caller(c) = s /\ loop[s] = "select"
  /\ dial[c].st = "offer"
  /\ dial'[c].st = "wait" /\ dial'[c].id = nextID[s]
  /\ \A d \in Call \ {c} : dial'[d] = dial[d]
  /\ Starts(s, "dial", nextID[s], "dial") /\ busy'[s].call = c

(* The loop takes a write for a child that it routes.                      *)
Offers(s, i) ==
  /\ UNCHANGED <<wire, nextID, dial, dialing, conns, accept, held, closed, closing,
                 readB, rcvd>>
  /\ loop[s] = "select" /\ i \in conns[s]
  /\ writer[s][i].st = "offer" /\ writer'[s][i].st = "wait"
  /\ writer'[s][i].n = writer[s][i].n
  /\ \A r \in Side, j \in Id : r # s \/ j # i => writer'[r][j] = writer[r][j]
  /\ Starts(s, "payload", i, "payload") /\ busy'[s].m.n = writer[s][i].n + 1

(* The first d messages that s has not handled are taken; they do not      *)
(* carry any of the types T.                                               *)
Takes(s, d, T) ==
  /\ d \in {0, 1} /\ Cut(Peer(s), d)
  /\ wire'[s] = wire[s]
  /\ \A k \in 1 .. d : wire[Peer(s)][k].t \notin T

(* A child leaves the map, closed; the peer is told unless it said so.     *)
Unroutes(s, i, d) ==
  /\ UNCHANGED <<nextID, dial, dialing, accept, held, readB, rcvd, writer>>
  /\ loop[s] \in {"select", "cleanup"}
  /\ Takes(s, d, {"dial", "dialAck", "payload"})
  /\ i \in conns[s] \/ closing[s][i] > 0
  /\ conns'[s] = conns[s] \ {i} /\ conns'[Peer(s)] = conns[Peer(s)]
  /\ closed'[s] \in {closed[s], closed[s] \union {i}} /\ closed'[Peer(s)] = closed[Peer(s)]
  /\ closing[s][i] > 0 \/ closed'[s] = closed[s] \union {i}
  /\ \A r \in Side, j \in Id : closing'[r][j] > 0 => closing[r][j] > 0
  /\ \/ UNCHANGED <<loop, busy>>
     \/ \E then \in {"loop", "cleanup"} :
          /\ Starts(s, "close", i, then)
          /\ then = "cleanup" <=> loop[s] = "cleanup"

(* The peer is told that a connection is not known or not wanted.          *)
Replies(s, i, d) ==
  /\ UNCHANGED <<nextID, dial, dialing, conns, accept, held, closed, closing,
                 readB, rcvd, writer>>
  /\ Starts(s, "errChild", i, "loop")
  /\ Takes(s, d, {"none", "errChild"})
  /\ \/ /\ loop[s] = "accept" /\ d = 0 /\ busy[s].m.id = i
     \/ /\ loop[s] = "select" /\ d = 1 /\ wire[Peer(s)][1].id = i
        /\ wire[Peer(s)][1].t = "dialAck" => DialingAs(s, i) = {}
        /\ wire[Peer(s)][1].t = "payload" => i \notin conns[s]

(* acceptDial takes over.                                                  *)
Considers(s, i) ==
  /\ UNCHANGED <<nextID, dial, dialing, conns, accept, held, closed, closing,
                 readB, rcvd, writer>>
  /\ Takes(s, 1, {"dialAck", "errChild", "close", "payload"})
  /\ loop[s] = "select" /\ wire[Peer(s)][1].t = "dial" /\ wire[Peer(s)][1].id = i
  /\ loop'[s] = "accept" /\ busy'[s].m.t = "dialAck" /\ busy'[s].m.id = i
  /\ busy'[s].then = "loop"
  /\ PeerStays(s)

(* acceptDial queues the child.                                            *)
Queues(s, i) ==
  /\ UNCHANGED <<busy, wire, nextID, dial, dialing, held, closed, closing,
                 readB, rcvd, writer>>
  /\ loop[s] = "accept" /\ busy[s].m.id = i
  /\ loop'[s] = "write" /\ loop'[Peer(s)] = loop[Peer(s)]
  /\ conns'[s] = conns[s] \union {i} /\ conns'[Peer(s)] = conns[Peer(s)]
  /\ Children(s)' = Children(s) \union {i} /\ Children(Peer(s))' = Children(Peer(s))
  /\ \A r \in Side : Len(accept'[r]) <= AcceptCap \/ accept'[r] = accept[r]
  /\ accept'[s] = Append(accept[s], i) /\ accept'[Peer(s)] = accept[Peer(s)]

(* A dial is acknowledged: the calls C that wait under i get it.           *)
Connects(s, i, C) ==
  /\ UNCHANGED <<busy, nextID, accept, closed, closing, readB, rcvd, writer>>
  /\ Takes(s, 1, {"none", "dial", "errChild", "close", "payload"})
  /\ loop[s] = "select" /\ wire[Peer(s)][1].t = "dialAck" /\ wire[Peer(s)][1].id = i
  /\ C = DialingAs(s, i) /\ C # {}
  /\ dialing'[s] = dialing[s] \ C /\ dialing'[Peer(s)] = dialing[Peer(s)]
  /\ conns'[s] = conns[s] \union {i} /\ conns'[Peer(s)] = conns[Peer(s)]
  /\ held'[s] = held[s] \union {i} /\ held'[Peer(s)] = held[Peer(s)]
  /\ \A c \in Call : /\ dial'[c].id = dial[c].id
                     /\ dial'[c].st = IF c \in C THEN "ok" ELSE dial[c].st
  /\ loop'[s] = (IF \A c \in C : dial[c].st = "wait" THEN "select" ELSE "panic")
  /\ loop'[Peer(s)] = loop[Peer(s)]

(* A dial is refused: the calls C that wait under i fail, and stay.        *)
Refuses(s, i, C) ==
  /\ UNCHANGED <<busy, nextID, dialing, conns, accept, held, closed, closing,
                 readB, rcvd, writer>>
  /\ Takes(s, 1, {"none", "dial", "dialAck", "close", "payload"})
  /\ loop[s] = "select" /\ wire[Peer(s)][1].t = "errChild" /\ wire[Peer(s)][1].id = i
  /\ C = DialingAs(s, i)
  /\ \A c \in Call : /\ dial'[c].id = dial[c].id
                     /\ dial'[c].st = IF c \in C THEN "err" ELSE dial[c].st
  /\ loop'[s] \in {"select", "panic"}
  /\ loop'[Peer(s)] = loop[Peer(s)]

(* A payload goes to the read buffer.                                      *)
Delivers(s, i) ==
  /\ UNCHANGED <<loop, busy, nextID, dial, dialing, conns, accept, held, closed, closing,
                 rcvd, writer>>
  /\ Takes(s, 1, {"none", "dial", "dialAck", "errChild", "close"})
  /\ wire[Peer(s)][1].t = "payload" /\ wire[Peer(s)][1].id = i /\ i \in conns[s]
  /\ readB'[s][i] = Append(readB[s][i], wire[Peer(s)][1].n)
  /\ \A r \in Side, j \in Id : r # s \/ j # i => readB'[r][j] = readB[r][j]

(* The cleanup fails the calls in the dialing map.                         *)
FailsDials(s) ==
  /\ UNCHANGED <<busy, wire, nextID, conns, accept, held, closed, closing,
                 readB, rcvd, writer>>
  /\ loop[s] = "ending" /\ loop'[s] \in {"cleanup", "panic"}
  /\ loop'[Peer(s)] = loop[Peer(s)]
  /\ dialing'[s] = {} /\ dialing'[Peer(s)] = dialing[Peer(s)]
  /\ \A c \in Call : /\ dial'[c].id = dial[c].id
                     /\ dial'[c].st # dial[c].st =>
                          c \in dialing[s] /\ dial[c].st = "wait" /\ dial'[c].st = "err"

(* The cleanup ends.                                                       *)
Ends(s) ==
  /\ UNCHANGED <<busy, nextID, dial, dialing, conns, accept, held, closed, closing,
                 readB, rcvd, writer>>
  /\ loop[s] = "cleanup" /\ loop'[s] = "done" /\ loop'[Peer(s)] = loop[Peer(s)]
  /\ conns[s] = {}
  /\ wire'[s] = wire[s] /\ wire'[Peer(s)] = <<>>

(* A write is complete.                                                    *)
Writes(s) ==
  /\ UNCHANGED <<dial, conns, accept, held, closed, closing, readB, rcvd>>
  /\ loop[s] = "write" /\ loop[Peer(s)] \notin {"done", "panic"}
  /\ Len(wire[s]) < PipeCap
  /\ wire'[s] = Append(wire[s], busy[s].m) /\ wire'[Peer(s)] = wire[Peer(s)]
  /\ loop'[s] = (IF busy[s].then = "cleanup" THEN "cleanup" ELSE "select")
  /\ loop'[Peer(s)] = loop[Peer(s)]
  /\ busy'[s] = NotBusy /\ busy'[Peer(s)] = busy[Peer(s)]
  /\ nextID'[s] = (IF busy[s].then = "dial" THEN nextID[s] + 2 ELSE nextID[s])
  /\ nextID'[Peer(s)] = nextID[Peer(s)]
  /\ dialing'[s] = (IF busy[s].then = "dial" THEN dialing[s] \union {busy[s].call} ELSE dialing[s])
  /\ dialing'[Peer(s)] = dialing[Peer(s)]
  /\ \A r \in Side, j \in Id :
       IF busy[s].then = "payload" /\ r = s /\ j = busy[s].m.id
       THEN writer'[r][j].st = "idle" /\ writer'[r][j].n = writer[r][j].n + 1
       ELSE writer'[r][j] = writer[r][j]

(* A write has failed.                                                     *)
Fails(s) ==
  /\ UNCHANGED <<wire, nextID, dialing, conns, accept, held, closed, closing, readB, rcvd>>
  /\ loop[s] = "write" /\ loop[Peer(s)] \in {"done", "panic"}
  /\ loop'[s] = (IF busy[s].then = "payload" THEN "select"
                 ELSE IF busy[s].then = "cleanup" THEN "cleanup" ELSE "ending")
  /\ loop'[Peer(s)] = loop[Peer(s)]
  /\ busy'[s] = NotBusy /\ busy'[Peer(s)] = busy[Peer(s)]
  /\ \A c \in Call :
       /\ dial'[c].id = dial[c].id
       /\ dial'[c].st = IF busy[s].then = "dial" /\ c = busy[s].call THEN "err" ELSE dial[c].st
  /\ \A r \in Side, j \in Id :
       /\ writer'[r][j].n = writer[r][j].n
       /\ writer'[r][j].st = IF busy[s].then = "payload" /\ r = s /\ j = busy[s].m.id
                             THEN "failed" ELSE writer[r][j].st

(* The programs' steps are such ones.                                      *)
LEMMA ProgramEffects ==
  ASSUME Types, ProgramStep \/ CallStep
  PROVE  \/ DialMoves \/ AcceptMoves \/ WriterMoves \/ ClosedMoves \/ LoopMoves
         \/ \E s \in Side, i \in Id : Reads(s, i)
<1>1. ASSUME NEW c \in Call, DialContext(c) \/ ContextExpires(c) \/ DialGivesUp(c)
      PROVE  DialMoves
  <2>1. dial \in [Call -> DialCB]
    BY TypeParts
  <2>2. CASE DialContext(c)
    BY <2>1, <2>2 DEF DialContext, DialMoves, DialCB
  <2>3. CASE ContextExpires(c)
    BY <2>1, <2>3 DEF ContextExpires, DialMoves, DialCB
  <2>4. CASE DialGivesUp(c)
    BY <2>1, <2>4 DEF DialGivesUp, DialMoves, DialCB
  <2> QED
    BY <1>1, <2>2, <2>3, <2>4
<1>2. ASSUME NEW s \in Side, AcceptContext(s)
      PROVE  AcceptMoves
  <2>1. accept \in [Side -> Seq(Id)] /\ held \in [Side -> SUBSET Id]
    BY DEF Types
  <2> DEFINE q == accept[s]
  <2>2. q \in Seq(Id) /\ q # <<>>
    BY <1>2, <2>1 DEF AcceptContext
  <2>3. /\ accept'[s] = Tail(q) /\ held'[s] = held[s] \union {Head(q)}
        /\ \A r \in Side \ {s} : accept'[r] = accept[r] /\ held'[r] = held[r]
    BY <1>2, <2>1 DEF AcceptContext
  <2> HIDE DEF q
  <2>4. /\ Len(q) \in Nat /\ Len(q) > 0 /\ Head(q) = q[1] /\ Len(Tail(q)) = Len(q) - 1
        /\ \A k \in 1 .. Len(q) - 1 : Tail(q)[k] = q[k + 1]
    BY <2>2
  <2>5. {q[k] : k \in 1 .. Len(q)} = {Head(q)} \union {Tail(q)[k] : k \in 1 .. Len(Tail(q))}
    <3>1. ASSUME NEW k \in 1 .. Len(q)
          PROVE  k = 1 \/ (k - 1 \in 1 .. Len(q) - 1 /\ Tail(q)[k - 1] = q[k])
      BY <2>4
    <3>2. ASSUME NEW k \in 1 .. Len(Tail(q))
          PROVE  k + 1 \in 1 .. Len(q) /\ Tail(q)[k] = q[k + 1]
      BY <2>4
    <3>3. 1 \in 1 .. Len(q)
      BY <2>4
    <3> QED
      BY <2>4, <3>1, <3>2, <3>3
  <2>6. Queued(s) = {Head(q)} \union Queued(s)'
    BY <2>3, <2>5 DEF Queued, q
  <2>7. \A r \in Side : /\ Children(r)' = Children(r) /\ held[r] \subseteq held'[r]
                        /\ Len(accept'[r]) <= Len(accept[r])
    <3>1. Children(s)' = Children(s) /\ held[s] \subseteq held'[s]
      BY <2>3, <2>6 DEF Children
    <3>2. Len(accept'[s]) <= Len(accept[s])
      BY <2>3, <2>4 DEF q
    <3>3. ASSUME NEW r \in Side \ {s}
          PROVE  /\ Children(r)' = Children(r) /\ held[r] \subseteq held'[r]
                 /\ Len(accept'[r]) <= Len(accept[r])
      <4>1. Len(accept[r]) \in Nat
        BY <2>1
      <4> QED
        BY <2>3, <4>1 DEF Children, Queued
    <3> QED
      BY <3>1, <3>2, <3>3
  <2>8. /\ q # <<>>
        /\ held'[s] = held[s] \union {Head(q)} /\ accept'[s] = Tail(q)
        /\ held'[Peer(s)] = held[Peer(s)] /\ accept'[Peer(s)] = accept[Peer(s)]
    BY <2>2, <2>3, SideFacts
  <2>9. UNCHANGED <<loop, busy, wire, nextID, dial, dialing, conns, closed, closing,
                    readB, rcvd, writer>>
    BY <1>2 DEF AcceptContext
  <2> QED
    BY <2>7, <2>8, <2>9 DEF AcceptMoves, q
<1>3. ASSUME NEW s \in Side, MuxClose(s)
      PROVE  LoopMoves
  BY <1>3 DEF MuxClose, LoopMoves
<1>4. ASSUME NEW s \in Side, NEW i \in Id, ChildWrite(s, i) \/ ChildWriteFails(s, i)
      PROVE  WriterMoves
  <2>1. writer \in [Side -> [Id -> Writer]]
    BY TypeParts
  <2>2. CASE ChildWrite(s, i)
    BY <2>1, <2>2 DEF ChildWrite, WriterMoves, Writer
  <2>3. CASE ChildWriteFails(s, i)
    BY <2>1, <2>3 DEF ChildWriteFails, WriterMoves, Writer
  <2> QED
    BY <1>4, <2>2, <2>3
<1>5. ASSUME NEW s \in Side, NEW i \in Id, ChildRead(s, i)
      PROVE  Reads(s, i)
  <2>1. readB \in [Side -> [Id -> Seq(Nat)]] /\ rcvd \in [Side -> [Id -> Seq(Nat)]]
    BY DEF Types
  <2> QED
    BY <1>5, <2>1 DEF ChildRead, Reads
<1>6. ASSUME NEW s \in Side, NEW i \in Id, ChildClose(s, i) \/ ChildClosedLate(s, i)
      PROVE  ClosedMoves
  <2>1. closing \in [Side -> [Id -> Nat]] /\ closed \in [Side -> SUBSET Id]
    BY DEF Types
  <2>2. CASE ChildClose(s, i)
    BY <2>1, <2>2 DEF ChildClose, ClosedMoves
  <2>3. CASE ChildClosedLate(s, i)
    BY <2>1, <2>3 DEF ChildClosedLate, ClosedMoves
  <2> QED
    BY <1>6, <2>2, <2>3
<1> QED
  BY <1>1, <1>2, <1>3, <1>4, <1>5, <1>6 DEF ProgramStep, CallStep

(* So are the loops' steps that take calls or write.                       *)
LEMMA LoopEffects ==
  ASSUME Types, Writing, Types', NEW s \in Side,
         \/ WriteSucceeds(s) \/ WriteFails(s) \/ LoopClose(s) \/ HandleEOF(s)
         \/ \E c \in Call : Caller(c) = s /\ LoopDial(c)
         \/ \E i \in Id : LoopWrite(s, i)
  PROVE  \/ Writes(s) \/ Fails(s) \/ WriterMoves \/ LoopMoves
         \/ \E c \in Call : Dials(s, c)
         \/ \E i \in Id : Offers(s, i)
<1>1. CASE LoopClose(s) \/ HandleEOF(s)
  <2>1. loop \in [Side -> Locs]
    BY TypeParts
  <2>2. LoopMoves
    BY <1>1, <2>1 DEF LoopClose, HandleEOF, LoopMoves
  <2> QED
    BY <2>2
<1>2. ASSUME NEW c \in Call, Caller(c) = s, LoopDial(c)
      PROVE  Dials(s, c)
  <2>1. loop \in [Side -> Locs] /\ busy \in [Side -> Busy] /\ dial \in [Call -> DialCB]
    BY TypeParts
  <2>2. /\ loop'[s] = "write" /\ PeerStays(s)
        /\ busy'[s] = [m |-> Msg("dial", nextID[s]), then |-> "dial", call |-> c]
    BY <1>2, <2>1, SideFacts DEF LoopDial, Send, PeerStays
  <2>3. Starts(s, "dial", nextID[s], "dial") /\ busy'[s].call = c
    BY <2>2 DEF Starts, Msg
  <2>4. /\ dial'[c].st = "wait" /\ dial'[c].id = nextID[s]
        /\ \A d \in Call \ {c} : dial'[d] = dial[d]
    BY <1>2, <2>1 DEF LoopDial, DialCB
  <2> QED
    BY <1>2, <2>3, <2>4 DEF LoopDial, Dials
<1>3. ASSUME NEW i \in Id, LoopWrite(s, i), i \in conns[s]
      PROVE  Offers(s, i)
  <2>1. /\ loop \in [Side -> Locs] /\ busy \in [Side -> Busy]
        /\ writer \in [Side -> [Id -> Writer]]
    BY TypeParts
  <2>2. /\ loop'[s] = "write" /\ PeerStays(s)
        /\ busy'[s] = [m |-> Payload(i, writer[s][i].n + 1), then |-> "payload", call |-> NoCall]
    BY <1>3, <2>1, SideFacts DEF LoopWrite, Send, PeerStays
  <2>3. Starts(s, "payload", i, "payload") /\ busy'[s].m.n = writer[s][i].n + 1
    BY <2>2 DEF Starts, Payload
  <2>4. /\ writer'[s][i].st = "wait" /\ writer'[s][i].n = writer[s][i].n
        /\ \A r \in Side, j \in Id : r # s \/ j # i => writer'[r][j] = writer[r][j]
    <3>1. writer' = [writer EXCEPT ![s][i].st = "wait"]
      BY <1>3 DEF LoopWrite
    <3> QED
      BY <2>1, <3>1 DEF Writer
  <2> QED
    BY <1>3, <2>3, <2>4 DEF LoopWrite, Offers
<1>4. ASSUME NEW i \in Id, LoopWrite(s, i), i \notin conns[s]
      PROVE  WriterMoves
  <2>1. writer \in [Side -> [Id -> Writer]]
    BY TypeParts
  <2>2. /\ writer' = [writer EXCEPT ![s][i].st = "failed"] /\ writer[s][i].st = "offer"
        /\ UNCHANGED <<loop, busy, wire, nextID, dial, dialing, conns, accept, held, closed,
                       closing, readB, rcvd>>
    BY <1>4 DEF LoopWrite
  <2> QED
    BY <2>1, <2>2 DEF WriterMoves, Writer
<1>5. CASE WriteSucceeds(s)
  <2>1. /\ loop \in [Side -> Locs] /\ busy \in [Side -> Busy] /\ wire \in [Side -> Seq(Message)]
        /\ nextID \in [Side -> Nat] /\ dialing \in [Side -> SUBSET Call]
        /\ busy[s].m.id \in Id
    BY DEF Types, Busy, Message
  <2>2. /\ loop'[s] = (IF busy[s].then = "cleanup" THEN "cleanup" ELSE "select")
        /\ loop'[Peer(s)] = loop[Peer(s)]
        /\ busy'[s] = NotBusy /\ busy'[Peer(s)] = busy[Peer(s)]
        /\ wire'[s] = Append(wire[s], busy[s].m) /\ wire'[Peer(s)] = wire[Peer(s)]
    BY <1>5, <2>1, SideFacts DEF WriteSucceeds, Written, AfterWrite
  <2>3. /\ nextID'[s] = (IF busy[s].then = "dial" THEN nextID[s] + 2 ELSE nextID[s])
        /\ nextID'[Peer(s)] = nextID[Peer(s)]
    BY <1>5, <2>1, SideFacts DEF WriteSucceeds
  <2>4. /\ dialing'[s] = (IF busy[s].then = "dial" THEN dialing[s] \union {busy[s].call}
                          ELSE dialing[s])
        /\ dialing'[Peer(s)] = dialing[Peer(s)]
    BY <1>5, <2>1, SideFacts DEF WriteSucceeds, Dialed
  <2>5. \A r \in Side, j \in Id :
          IF busy[s].then = "payload" /\ r = s /\ j = busy[s].m.id
          THEN writer'[r][j].st = "idle" /\ writer'[r][j].n = writer[r][j].n + 1
          ELSE writer'[r][j] = writer[r][j]
    <3>1. writer \in [Side -> [Id -> Writer]]
      BY TypeParts
    <3>2. CASE busy[s].then = "payload"
      <4>1. writer' = [writer EXCEPT ![s][busy[s].m.id] = [st |-> "idle", n |-> @.n + 1]]
        BY <1>5, <3>2 DEF WriteSucceeds, Written
      <4> QED
        BY <2>1, <3>1, <3>2, <4>1
    <3>3. CASE busy[s].then # "payload"
      BY <1>5, <3>3 DEF WriteSucceeds, Written
    <3> QED
      BY <3>2, <3>3
  <2> QED
    BY <1>5, <2>2, <2>3, <2>4, <2>5 DEF WriteSucceeds, Written, ConnEnded, Writes
<1>6. CASE WriteFails(s)
  <2>1. /\ loop \in [Side -> Locs] /\ busy \in [Side -> Busy]
        /\ busy[s].m.id \in Id
    BY DEF Types, Busy, Message
  <2>2. /\ loop'[s] = (IF busy[s].then = "payload" THEN "select"
                       ELSE IF busy[s].then = "cleanup" THEN "cleanup" ELSE "ending")
        /\ loop'[Peer(s)] = loop[Peer(s)]
        /\ busy'[s] = NotBusy /\ busy'[Peer(s)] = busy[Peer(s)]
    BY <1>6, <2>1, SideFacts DEF WriteFails
  <2>3. \A c \in Call :
          /\ dial'[c].id = dial[c].id
          /\ dial'[c].st = IF busy[s].then = "dial" /\ c = busy[s].call THEN "err" ELSE dial[c].st
    <3>1. dial \in [Call -> DialCB]
      BY TypeParts
    <3>2. CASE busy[s].then = "dial"
      <4>1. dial' = [dial EXCEPT ![busy[s].call].st = "err"] /\ busy[s].call \in Call
        BY <1>6, <3>2 DEF WriteFails, Writing, WritingOf
      <4> QED
        BY <3>1, <3>2, <4>1 DEF DialCB
    <3>3. CASE busy[s].then # "dial"
      BY <1>6, <3>3 DEF WriteFails
    <3> QED
      BY <3>2, <3>3
  <2>4. \A r \in Side, j \in Id :
          /\ writer'[r][j].n = writer[r][j].n
          /\ writer'[r][j].st = IF busy[s].then = "payload" /\ r = s /\ j = busy[s].m.id
                                THEN "failed" ELSE writer[r][j].st
    <3>1. writer \in [Side -> [Id -> Writer]]
      BY TypeParts
    <3>2. CASE busy[s].then = "payload"
      <4>1. writer' = [writer EXCEPT ![s][busy[s].m.id].st = "failed"]
        BY <1>6, <3>2 DEF WriteFails
      <4> QED
        BY <2>1, <3>1, <3>2, <4>1 DEF Writer
    <3>3. CASE busy[s].then # "payload"
      BY <1>6, <3>3 DEF WriteFails
    <3> QED
      BY <3>2, <3>3
  <2> QED
    BY <1>6, <2>2, <2>3, <2>4 DEF WriteFails, ConnEnded, Fails
<1> QED
  BY <1>1, <1>2, <1>3, <1>4, <1>5, <1>6

(* A loop that sends starts to write.                                      *)
LEMMA SendStarts ==
  ASSUME Types, NEW s \in Side, NEW t, NEW i, NEW then, NEW c, Send(s, Msg(t, i), then, c)
  PROVE  Starts(s, t, i, then)
<1>1. loop \in [Side -> Locs] /\ busy \in [Side -> Busy]
  BY TypeParts
<1>2. /\ loop'[s] = "write" /\ PeerStays(s)
      /\ busy'[s] = [m |-> Msg(t, i), then |-> then, call |-> c]
  BY <1>1, SideFacts DEF Send, PeerStays
<1> QED
  BY <1>2 DEF Starts, Msg

(* A loop that handles a message takes the first one.                      *)
LEMMA TakeCuts ==
  ASSUME Types, NEW s \in Side, NEW t, Receives(s, t), Take(s)
  PROVE  /\ Cut(Peer(s), 1) /\ wire'[s] = wire[s] /\ loop[s] = "select"
         /\ Received(s) = wire[Peer(s)][1] /\ wire[Peer(s)][1].t = t
         /\ \A T : t \notin T => Takes(s, 1, T)
         /\ Received(s).id \in Id
<1>1. wire \in [Side -> Seq(Message)]
  BY DEF Types
<1>2. /\ Peer(s) \in Side /\ Peer(s) # s
      /\ wire[Peer(s)] \in Seq(Message) /\ wire[Peer(s)] # <<>>
  BY <1>1, SideFacts DEF Receives
<1>3. wire'[Peer(s)] = Tail(wire[Peer(s)]) /\ wire'[s] = wire[s]
  BY <1>1, <1>2 DEF Take
<1>4. Cut(Peer(s), 1)
  BY <1>2, <1>3, CutFacts
<1>5. Received(s) = wire[Peer(s)][1] /\ wire[Peer(s)][1].t = t
  BY <1>2, TailFacts DEF Received, Receives
<1>6. \A k \in 1 .. 1 : k = 1
  OBVIOUS
<1>7. \A T : t \notin T => Takes(s, 1, T)
  BY <1>3, <1>4, <1>5, <1>6 DEF Takes
<1> QED
  BY <1>3, <1>4, <1>5, <1>7, TakeType DEF Receives

(* The steps that handle a message are such ones.                          *)
LEMMA HandleEffects ==
  ASSUME Types, NEW s \in Side,
         HandleDial(s) \/ HandleDialAck(s) \/ HandleErrChild(s) \/ HandleClose(s)
           \/ HandlePayload(s)
  PROVE  \E i \in Id :
           \/ Replies(s, i, 1) \/ Considers(s, i) \/ Unroutes(s, i, 1) \/ Delivers(s, i)
           \/ \E C \in SUBSET Call : Connects(s, i, C) \/ Refuses(s, i, C)
<1> DEFINE i == Received(s).id
           p == Peer(s)
<1>0. /\ loop \in [Side -> Locs] /\ busy \in [Side -> Busy] /\ dial \in [Call -> DialCB]
      /\ dialing \in [Side -> SUBSET Call] /\ conns \in [Side -> SUBSET Id]
      /\ held \in [Side -> SUBSET Id] /\ closed \in [Side -> SUBSET Id]
      /\ closing \in [Side -> [Id -> Nat]] /\ readB \in [Side -> [Id -> Seq(Nat)]]
      /\ p \in Side /\ p # s
  BY SideFacts DEF Types
<1>a. DialingAs(s, i) \in SUBSET Call
  BY <1>0 DEF DialingAs
<1>1. CASE HandleDial(s)
  <2>1. /\ loop[s] = "select" /\ i = wire[p][1].id /\ wire[p][1].t = "dial" /\ i \in Id
        /\ Takes(s, 1, {"none", "errChild"})
        /\ Takes(s, 1, {"dialAck", "errChild", "close", "payload"})
    BY <1>1, TakeCuts DEF HandleDial
  <2>2. CASE s \in NoAccept
    <3>1. Starts(s, "errChild", i, "loop")
      BY <1>1, <2>2, SendStarts DEF HandleDial
    <3>2. Replies(s, i, 1)
      BY <1>1, <2>1, <3>1 DEF HandleDial, Replies
    <3> QED
      BY <2>1, <3>2
  <2>3. CASE s \notin NoAccept
    <3>1. /\ loop'[s] = "accept" /\ PeerStays(s)
          /\ busy'[s] = [m |-> Msg("dialAck", i), then |-> "loop", call |-> NoCall]
      BY <1>0, <1>1, <2>3 DEF HandleDial, PeerStays
    <3>2. busy'[s].m.t = "dialAck" /\ busy'[s].m.id = i /\ busy'[s].then = "loop"
      BY <3>1 DEF Msg
    <3>3. Considers(s, i)
      BY <1>1, <2>1, <3>1, <3>2 DEF HandleDial, Considers
    <3> QED
      BY <2>1, <3>3
  <2> QED
    BY <2>2, <2>3
<1>2. CASE HandleDialAck(s)
  <2>1. /\ loop[s] = "select" /\ i = wire[p][1].id /\ wire[p][1].t = "dialAck" /\ i \in Id
        /\ Takes(s, 1, {"none", "errChild"})
        /\ Takes(s, 1, {"none", "dial", "errChild", "close", "payload"})
    BY <1>2, TakeCuts DEF HandleDialAck
  <2>2. CASE DialingAs(s, i) = {}
    <3>1. Starts(s, "errChild", i, "loop")
      BY <1>2, <2>2, SendStarts DEF HandleDialAck
    <3>2. Replies(s, i, 1)
      BY <1>2, <2>1, <2>2, <3>1 DEF HandleDialAck, Replies
    <3> QED
      BY <2>1, <3>2
  <2>3. CASE DialingAs(s, i) # {}
    <3> DEFINE C == DialingAs(s, i)
    <3>1. /\ dialing' = [dialing EXCEPT ![s] = @ \ C]
          /\ conns' = [conns EXCEPT ![s] = @ \union {i}]
          /\ held' = [held EXCEPT ![s] = @ \union {i}]
          /\ dial' = [c \in Call |-> IF c \in C THEN [dial[c] EXCEPT !.st = "ok"] ELSE dial[c]]
          /\ UNCHANGED <<busy, nextID, accept, closed, closing, readB, rcvd, writer>>
          /\ loop' = IF \A c \in C : dial[c].st = "wait" THEN loop
                     ELSE [loop EXCEPT ![s] = "panic"]
      BY <1>2, <2>3 DEF HandleDialAck
    <3> HIDE DEF C, i, p
    <3>2. /\ dialing'[s] = dialing[s] \ C /\ dialing'[p] = dialing[p]
          /\ conns'[s] = conns[s] \union {i} /\ conns'[p] = conns[p]
          /\ held'[s] = held[s] \union {i} /\ held'[p] = held[p]
      BY <1>0, <3>1
    <3>3. \A c \in Call : /\ dial'[c].id = dial[c].id
                          /\ dial'[c].st = IF c \in C THEN "ok" ELSE dial[c].st
      BY <1>0, <3>1 DEF DialCB
    <3>4. /\ loop'[s] = (IF \A c \in C : dial[c].st = "wait" THEN "select" ELSE "panic")
          /\ loop'[p] = loop[p]
      BY <1>0, <2>1, <3>1
    <3>5. Connects(s, i, C)
      BY <2>1, <2>3, <3>1, <3>2, <3>3, <3>4 DEF Connects, C, p
    <3> QED
      BY <1>a, <2>1, <3>5 DEF C
  <2> QED
    BY <2>2, <2>3
<1>3. CASE HandleErrChild(s)
  <2>1. /\ loop[s] = "select" /\ i = wire[p][1].id /\ wire[p][1].t = "errChild" /\ i \in Id
        /\ Takes(s, 1, {"none", "dial", "dialAck", "close", "payload"})
        /\ Takes(s, 1, {"dial", "dialAck", "payload"})
    BY <1>3, TakeCuts DEF HandleErrChild
  <2>2. CASE i \in conns[s]
    <3>1. Starts(s, "close", i, "loop")
      BY <1>3, <2>2, SendStarts DEF HandleErrChild
    <3>2. /\ closed' = [closed EXCEPT ![s] = @ \union {i}] /\ conns' = [conns EXCEPT ![s] = @ \ {i}]
          /\ UNCHANGED <<nextID, dial, dialing, accept, held, closing, readB, rcvd, writer>>
      BY <1>3, <2>2 DEF HandleErrChild
    <3> HIDE DEF i, p
    <3>3. /\ conns'[s] = conns[s] \ {i} /\ conns'[p] = conns[p]
          /\ closed'[s] = closed[s] \union {i} /\ closed'[p] = closed[p]
      BY <1>0, <3>2
    <3>4. Unroutes(s, i, 1)
      BY <2>1, <2>2, <3>1, <3>2, <3>3 DEF Unroutes, p
    <3> QED
      BY <2>1, <3>4
  <2>3. CASE i \notin conns[s]
    <3> DEFINE C == DialingAs(s, i)
    <3>1. /\ dial' = [c \in Call |-> IF c \in C THEN [dial[c] EXCEPT !.st = "err"] ELSE dial[c]]
          /\ UNCHANGED <<busy, closed, conns, nextID, dialing, accept, held, closing, readB,
                         rcvd, writer>>
          /\ loop' = IF \A c \in C : dial[c].st = "wait" THEN loop
                     ELSE [loop EXCEPT ![s] = "panic"]
      BY <1>3, <2>3 DEF HandleErrChild
    <3> HIDE DEF C, i, p
    <3>2. \A c \in Call : /\ dial'[c].id = dial[c].id
                          /\ dial'[c].st = IF c \in C THEN "err" ELSE dial[c].st
      BY <1>0, <3>1 DEF DialCB
    <3>3. loop'[s] \in {"select", "panic"} /\ loop'[p] = loop[p]
      BY <1>0, <2>1, <3>1
    <3>4. Refuses(s, i, C)
      BY <2>1, <3>1, <3>2, <3>3 DEF Refuses, C, p
    <3> QED
      BY <1>a, <2>1, <3>4 DEF C
  <2> QED
    BY <2>2, <2>3
<1>4. CASE HandleClose(s)
  <2>1. /\ loop[s] = "select" /\ i = wire[p][1].id /\ wire[p][1].t = "close" /\ i \in Id
        /\ Takes(s, 1, {"none", "errChild"})
        /\ Takes(s, 1, {"dial", "dialAck", "payload"})
    BY <1>4, TakeCuts DEF HandleClose
  <2>2. CASE i \in conns[s]
    <3>1. /\ closed' = [closed EXCEPT ![s] = @ \union {i}] /\ conns' = [conns EXCEPT ![s] = @ \ {i}]
          /\ UNCHANGED <<loop, busy, nextID, dial, dialing, accept, held, closing, readB, rcvd,
                         writer>>
      BY <1>4, <2>2 DEF HandleClose
    <3> HIDE DEF i, p
    <3>2. /\ conns'[s] = conns[s] \ {i} /\ conns'[p] = conns[p]
          /\ closed'[s] = closed[s] \union {i} /\ closed'[p] = closed[p]
      BY <1>0, <3>1
    <3>3. Unroutes(s, i, 1)
      BY <2>1, <2>2, <3>1, <3>2 DEF Unroutes, p
    <3> QED
      BY <2>1, <3>3
  <2>3. CASE i \notin conns[s]
    <3>1. Starts(s, "errChild", i, "loop")
      BY <1>4, <2>3, SendStarts DEF HandleClose
    <3>2. Replies(s, i, 1)
      BY <1>4, <2>1, <2>3, <3>1 DEF HandleClose, Replies
    <3> QED
      BY <2>1, <3>2
  <2> QED
    BY <2>2, <2>3
<1>5. CASE HandlePayload(s)
  <2>1. /\ loop[s] = "select" /\ i = wire[p][1].id /\ wire[p][1].t = "payload" /\ i \in Id
        /\ Takes(s, 1, {"none", "errChild"})
        /\ Takes(s, 1, {"none", "dial", "dialAck", "errChild", "close"})
        /\ Received(s) = wire[p][1]
    BY <1>5, TakeCuts DEF HandlePayload
  <2>2. CASE i \in conns[s]
    <3>1. /\ readB' = [readB EXCEPT ![s][i] = Append(@, Received(s).n)]
          /\ UNCHANGED <<loop, busy, nextID, dial, dialing, conns, accept, held, closed, closing,
                         rcvd, writer>>
      BY <1>5, <2>2 DEF HandlePayload
    <3> HIDE DEF i, p
    <3>2. /\ readB'[s][i] = Append(readB[s][i], wire[p][1].n)
          /\ \A r \in Side, j \in Id : r # s \/ j # i => readB'[r][j] = readB[r][j]
      BY <1>0, <2>1, <3>1
    <3>3. Delivers(s, i)
      BY <2>1, <2>2, <3>1, <3>2 DEF Delivers, p
    <3> QED
      BY <2>1, <3>3
  <2>3. CASE i \notin conns[s]
    <3>1. Starts(s, "errChild", i, "loop")
      BY <1>5, <2>3, SendStarts DEF HandlePayload
    <3>2. Replies(s, i, 1)
      BY <1>5, <2>1, <2>3, <3>1 DEF HandlePayload, Replies
    <3> QED
      BY <2>1, <3>2
  <2> QED
    BY <2>2, <2>3
<1> QED
  BY <1>1, <1>2, <1>3, <1>4, <1>5

(* And so are the other steps of a loop.                                   *)
LEMMA RestEffects ==
  ASSUME Types, NEW s \in Side,
         \/ AcceptQueued(s) \/ AcceptTimesOut(s) \/ CleanupDials(s) \/ CleanupEnds(s)
         \/ \E i \in Id : LoopChildClosed(s, i) \/ CleanupChild(s, i)
  PROVE  \/ FailsDials(s) \/ Ends(s)
         \/ \E i \in Id : Queues(s, i) \/ Replies(s, i, 0) \/ Unroutes(s, i, 0)
<1> DEFINE p == Peer(s)
<1>0. /\ loop \in [Side -> Locs] /\ busy \in [Side -> Busy] /\ dial \in [Call -> DialCB]
      /\ dialing \in [Side -> SUBSET Call] /\ conns \in [Side -> SUBSET Id]
      /\ closed \in [Side -> SUBSET Id] /\ accept \in [Side -> Seq(Id)]
      /\ closing \in [Side -> [Id -> Nat]] /\ wire \in [Side -> Seq(Message)]
      /\ p \in Side /\ p # s /\ busy[s].m.id \in Id
  BY SideFacts DEF Types, Busy, Message
<1>a. ASSUME wire' = wire
      PROVE  \A T : Takes(s, 0, T)
  <2>1. Cut(p, 0)
    BY <1>0, <1>a, CutFacts
  <2>2. \A k \in 1 .. 0 : FALSE
    OBVIOUS
  <2> QED
    BY <1>a, <2>1, <2>2 DEF Takes
<1>1. ASSUME AcceptQueued(s)
      PROVE  \E i \in Id : Queues(s, i)
  <2> DEFINE i == busy[s].m.id
             q == accept[s]
  <2>1. /\ loop' = [loop EXCEPT ![s] = "write"] /\ conns' = [conns EXCEPT ![s] = @ \union {i}]
        /\ accept' = [accept EXCEPT ![s] = Append(@, i)]
        /\ loop[s] = "accept" /\ Len(accept[s]) < AcceptCap
    BY <1>1 DEF AcceptQueued
  <2>2. UNCHANGED <<busy, wire, nextID, dial, dialing, held, closed, closing, readB, rcvd, writer>>
    BY <1>1 DEF AcceptQueued
  <2>3. q \in Seq(Id) /\ i \in Id
    BY <1>0
  <2>4. accept'[s] = Append(q, i) /\ accept'[p] = accept[p]
    BY <1>0, <2>1
  <2>5. /\ loop'[s] = "write" /\ loop'[p] = loop[p]
        /\ conns'[s] = conns[s] \union {i} /\ conns'[p] = conns[p]
    BY <1>0, <2>1
  <2> HIDE DEF i, q
  <2>6. /\ Len(q) \in Nat /\ Len(Append(q, i)) = Len(q) + 1
        /\ \A k \in 1 .. Len(q) : Append(q, i)[k] = q[k]
        /\ Append(q, i)[Len(q) + 1] = i
    BY <2>3, AppendFacts
  <2>7. {Append(q, i)[k] : k \in 1 .. Len(q) + 1} = {q[k] : k \in 1 .. Len(q)} \union {i}
    <3>1. \A k \in 1 .. Len(q) + 1 : k = Len(q) + 1 \/ k \in 1 .. Len(q)
      BY <2>6
    <3>2. Len(q) + 1 \in 1 .. Len(q) + 1 /\ \A k \in 1 .. Len(q) : k \in 1 .. Len(q) + 1
      BY <2>6
    <3> QED
      BY <2>6, <3>1, <3>2
  <2>8. Queued(s)' = Queued(s) \union {i} /\ Queued(p)' = Queued(p)
    BY <2>4, <2>6, <2>7 DEF Queued, q
  <2>9. Children(s)' = Children(s) \union {i} /\ Children(p)' = Children(p)
    BY <2>2, <2>8 DEF Children
  <2>10. \A r \in Side : Len(accept'[r]) <= AcceptCap \/ accept'[r] = accept[r]
    <3>1. AcceptCap \in Nat
      BY ConstantsAssumption
    <3> QED
      BY <2>1, <2>4, <2>6, <3>1, SideFacts DEF q, p
  <2> QED
    BY <2>1, <2>2, <2>3, <2>4, <2>5, <2>9, <2>10 DEF Queues, p, i, q
<1>2. ASSUME AcceptTimesOut(s)
      PROVE  \E i \in Id : Replies(s, i, 0)
  <2>1. Starts(s, "errChild", busy[s].m.id, "loop")
    BY <1>2, SendStarts DEF AcceptTimesOut
  <2>2. Replies(s, busy[s].m.id, 0)
    BY <1>2, <1>a, <2>1 DEF AcceptTimesOut, Replies
  <2> QED
    BY <1>0, <2>2
<1>3. ASSUME CleanupDials(s)
      PROVE  FailsDials(s)
  <2>1. /\ dialing'[s] = {} /\ dialing'[p] = dialing[p]
        /\ loop'[s] \in {"cleanup", "panic"} /\ loop'[p] = loop[p]
    BY <1>0, <1>3 DEF CleanupDials
  <2>2. \A c \in Call : /\ dial'[c].id = dial[c].id
                        /\ dial'[c].st # dial[c].st =>
                             c \in dialing[s] /\ dial[c].st = "wait" /\ dial'[c].st = "err"
    <3>1. CASE \A c \in dialing[s] : dial[c].st = "wait"
      <4>1. dial' = [c \in Call |-> IF c \in dialing[s] THEN [dial[c] EXCEPT !.st = "err"]
                                    ELSE dial[c]]
        BY <1>3, <3>1 DEF CleanupDials
      <4> QED
        BY <1>0, <3>1, <4>1 DEF DialCB
    <3>2. CASE ~\A c \in dialing[s] : dial[c].st = "wait"
      <4>1. dial' = dial
        BY <1>3, <3>2 DEF CleanupDials
      <4> QED
        BY <4>1
    <3> QED
      BY <3>1, <3>2
  <2> QED
    BY <1>3, <2>1, <2>2 DEF CleanupDials, FailsDials
<1>4. ASSUME CleanupEnds(s)
      PROVE  Ends(s)
  <2>1. /\ loop'[s] = "done" /\ loop'[p] = loop[p] /\ wire'[s] = wire[s] /\ wire'[p] = <<>>
    BY <1>0, <1>4 DEF CleanupEnds
  <2> QED
    BY <1>4, <2>1 DEF CleanupEnds, Ends
<1>5. ASSUME NEW i \in Id, LoopChildClosed(s, i)
      PROVE  Unroutes(s, i, 0)
  <2>1. Starts(s, "close", i, "loop")
    BY <1>5, SendStarts DEF LoopChildClosed
  <2>2. conns'[s] = conns[s] \ {i} /\ conns'[p] = conns[p]
    BY <1>0, <1>5 DEF LoopChildClosed
  <2>3. \A r \in Side, j \in Id : closing'[r][j] > 0 => closing[r][j] > 0
    BY <1>0, <1>5 DEF LoopChildClosed
  <2> QED
    BY <1>5, <1>a, <2>1, <2>2, <2>3 DEF LoopChildClosed, Unroutes
<1>6. ASSUME NEW i \in Id, CleanupChild(s, i)
      PROVE  Unroutes(s, i, 0)
  <2>1. Starts(s, "close", i, "cleanup")
    BY <1>6, SendStarts DEF CleanupChild
  <2>2. /\ conns'[s] = conns[s] \ {i} /\ conns'[p] = conns[p]
        /\ closed'[s] = closed[s] \union {i} /\ closed'[p] = closed[p]
    BY <1>0, <1>6 DEF CleanupChild
  <2> QED
    BY <1>6, <1>a, <2>1, <2>2 DEF CleanupChild, Unroutes
<1> QED
  BY <1>1, <1>2, <1>3, <1>4, <1>5, <1>6

(* Every step does one of these things.                                    *)
Moves ==
  \/ DialMoves \/ AcceptMoves \/ WriterMoves \/ ClosedMoves \/ LoopMoves
  \/ \E s \in Side :
       \/ Writes(s) \/ Fails(s) \/ FailsDials(s) \/ Ends(s)
       \/ \E c \in Call : Dials(s, c)
       \/ \E i \in Id :
            \/ Reads(s, i) \/ Offers(s, i) \/ Considers(s, i) \/ Queues(s, i) \/ Delivers(s, i)
            \/ \E d \in {0, 1} : Unroutes(s, i, d) \/ Replies(s, i, d)
            \/ \E C \in SUBSET Call : Connects(s, i, C) \/ Refuses(s, i, C)

(* That is, every step of the specification.                               *)
LEMMA NextMoves ==
  ASSUME Types, Types', Writing, Next
  PROVE  Moves
<1>1. ASSUME ProgramStep \/ CallStep
      PROVE  Moves
  BY <1>1, ProgramEffects DEF Moves
<1>2. ASSUME NEW s \in Side, LoopStep(s)
      PROVE  Moves
  <2>1. CASE \/ WriteSucceeds(s) \/ WriteFails(s) \/ LoopClose(s) \/ HandleEOF(s)
             \/ \E c \in Call : Caller(c) = s /\ LoopDial(c)
             \/ \E i \in Id : LoopWrite(s, i)
    BY <2>1, LoopEffects DEF Moves
  <2>2. CASE HandleDial(s) \/ HandleDialAck(s) \/ HandleErrChild(s) \/ HandleClose(s)
               \/ HandlePayload(s)
    BY <2>2, HandleEffects DEF Moves
  <2>3. CASE \/ AcceptQueued(s) \/ AcceptTimesOut(s) \/ CleanupDials(s) \/ CleanupEnds(s)
             \/ \E i \in Id : LoopChildClosed(s, i) \/ CleanupChild(s, i)
    BY <2>3, RestEffects DEF Moves
  <2> QED
    BY <1>2, <2>1, <2>2, <2>3 DEF LoopStep, HandleMessage
<1> QED
  BY <1>1, <1>2 DEF Next

(* Identifiers are issued by complete writes only.                         *)
LEMMA IssuedByWrites ==
  ASSUME Moves
  PROVE  nextID' = nextID \/ \E s \in Side : Writes(s)
<1>1. ASSUME DialMoves \/ AcceptMoves \/ WriterMoves \/ ClosedMoves \/ LoopMoves
      PROVE  nextID' = nextID \/ \E s \in Side : Writes(s)
  BY <1>1 DEF DialMoves, AcceptMoves, WriterMoves, ClosedMoves, LoopMoves
<1>2. ASSUME NEW r \in Side, NEW j \in Id, NEW d \in {0, 1},
             \/ Reads(r, j) \/ Offers(r, j) \/ Considers(r, j) \/ Queues(r, j)
             \/ Delivers(r, j) \/ Unroutes(r, j, d) \/ Replies(r, j, d)
      PROVE  nextID' = nextID \/ \E s \in Side : Writes(s)
  BY <1>2 DEF Reads, Offers, Considers, Queues, Delivers, Unroutes, Replies
<1>3. ASSUME NEW r \in Side, NEW j \in Id, NEW C \in SUBSET Call,
             \/ Connects(r, j, C) \/ Refuses(r, j, C)
      PROVE  nextID' = nextID \/ \E s \in Side : Writes(s)
  BY <1>3 DEF Connects, Refuses
<1>4. ASSUME NEW r \in Side, NEW c \in Call, Dials(r, c)
      PROVE  nextID' = nextID \/ \E s \in Side : Writes(s)
  BY <1>4 DEF Dials
<1>5. ASSUME NEW r \in Side, Writes(r) \/ Fails(r) \/ FailsDials(r) \/ Ends(r)
      PROVE  nextID' = nextID \/ \E s \in Side : Writes(s)
  BY <1>5 DEF Fails, FailsDials, Ends
<1> QED
  BY <1>1, <1>2, <1>3, <1>4, <1>5 DEF Moves

-----------------------------------------------------------------------------
(* The channels never hold more than they can.                             *)

(* A queue that was taken from is not longer.                              *)
LEMMA TakesShorter ==
  ASSUME Types, NEW s \in Side, NEW d, NEW T, Takes(s, d, T)
  PROVE  \A r \in Side : Len(wire'[r]) <= Len(wire[r])
<1>1. /\ \A r \in Side : Len(wire[r]) \in Nat
      /\ wire'[s] = wire[s] /\ d \in Nat /\ Len(wire'[Peer(s)]) = Len(wire[Peer(s)]) - d
      /\ Peer(s) \in Side
  BY SideFacts DEF Types, Takes, Cut
<1> QED
  BY <1>1, SideFacts

(* Every step keeps the capacities.                                        *)
LEMMA CapacitiesStep ==
  ASSUME Types, Types', Capacities, Writing, Moves
  PROVE  Capacities'
<1>0. /\ \A s \in Side : /\ Len(wire[s]) \in Nat /\ Len(wire[s]) <= PipeCap
                         /\ Len(wire'[s]) \in Nat /\ Len(accept'[s]) \in Nat
                         /\ Len(accept[s]) \in Nat /\ Len(accept[s]) <= AcceptCap
      /\ PipeCap \in Nat /\ AcceptCap \in Nat /\ PipeCap > 0
  BY ConstantsAssumption DEF Types, Capacities
<1>1. \A s \in Side : Len(wire'[s]) <= PipeCap
  <2>1. ASSUME \A s \in Side : Len(wire'[s]) <= Len(wire[s])
        PROVE  \A s \in Side : Len(wire'[s]) <= PipeCap
    BY <1>0, <2>1
  <2>2. CASE wire' = wire
    BY <1>0, <2>2
  <2>3. ASSUME NEW s \in Side, NEW d, NEW T, Takes(s, d, T)
        PROVE  \A r \in Side : Len(wire'[r]) <= PipeCap
    BY <2>1, <2>3, TakesShorter
  <2>4. ASSUME NEW s \in Side, Writes(s)
        PROVE  \A r \in Side : Len(wire'[r]) <= PipeCap
    <3>1. wire[s] \in Seq(Message) /\ busy[s].m \in Message
      BY DEF Types, Busy
    <3>2. Len(Append(wire[s], busy[s].m)) = Len(wire[s]) + 1
      BY <3>1
    <3> QED
      BY <1>0, <2>4, <3>2, SideFacts DEF Writes
  <2>5. ASSUME NEW s \in Side, Ends(s)
        PROVE  \A r \in Side : Len(wire'[r]) <= PipeCap
    <3>1. wire'[s] = wire[s] /\ wire'[Peer(s)] = <<>> /\ Len(<<>>) = 0
      BY <2>5 DEF Ends
    <3> QED
      BY <1>0, <3>1, SideFacts
  <2>6. wire' = wire \/ (\E s \in Side : Writes(s) \/ Ends(s))
          \/ \E s \in Side : \E e, T : Takes(s, e, T)
    <3>1. ASSUME DialMoves \/ AcceptMoves \/ WriterMoves \/ ClosedMoves \/ LoopMoves
          PROVE  wire' = wire \/ (\E s \in Side : Writes(s) \/ Ends(s))
               \/ \E s \in Side : \E e, T : Takes(s, e, T)
      BY <3>1 DEF DialMoves, AcceptMoves, WriterMoves, ClosedMoves, LoopMoves
    <3>2. ASSUME NEW r \in Side, NEW j \in Id, NEW d \in {0, 1},
                 \/ Reads(r, j) \/ Offers(r, j) \/ Considers(r, j) \/ Queues(r, j)
                 \/ Delivers(r, j) \/ Unroutes(r, j, d) \/ Replies(r, j, d)
          PROVE  wire' = wire \/ (\E s \in Side : Writes(s) \/ Ends(s))
               \/ \E s \in Side : \E e, T : Takes(s, e, T)
      BY <3>2 DEF Reads, Offers, Considers, Queues, Delivers, Unroutes, Replies
    <3>3. ASSUME NEW r \in Side, NEW j \in Id, NEW C \in SUBSET Call,
                 \/ Connects(r, j, C) \/ Refuses(r, j, C)
          PROVE  wire' = wire \/ (\E s \in Side : Writes(s) \/ Ends(s))
               \/ \E s \in Side : \E e, T : Takes(s, e, T)
      BY <3>3 DEF Connects, Refuses
    <3>4. ASSUME NEW r \in Side, NEW c \in Call, Dials(r, c)
          PROVE  wire' = wire \/ (\E s \in Side : Writes(s) \/ Ends(s))
               \/ \E s \in Side : \E e, T : Takes(s, e, T)
      BY <3>4 DEF Dials
    <3>5. ASSUME NEW r \in Side, Writes(r) \/ Fails(r) \/ FailsDials(r) \/ Ends(r)
          PROVE  wire' = wire \/ (\E s \in Side : Writes(s) \/ Ends(s))
               \/ \E s \in Side : \E e, T : Takes(s, e, T)
      BY <3>5 DEF Fails, FailsDials
    <3> QED
      BY <3>1, <3>2, <3>3, <3>4, <3>5 DEF Moves
  <2> QED
    BY <2>2, <2>3, <2>4, <2>5, <2>6
<1>2. \A s \in Side : Len(accept'[s]) <= AcceptCap
  <2>1. accept' = accept \/ AcceptMoves \/ \E s \in Side, i \in Id : Queues(s, i)
    <3>1. ASSUME DialMoves \/ AcceptMoves \/ WriterMoves \/ ClosedMoves \/ LoopMoves
          PROVE  accept' = accept \/ AcceptMoves \/ \E s \in Side, i \in Id : Queues(s, i)
      BY <3>1 DEF DialMoves, WriterMoves, ClosedMoves, LoopMoves
    <3>2. ASSUME NEW r \in Side, NEW j \in Id, NEW d \in {0, 1},
                 \/ Reads(r, j) \/ Offers(r, j) \/ Considers(r, j) \/ Queues(r, j)
                 \/ Delivers(r, j) \/ Unroutes(r, j, d) \/ Replies(r, j, d)
          PROVE  accept' = accept \/ AcceptMoves \/ \E s \in Side, i \in Id : Queues(s, i)
      BY <3>2 DEF Reads, Offers, Considers, Delivers, Unroutes, Replies
    <3>3. ASSUME NEW r \in Side, NEW j \in Id, NEW C \in SUBSET Call,
                 \/ Connects(r, j, C) \/ Refuses(r, j, C)
          PROVE  accept' = accept \/ AcceptMoves \/ \E s \in Side, i \in Id : Queues(s, i)
      BY <3>3 DEF Connects, Refuses
    <3>4. ASSUME NEW r \in Side, NEW c \in Call, Dials(r, c)
          PROVE  accept' = accept \/ AcceptMoves \/ \E s \in Side, i \in Id : Queues(s, i)
      BY <3>4 DEF Dials
    <3>5. ASSUME NEW r \in Side, Writes(r) \/ Fails(r) \/ FailsDials(r) \/ Ends(r)
          PROVE  accept' = accept \/ AcceptMoves \/ \E s \in Side, i \in Id : Queues(s, i)
      BY <3>5 DEF Writes, Fails, FailsDials, Ends
    <3> QED
      BY <3>1, <3>2, <3>3, <3>4, <3>5 DEF Moves
  <2> QED
    BY <1>0, <2>1 DEF AcceptMoves, Queues
<1>3. ASSUME NEW s \in Side, NEW i \in Id
      PROVE  /\ writer'[s][i].n <= MaxWrites[s]
             /\ writer'[s][i].st \in {"offer", "wait"} => writer'[s][i].n < MaxWrites[s]
  <2>1. /\ writer[s][i].n <= MaxWrites[s]
        /\ writer[s][i].st \in {"offer", "wait"} => writer[s][i].n < MaxWrites[s]
        /\ writer[s][i].n \in Nat /\ MaxWrites[s] \in Nat
    BY GotType, ConstantsAssumption DEF Capacities
  <2>2. CASE writer'[s][i] = writer[s][i]
    BY <2>1, <2>2
  <2>3. CASE WriterMoves
    BY <2>1, <2>3 DEF WriterMoves
  <2>4. ASSUME NEW r \in Side, NEW j \in Id, Offers(r, j)
        PROVE  /\ writer'[s][i].n <= MaxWrites[s]
               /\ writer'[s][i].st \in {"offer", "wait"} => writer'[s][i].n < MaxWrites[s]
    BY <2>1, <2>4 DEF Offers
  <2>5. ASSUME NEW r \in Side, Fails(r)
        PROVE  /\ writer'[s][i].n <= MaxWrites[s]
               /\ writer'[s][i].st \in {"offer", "wait"} => writer'[s][i].n < MaxWrites[s]
    BY <2>1, <2>5 DEF Fails
  <2>6. ASSUME NEW r \in Side, Writes(r)
        PROVE  /\ writer'[s][i].n <= MaxWrites[s]
               /\ writer'[s][i].st \in {"offer", "wait"} => writer'[s][i].n < MaxWrites[s]
    <3>1. CASE busy[r].then = "payload" /\ s = r /\ i = busy[r].m.id
      <4>1. writer[s][i].st = "wait"
        BY <3>1 DEF Writing, WritingOf
      <4>2. writer'[s][i].st = "idle" /\ writer'[s][i].n = writer[s][i].n + 1
        BY <2>6, <3>1 DEF Writes
      <4> QED
        BY <2>1, <4>1, <4>2
    <3>2. CASE ~(busy[r].then = "payload" /\ s = r /\ i = busy[r].m.id)
      BY <2>2, <2>6, <3>2 DEF Writes
    <3> QED
      BY <3>1, <3>2
  <2>7. \/ writer'[s][i] = writer[s][i]
        \/ WriterMoves
        \/ \E r \in Side : Fails(r) \/ Writes(r) \/ \E j \in Id : Offers(r, j)
    <3>1. ASSUME DialMoves \/ AcceptMoves \/ WriterMoves \/ ClosedMoves \/ LoopMoves
          PROVE  \/ writer'[s][i] = writer[s][i]
             \/ WriterMoves
             \/ \E x \in Side : Fails(x) \/ Writes(x) \/ \E k \in Id : Offers(x, k)
      BY <3>1 DEF DialMoves, AcceptMoves, ClosedMoves, LoopMoves
    <3>2. ASSUME NEW r \in Side, NEW j \in Id, NEW d \in {0, 1},
                 \/ Reads(r, j) \/ Offers(r, j) \/ Considers(r, j) \/ Queues(r, j)
                 \/ Delivers(r, j) \/ Unroutes(r, j, d) \/ Replies(r, j, d)
          PROVE  \/ writer'[s][i] = writer[s][i]
             \/ WriterMoves
             \/ \E x \in Side : Fails(x) \/ Writes(x) \/ \E k \in Id : Offers(x, k)
      BY <3>2 DEF Reads, Considers, Queues, Delivers, Unroutes, Replies
    <3>3. ASSUME NEW r \in Side, NEW j \in Id, NEW C \in SUBSET Call,
                 \/ Connects(r, j, C) \/ Refuses(r, j, C)
          PROVE  \/ writer'[s][i] = writer[s][i]
             \/ WriterMoves
             \/ \E x \in Side : Fails(x) \/ Writes(x) \/ \E k \in Id : Offers(x, k)
      BY <3>3 DEF Connects, Refuses
    <3>4. ASSUME NEW r \in Side, NEW c \in Call, Dials(r, c)
          PROVE  \/ writer'[s][i] = writer[s][i]
             \/ WriterMoves
             \/ \E x \in Side : Fails(x) \/ Writes(x) \/ \E k \in Id : Offers(x, k)
      BY <3>4 DEF Dials
    <3>5. ASSUME NEW r \in Side, Writes(r) \/ Fails(r) \/ FailsDials(r) \/ Ends(r)
          PROVE  \/ writer'[s][i] = writer[s][i]
             \/ WriterMoves
             \/ \E x \in Side : Fails(x) \/ Writes(x) \/ \E k \in Id : Offers(x, k)
      BY <3>5 DEF FailsDials, Ends
    <3> QED
      BY <3>1, <3>2, <3>3, <3>4, <3>5 DEF Moves
  <2> QED
    BY <2>2, <2>3, <2>4, <2>5, <2>6, <2>7
<1> QED
  BY <1>1, <1>2, <1>3 DEF Capacities

-----------------------------------------------------------------------------
(* No side issues more identifiers than it has taken calls.                *)

(* The calls that were taken stay so, and one that is taken adds to them.  *)
LEMMA BegunSteps ==
  ASSUME Types, NEW s \in Side
  PROVE  /\ Begun(s) \subseteq Begun(s)' => Cardinality(Begun(s)) <= Cardinality(Begun(s)')
         /\ \A c \in Call : c \notin Begun(s) /\ Begun(s)' = Begun(s) \union {c}
              => Cardinality(Begun(s)') = Cardinality(Begun(s)) + 1
         /\ Cardinality(Begun(s)) \in Nat /\ Cardinality(Begun(s)') \in Nat
<1> DEFINE B == Begun(s)
           D == Begun(s)'
<1>1. B \in SUBSET Call /\ D \in SUBSET Call
  BY DEF Begun
<1> HIDE DEF B, D
<1>2. IsFiniteSet(B) /\ IsFiniteSet(D)
  BY <1>1, IdFacts, FS_Subset
<1>3. Cardinality(B) \in Nat /\ Cardinality(D) \in Nat
  BY <1>2, FS_CardinalityType
<1>4. B \subseteq D => Cardinality(B) <= Cardinality(D)
  BY <1>2, FS_Subset
<1>5. ASSUME NEW c, c \notin B, D = B \union {c}
      PROVE  Cardinality(D) = Cardinality(B) + 1
  BY <1>2, <1>5, FS_AddElement
<1> QED
  BY <1>3, <1>4, <1>5 DEF B, D

(* Every step keeps the numbers.                                           *)
LEMMA NumbersStep ==
  ASSUME Types, Types', Numbers, Writing, Moves
  PROVE  Numbers'
<1>0. \A s \in Side : nextID[s] \in Nat
  BY DEF Types
<1>1. nextID'["client"] % 2 # nextID'["server"] % 2
  <2>1. \A s \in Side : nextID'[s] = nextID[s] \/ nextID'[s] = nextID[s] + 2
    <3>1. nextID' = nextID \/ \E s \in Side : Writes(s)
      BY IssuedByWrites
    <3>2. ASSUME NEW r \in Side, Writes(r), NEW s \in Side
          PROVE  nextID'[s] = nextID[s] \/ nextID'[s] = nextID[s] + 2
      <4>1. s = r \/ s = Peer(r)
        BY SideFacts
      <4> QED
        BY <3>2, <4>1 DEF Writes
    <3> QED
      BY <3>1, <3>2
  <2>2. \A s \in Side : nextID'[s] % 2 = nextID[s] % 2
    BY <1>0, <2>1
  <2> QED
    BY <2>2, SideFacts DEF Numbers
<1>2. ASSUME NEW s \in Side
      PROVE  nextID'[s] + (IF busy'[s].then = "dial" THEN 2 ELSE 0)
               <= 1 + 2 * Cardinality(Begun(s)')
  <2> DEFINE B == Cardinality(Begun(s))
             D == Cardinality(Begun(s)')
  <2>1. B \in Nat /\ D \in Nat /\ (Begun(s) \subseteq Begun(s)' => B <= D)
    BY BegunSteps
  <2>2. nextID[s] + (IF busy[s].then = "dial" THEN 2 ELSE 0) <= 1 + 2 * B
    BY DEF Numbers
  <2>3. ASSUME nextID'[s] = nextID[s], busy'[s].then = "dial" => busy[s].then = "dial",
               Begun(s) \subseteq Begun(s)'
        PROVE  nextID'[s] + (IF busy'[s].then = "dial" THEN 2 ELSE 0) <= 1 + 2 * D
    <3> HIDE DEF B, D
    <3> QED
      BY <1>0, <2>1, <2>2, <2>3
  <2>4. ASSUME dial' = dial
        PROVE  Begun(s) \subseteq Begun(s)'
    BY <2>4 DEF Begun
  <2>5. ASSUME \A c \in Call : dial[c].st \notin {"idle", "offer"}
                                 => dial'[c].st \notin {"idle", "offer"}
        PROVE  Begun(s) \subseteq Begun(s)'
    BY <2>5 DEF Begun
  <2>6. ASSUME NEW r \in Side, Writes(r)
        PROVE  nextID'[s] + (IF busy'[s].then = "dial" THEN 2 ELSE 0) <= 1 + 2 * D
    <3>1. Begun(s) \subseteq Begun(s)'
      BY <2>4, <2>6 DEF Writes
    <3>2. CASE s = r
      <4>1. /\ nextID'[s] = (IF busy[s].then = "dial" THEN nextID[s] + 2 ELSE nextID[s])
            /\ busy'[s].then # "dial"
        BY <2>6, <3>2, MessageFacts DEF Writes
      <4> HIDE DEF B, D
      <4> QED
        BY <1>0, <2>1, <2>2, <3>1, <4>1
    <3>3. CASE s # r
      <4>1. s = Peer(r)
        BY <3>3, SideFacts
      <4>2. nextID'[s] = nextID[s] /\ busy'[s] = busy[s]
        BY <2>6, <4>1 DEF Writes
      <4> QED
        BY <2>3, <3>1, <4>2
    <3> QED
      BY <3>2, <3>3
  <2>7. ASSUME NEW r \in Side, NEW c \in Call, Dials(r, c)
        PROVE  nextID'[s] + (IF busy'[s].then = "dial" THEN 2 ELSE 0) <= 1 + 2 * D
    <3>1. CASE s = r
      <4>1. c \notin Begun(s)
        BY <2>7 DEF Dials, Begun
      <4>2. Begun(s)' = Begun(s) \union {c}
        BY <2>7, <3>1 DEF Dials, Begun
      <4>3. D = B + 1
        BY <4>1, <4>2, BegunSteps
      <4>4. nextID'[s] = nextID[s] /\ busy[s].then # "dial"
        BY <2>7, <3>1, MessageFacts DEF Dials, Writing, WritingOf
      <4> HIDE DEF B, D
      <4> QED
        BY <1>0, <2>1, <2>2, <4>3, <4>4
    <3>2. CASE s # r
      <4>1. s = Peer(r)
        BY <3>2, SideFacts
      <4>2. nextID'[s] = nextID[s] /\ busy'[s] = busy[s]
        BY <2>7, <4>1 DEF Dials, Starts, PeerStays
      <4>3. Begun(s) \subseteq Begun(s)'
        BY <2>7 DEF Dials, Begun
      <4> QED
        BY <2>3, <4>2, <4>3
    <3> QED
      BY <3>1, <3>2
  <2>8. ASSUME DialMoves \/ AcceptMoves \/ WriterMoves \/ ClosedMoves \/ LoopMoves
        PROVE  nextID'[s] + (IF busy'[s].then = "dial" THEN 2 ELSE 0) <= 1 + 2 * D
    <3>1. Begun(s) \subseteq Begun(s)'
      BY <2>4, <2>5, <2>8 DEF DialMoves, AcceptMoves, WriterMoves, ClosedMoves, LoopMoves
    <3>2. nextID' = nextID /\ busy' = busy
      BY <2>8 DEF DialMoves, AcceptMoves, WriterMoves, ClosedMoves, LoopMoves
    <3> QED
      BY <2>3, <3>1, <3>2
  <2>9. ASSUME NEW r \in Side, NEW i \in Id, NEW d \in {0, 1},
               \/ Reads(r, i) \/ Offers(r, i) \/ Considers(r, i) \/ Queues(r, i) \/ Delivers(r, i)
               \/ Unroutes(r, i, d) \/ Replies(r, i, d) \/ Ends(r)
        PROVE  nextID'[s] + (IF busy'[s].then = "dial" THEN 2 ELSE 0) <= 1 + 2 * D
    <3>1. nextID' = nextID /\ dial' = dial
      BY <2>9 DEF Reads, Offers, Considers, Queues, Delivers, Unroutes, Replies, Ends
    <3>2. busy' = busy \/ (busy'[r].then # "dial" /\ busy'[Peer(r)] = busy[Peer(r)])
      BY <2>9 DEF Reads, Offers, Considers, Queues, Delivers, Unroutes, Replies, Ends, Starts,
                  PeerStays
    <3>3. busy'[s].then = "dial" => busy[s].then = "dial"
      BY <3>2, SideFacts
    <3> QED
      BY <2>3, <2>4, <3>1, <3>3
  <2>10. ASSUME NEW r \in Side, NEW i \in Id, NEW C \in SUBSET Call,
                Connects(r, i, C) \/ Refuses(r, i, C) \/ FailsDials(r)
         PROVE  nextID'[s] + (IF busy'[s].then = "dial" THEN 2 ELSE 0) <= 1 + 2 * D
    <3>1. nextID' = nextID /\ busy' = busy
      BY <2>10 DEF Connects, Refuses, FailsDials
    <3>2. \A c \in Call : dial'[c].st = dial[c].st \/ dial'[c].st \in {"ok", "err"}
      BY <2>10 DEF Connects, Refuses, FailsDials
    <3>3. Begun(s) \subseteq Begun(s)'
      BY <2>5, <3>2
    <3> QED
      BY <2>3, <3>1, <3>3
  <2>11. ASSUME NEW r \in Side, Fails(r)
         PROVE  nextID'[s] + (IF busy'[s].then = "dial" THEN 2 ELSE 0) <= 1 + 2 * D
    <3>1. /\ nextID' = nextID
          /\ \A c \in Call : dial'[c].st = dial[c].st \/ dial'[c].st = "err"
      BY <2>11 DEF Fails
    <3>2. busy'[s].then = "dial" => busy[s].then = "dial"
      BY <2>11, MessageFacts, SideFacts DEF Fails
    <3>3. Begun(s) \subseteq Begun(s)'
      BY <2>5, <3>1
    <3> QED
      BY <2>3, <3>1, <3>2, <3>3
  <2> QED
    BY <2>6, <2>7, <2>8, <2>9, <2>10, <2>11, IdFacts DEF Moves
<1> QED
  BY <1>1, <1>2 DEF Numbers

-----------------------------------------------------------------------------
(* What the loops that write are about.                                    *)

(* A loop that does nothing about its message.                             *)
LEMMA WritingFrame ==
  ASSUME NEW r \in Side, WritingOf(r), busy'[r] = busy[r], nextID'[r] = nextID[r],
         loop'[r] = loop[r] \/ {loop[r], loop'[r]} \intersect {"write", "accept"} = {},
         dialing'[r] \subseteq dialing[r],
         busy[r].then = "dial" => /\ dial'[busy[r].call].st = dial[busy[r].call].st
                                  /\ dial'[busy[r].call].id = dial[busy[r].call].id,
         busy[r].then = "payload" =>
           /\ writer'[r][busy[r].m.id].n = writer[r][busy[r].m.id].n
           /\ writer'[r][busy[r].m.id].st = "wait" <=> writer[r][busy[r].m.id].st = "wait"
  PROVE  WritingOf(r)'
<1>1. /\ loop'[r] \notin {"write", "accept"} => busy'[r] = NotBusy
      /\ loop'[r] = "accept" => busy'[r].then = "loop" /\ busy'[r].m.t = "dialAck"
      /\ loop'[r] = "write" => /\ busy'[r].then \in {"dial", "payload", "loop", "cleanup"}
                               /\ busy'[r].m.t # "none"
      /\ (loop'[r] = "write" /\ busy'[r].m.t = "dial") <=> busy'[r].then = "dial"
      /\ (loop'[r] = "write" /\ busy'[r].m.t = "payload") <=> busy'[r].then = "payload"
  BY DEF WritingOf
<1>2. busy'[r].then = "dial" =>
        /\ busy'[r].m.id = nextID'[r]
        /\ busy'[r].call \in Call \ dialing'[r]
        /\ Caller(busy'[r].call) = r
        /\ dial'[busy'[r].call].st = "wait" /\ dial'[busy'[r].call].id = nextID'[r]
  BY DEF WritingOf
<1>3. busy'[r].then = "payload" =>
        /\ writer'[r][busy'[r].m.id].st = "wait"
        /\ busy'[r].m.n = writer'[r][busy'[r].m.id].n + 1
  BY DEF WritingOf
<1> QED
  BY <1>1, <1>2, <1>3 DEF WritingOf

(* A loop that has no message, or starts to write one about a connection.  *)
LEMMA WritingStarts ==
  ASSUME NEW r \in Side,
         \/ loop'[r] \notin {"write", "accept"} /\ busy'[r] = NotBusy
         \/ \E i \in Id, t \in {"close", "errChild"}, then \in {"loop", "cleanup"} :
              Starts(r, t, i, then)
  PROVE  WritingOf(r)'
<1>1. CASE loop'[r] \notin {"write", "accept"} /\ busy'[r] = NotBusy
  BY <1>1, MessageFacts DEF WritingOf
<1>2. ASSUME NEW i \in Id, NEW t \in {"close", "errChild"}, NEW then \in {"loop", "cleanup"},
             Starts(r, t, i, then)
      PROVE  WritingOf(r)'
  BY <1>2 DEF Starts, WritingOf
<1> QED
  BY <1>1, <1>2

(* Every step keeps that.                                                  *)
LEMMA WritingStep ==
  ASSUME Types, Types', Writing, Calls, Moves
  PROVE  Writing'
<1>0. /\ \A s \in Side : WritingOf(s) /\ (busy[s].then \in {"dial", "payload"} => loop[s] = "write")
      /\ \A s \in Side : loop[s] \notin {"write", "accept"} => busy[s] = NotBusy
      /\ \A s \in Side : busy[s].then = "dial" => Caller(busy[s].call) = s /\ busy[s].call \in Call
      /\ \A s \in Side : busy[s].m.id \in Id
      /\ \A s \in Side : \A c \in dialing[s] : Caller(c) = s /\ c \in Call
  <2>1. \A s \in Side : busy[s].m.id \in Id /\ dialing[s] \subseteq Call
    BY DEF Types, Busy, Message
  <2> QED
    BY <2>1 DEF Writing, WritingOf, Calls
<1>1. ASSUME DialMoves
      PROVE  Writing'
  <2>1. ASSUME NEW r \in Side
        PROVE  WritingOf(r)'
    <3>1. busy[r].then = "dial" => /\ dial'[busy[r].call].st = dial[busy[r].call].st
                                   /\ dial'[busy[r].call].id = dial[busy[r].call].id
      BY <1>1, <1>0 DEF DialMoves, WritingOf
    <3> QED
      BY <1>1, <1>0, <3>1, WritingFrame DEF DialMoves
  <2> QED
    BY <2>1 DEF Writing
<1>2. ASSUME AcceptMoves \/ WriterMoves \/ ClosedMoves \/ LoopMoves
      PROVE  Writing'
  <2>1. ASSUME NEW r \in Side
        PROVE  WritingOf(r)'
    <3>1. UNCHANGED <<busy, nextID, dial, dialing>>
      BY <1>2 DEF AcceptMoves, WriterMoves, ClosedMoves, LoopMoves
    <3>2. loop'[r] = loop[r] \/ {loop[r], loop'[r]} \intersect {"write", "accept"} = {}
      BY <1>2 DEF AcceptMoves, WriterMoves, ClosedMoves, LoopMoves
    <3>3. busy[r].then = "payload" =>
            /\ writer'[r][busy[r].m.id].n = writer[r][busy[r].m.id].n
            /\ writer'[r][busy[r].m.id].st = "wait" <=> writer[r][busy[r].m.id].st = "wait"
      BY <1>0, <1>2 DEF AcceptMoves, WriterMoves, ClosedMoves, LoopMoves
    <3> QED
      BY <1>0, <3>1, <3>2, <3>3, WritingFrame
  <2> QED
    BY <2>1 DEF Writing
<1>3. ASSUME NEW s \in Side, NEW i \in Id, Reads(s, i) \/ Delivers(s, i)
      PROVE  Writing'
  <2>1. UNCHANGED <<loop, busy, nextID, dial, dialing, writer>>
    BY <1>3 DEF Reads, Delivers
  <2> QED
    BY <2>1 DEF Writing, WritingOf
<1>4. ASSUME NEW s \in Side, NEW i \in Id, Offers(s, i)
      PROVE  Writing'
  <2>1. WritingOf(s)'
    BY <1>4 DEF Offers, Starts, WritingOf
  <2>2. WritingOf(Peer(s))'
    BY <1>0, <1>4, SideFacts, WritingFrame DEF Offers, Starts, PeerStays
  <2> QED
    BY <2>1, <2>2, SideFacts DEF Writing
<1>5. ASSUME NEW s \in Side, NEW c \in Call, Dials(s, c)
      PROVE  Writing'
  <2>1. WritingOf(s)'
    <3>1. c \notin dialing[s]
      BY <1>5 DEF Dials, Calls
    <3>2. /\ loop'[s] = "write" /\ busy'[s].m.t = "dial" /\ busy'[s].m.id = nextID'[s]
          /\ busy'[s].then = "dial" /\ busy'[s].call = c /\ Caller(c) = s
          /\ dial'[c].st = "wait" /\ dial'[c].id = nextID'[s] /\ dialing'[s] = dialing[s]
      BY <1>5 DEF Dials, Starts
    <3> QED
      BY <3>1, <3>2 DEF WritingOf
  <2>2. WritingOf(Peer(s))'
    <3>1. busy[Peer(s)].then = "dial" => busy[Peer(s)].call # c
      BY <1>0, <1>5, SideFacts DEF Dials
    <3>2. busy[Peer(s)].then = "dial" => dial'[busy[Peer(s)].call] = dial[busy[Peer(s)].call]
      BY <1>0, <1>5, <3>1, SideFacts DEF Dials
    <3>3. /\ busy'[Peer(s)] = busy[Peer(s)] /\ loop'[Peer(s)] = loop[Peer(s)]
          /\ UNCHANGED <<nextID, dialing, writer>>
      BY <1>5 DEF Dials, Starts, PeerStays
    <3> QED
      BY <1>0, <3>2, <3>3, SideFacts, WritingFrame
  <2> QED
    BY <2>1, <2>2, SideFacts DEF Writing
<1>6. ASSUME NEW s \in Side, NEW i \in Id, NEW d \in {0, 1}, Unroutes(s, i, d) \/ Replies(s, i, d)
      PROVE  Writing'
  <2>1. /\ UNCHANGED <<nextID, dial, dialing, writer>>
        /\ \/ UNCHANGED <<loop, busy>>
           \/ \E t \in {"close", "errChild"}, then \in {"loop", "cleanup"} : Starts(s, t, i, then)
    BY <1>6 DEF Unroutes, Replies
  <2>2. CASE UNCHANGED <<loop, busy>>
    BY <2>1, <2>2 DEF Writing, WritingOf
  <2>3. CASE \E t \in {"close", "errChild"}, then \in {"loop", "cleanup"} : Starts(s, t, i, then)
    <3>1. WritingOf(s)'
      BY <2>3, WritingStarts
    <3>2. busy'[Peer(s)] = busy[Peer(s)] /\ loop'[Peer(s)] = loop[Peer(s)]
      BY <2>3 DEF Starts, PeerStays
    <3>3. WritingOf(Peer(s))'
      BY <1>0, <2>1, <3>2, SideFacts, WritingFrame
    <3> QED
      BY <3>1, <3>3, SideFacts DEF Writing
  <2> QED
    BY <2>1, <2>2, <2>3
<1>7. ASSUME NEW s \in Side, NEW i \in Id, Considers(s, i) \/ Queues(s, i)
      PROVE  Writing'
  <2>1. WritingOf(s)'
    <3>1. /\ busy'[s].then = "loop" /\ busy'[s].m.t = "dialAck" /\ loop'[s] \in {"accept", "write"}
      BY <1>0, <1>7 DEF Considers, Queues, WritingOf
    <3> QED
      BY <3>1 DEF WritingOf
  <2>2. /\ busy'[Peer(s)] = busy[Peer(s)] /\ loop'[Peer(s)] = loop[Peer(s)]
        /\ UNCHANGED <<nextID, dial, dialing, writer>>
    BY <1>7 DEF Considers, Queues, PeerStays
  <2>3. WritingOf(Peer(s))'
    BY <1>0, <2>2, SideFacts, WritingFrame
  <2> QED
    BY <2>1, <2>3, SideFacts DEF Writing
<1>8. ASSUME NEW s \in Side, NEW i \in Id, NEW C \in SUBSET Call,
             Connects(s, i, C) \/ Refuses(s, i, C) \/ FailsDials(s)
      PROVE  Writing'
  <2>1. /\ UNCHANGED <<busy, nextID, writer>>
        /\ loop[s] \in {"select", "ending"} /\ loop'[s] \in {"select", "panic", "cleanup"}
        /\ loop'[Peer(s)] = loop[Peer(s)]
    BY <1>8 DEF Connects, Refuses, FailsDials
  <2>2. dialing'[s] \subseteq dialing[s] /\ dialing'[Peer(s)] = dialing[Peer(s)]
    BY <1>8 DEF Connects, Refuses, FailsDials
  <2>3. \A c \in Call \ dialing[s] : dial'[c].st = dial[c].st /\ dial'[c].id = dial[c].id
    BY <1>8 DEF Connects, Refuses, FailsDials, DialingAs
  <2>4. WritingOf(s)'
    BY <1>0, <2>1, WritingStarts
  <2>5. busy[Peer(s)].then = "dial" => busy[Peer(s)].call \in Call \ dialing[s]
    BY <1>0, SideFacts
  <2>6. WritingOf(Peer(s))'
    BY <1>0, <2>1, <2>2, <2>3, <2>5, SideFacts, WritingFrame
  <2> QED
    BY <2>4, <2>6, SideFacts DEF Writing
<1>9. ASSUME NEW s \in Side, Ends(s)
      PROVE  Writing'
  <2>1. WritingOf(s)'
    BY <1>0, <1>9, WritingStarts DEF Ends
  <2>2. WritingOf(Peer(s))'
    BY <1>0, <1>9, SideFacts, WritingFrame DEF Ends
  <2> QED
    BY <2>1, <2>2, SideFacts DEF Writing
<1>10. ASSUME NEW s \in Side, Writes(s) \/ Fails(s)
       PROVE  Writing'
  <2>1. WritingOf(s)'
    BY <1>10, WritingStarts DEF Writes, Fails
  <2>2. /\ busy'[Peer(s)] = busy[Peer(s)] /\ loop'[Peer(s)] = loop[Peer(s)]
        /\ nextID'[Peer(s)] = nextID[Peer(s)] /\ dialing'[Peer(s)] = dialing[Peer(s)]
    BY <1>10, SideFacts DEF Writes, Fails
  <2>3. busy[Peer(s)].then = "dial" =>
          /\ dial'[busy[Peer(s)].call].st = dial[busy[Peer(s)].call].st
          /\ dial'[busy[Peer(s)].call].id = dial[busy[Peer(s)].call].id
    <3>1. CASE Writes(s)
      BY <3>1 DEF Writes
    <3>2. CASE Fails(s)
      BY <1>0, <3>2, SideFacts DEF Fails
    <3> QED
      BY <1>10, <3>1, <3>2
  <2>4. \A j \in Id : /\ writer'[Peer(s)][j].n = writer[Peer(s)][j].n
                      /\ writer'[Peer(s)][j].st = writer[Peer(s)][j].st
    BY <1>10, SideFacts DEF Writes, Fails
  <2>5. WritingOf(Peer(s))'
    BY <1>0, <2>2, <2>3, <2>4, SideFacts, WritingFrame
  <2> QED
    BY <2>1, <2>5, SideFacts DEF Writing
<1> QED
  BY <1>1, <1>2, <1>3, <1>4, <1>5, <1>6, <1>7, <1>8, <1>9, <1>10, IdFacts DEF Moves

-----------------------------------------------------------------------------
(* The calls and their identifiers.                                        *)

(* What a step must leave alone.                                           *)
LEMMA CallsFrame ==
  ASSUME Types, Types', Writing, Calls,
         \A s \in Side : nextID'[s] \in {nextID[s], nextID[s] + 2},
         \A c \in Call : Numbered(c)' => Numbered(c) /\ dial'[c].id = dial[c].id,
         \A s \in Side : busy[s].then = "dial" =>
           \/ busy'[s] = busy[s]
           \/ nextID'[s] = nextID[s] + 2
           \/ \A c \in Call : c = busy[s].call => ~Numbered(c)',
         \A s \in Side : \A c \in dialing'[s] : Caller(c) = s /\ dial'[c].st \in {"wait", "err"},
         \A s \in Side : loop'[s] \in {"cleanup", "done"} \/ busy'[s].then = "cleanup" =>
           \/ dialing'[s] = {}
           \/ /\ dialing'[s] \subseteq dialing[s]
              /\ loop[s] \in {"cleanup", "done"} \/ busy[s].then = "cleanup"
  PROVE  Calls'
<1>1. ASSUME NEW c \in Call, Numbered(c)'
      PROVE  /\ Mine(Caller(c), dial[c].id)'
             /\ \/ dial'[c].id < nextID'[Caller(c)]
                \/ busy'[Caller(c)].then = "dial" /\ busy'[Caller(c)].call = c
  <2> DEFINE s == Caller(c)
  <2>1. s \in Side
    BY SideFacts
  <2> HIDE DEF s
  <2>2. /\ Numbered(c) /\ dial'[c].id = dial[c].id /\ dial[c].id \in Nat
        /\ nextID[s] \in Nat /\ nextID'[s] \in {nextID[s], nextID[s] + 2}
    <3>1. dial[c] \in DialCB
      BY DEF Types
    <3>2. dial[c].id \in Nat
      BY <3>1, IdFacts DEF DialCB
    <3> QED
      BY <1>1, <2>1, <3>2 DEF Types
  <2>3. /\ dial[c].id % 2 = nextID[s] % 2
        /\ \/ dial[c].id < nextID[s]
           \/ busy[s].then = "dial" /\ busy[s].call = c
    BY <2>2 DEF Calls, Mine, s
  <2>4. nextID'[s] % 2 = nextID[s] % 2
    BY <2>2
  <2>5. dial'[c].id < nextID'[s] \/ (busy'[s].then = "dial" /\ busy'[s].call = c)
    <3>1. CASE dial[c].id < nextID[s]
      BY <2>2, <3>1
    <3>2. CASE busy[s].then = "dial" /\ busy[s].call = c
      <4>1. dial[c].id = nextID[s]
        BY <2>1, <3>2 DEF Writing, WritingOf
      <4>2. busy'[s] = busy[s] \/ nextID'[s] = nextID[s] + 2
        BY <1>1, <2>1, <3>2
      <4> QED
        BY <2>2, <3>2, <4>1, <4>2
    <3> QED
      BY <2>3, <3>1, <3>2
  <2> QED
    BY <2>2, <2>3, <2>4, <2>5 DEF Mine, s
<1>2. \A c, e \in Call :
        (/\ Numbered(c)' /\ Numbered(e)'
         /\ Caller(c) = Caller(e) /\ dial'[c].id = dial'[e].id) => c = e
  BY DEF Calls
<1>3. ASSUME NEW s \in Side, loop'[s] \in {"cleanup", "done"} \/ busy'[s].then = "cleanup"
      PROVE  dialing'[s] = {}
  BY <1>3 DEF Calls
<1> QED
  BY <1>1, <1>2, <1>3 DEF Calls

(* Every step keeps them.                                                  *)
LEMMA CallsStep ==
  ASSUME Types, Types', Writing, Calls, Moves
  PROVE  Calls'
<1>0. /\ \A s \in Side : busy[s].then \in {"dial", "payload"} => loop[s] = "write"
      /\ \A s \in Side : loop[s] \notin {"write", "accept"} => busy[s] = NotBusy
      /\ \A s \in Side : loop[s] = "accept" => busy[s].then = "loop"
      /\ \A s \in Side : busy[s].then = "dial" => Caller(busy[s].call) = s /\ busy[s].call \in Call
      /\ \A s \in Side : \A c \in dialing[s] : /\ Caller(c) = s /\ c \in Call
                                               /\ dial[c].st \in {"wait", "err"}
      /\ NotBusy.then = "none"
  <2>1. \A s \in Side : dialing[s] \subseteq Call
    BY DEF Types
  <2> QED
    BY <2>1, MessageFacts DEF Writing, WritingOf, Calls
<1>1. ASSUME DialMoves
      PROVE  Calls'
  <2>1. \A c \in Call : Numbered(c)' => Numbered(c) /\ dial'[c].id = dial[c].id
    BY <1>1 DEF DialMoves, Numbered
  <2>2. \A s \in Side : \A c \in dialing'[s] : Caller(c) = s /\ dial'[c].st \in {"wait", "err"}
    BY <1>0, <1>1 DEF DialMoves
  <2>3. UNCHANGED <<loop, busy, nextID, dialing>>
    BY <1>1 DEF DialMoves
  <2> QED
    BY <2>1, <2>2, <2>3, CallsFrame
<1>2. ASSUME AcceptMoves \/ WriterMoves \/ ClosedMoves \/ LoopMoves
      PROVE  Calls'
  <2>1. UNCHANGED <<busy, nextID, dial, dialing>>
    BY <1>2 DEF AcceptMoves, WriterMoves, ClosedMoves, LoopMoves
  <2>2. \A s \in Side : loop'[s] \in {"cleanup", "done"} => loop[s] = loop'[s]
    BY <1>2 DEF AcceptMoves, WriterMoves, ClosedMoves, LoopMoves
  <2>3. \A c \in Call : Numbered(c)' => Numbered(c) /\ dial'[c].id = dial[c].id
    BY <2>1 DEF Numbered
  <2> QED
    BY <1>0, <2>1, <2>2, <2>3, CallsFrame
<1>3. ASSUME NEW s \in Side, NEW i \in Id, NEW d \in {0, 1},
             \/ Reads(s, i) \/ Delivers(s, i) \/ Offers(s, i) \/ Considers(s, i) \/ Queues(s, i)
             \/ Unroutes(s, i, d) \/ Replies(s, i, d)
      PROVE  Calls'
  <2>1. UNCHANGED <<nextID, dial, dialing>>
    BY <1>3 DEF Reads, Delivers, Offers, Considers, Queues, Unroutes, Replies
  <2>2. /\ loop'[Peer(s)] = loop[Peer(s)] /\ busy'[Peer(s)] = busy[Peer(s)]
        /\ \/ loop'[s] = loop[s] /\ busy'[s] = busy[s]
           \/ /\ loop[s] \in {"select", "accept", "cleanup"} /\ loop'[s] \in {"write", "accept"}
              /\ busy'[s].then = "cleanup" => loop[s] = "cleanup"
    <3>1. CASE Reads(s, i) \/ Delivers(s, i)
      BY <3>1 DEF Reads, Delivers
    <3>2. CASE Offers(s, i) \/ Considers(s, i) \/ Replies(s, i, d)
      BY <3>2 DEF Offers, Considers, Replies, Starts, PeerStays
    <3>3. CASE Queues(s, i)
      BY <1>0, <3>3 DEF Queues
    <3>4. CASE Unroutes(s, i, d)
      BY <3>4 DEF Unroutes, Starts, PeerStays
    <3> QED
      BY <1>3, <3>1, <3>2, <3>3, <3>4
  <2>3. \A c \in Call : Numbered(c)' => Numbered(c) /\ dial'[c].id = dial[c].id
    BY <2>1 DEF Numbered
  <2>4. \A r \in Side : busy[r].then = "dial" => busy'[r] = busy[r]
    BY <1>0, <2>2, SideFacts
  <2>5. \A r \in Side : loop'[r] \in {"cleanup", "done"} \/ busy'[r].then = "cleanup"
          => loop[r] \in {"cleanup", "done"} \/ busy[r].then = "cleanup"
    BY <1>0, <2>2, SideFacts
  <2> QED
    BY <1>0, <2>1, <2>3, <2>4, <2>5, CallsFrame
<1>4. ASSUME NEW s \in Side, NEW i \in Id, NEW C \in SUBSET Call,
             Connects(s, i, C) \/ Refuses(s, i, C)
      PROVE  Calls'
  <2>1. /\ UNCHANGED <<nextID, busy>> /\ loop'[s] \in {"select", "panic"} /\ loop[s] = "select"
        /\ loop'[Peer(s)] = loop[Peer(s)] /\ dialing'[Peer(s)] = dialing[Peer(s)]
        /\ dialing'[s] \subseteq dialing[s] /\ C \subseteq dialing[s]
    BY <1>4 DEF Connects, Refuses, DialingAs
  <2>2. /\ \A c \in Call : dial'[c].id = dial[c].id
        /\ \A c \in Call : c \notin dialing[s] => dial'[c].st = dial[c].st
        /\ \A c \in dialing'[s] : dial'[c].st = dial[c].st \/ dial'[c].st = "err"
    <3>1. CASE Connects(s, i, C)
      BY <1>0, <2>1, <3>1 DEF Connects
    <3>2. CASE Refuses(s, i, C)
      BY <1>0, <2>1, <3>2 DEF Refuses
    <3> QED
      BY <1>4, <3>1, <3>2
  <2>3. \A r \in Side : dialing'[r] \subseteq dialing[r]
    BY <2>1, SideFacts
  <2>4. ASSUME NEW c \in Call, Numbered(c)'
        PROVE  Numbered(c) /\ dial'[c].id = dial[c].id
    <3>1. Caller(c) \in Side
      BY SideFacts
    <3>2. dial'[c].st = dial[c].st \/ c \in dialing[Caller(c)]
      BY <1>0, <2>2
    <3> QED
      BY <2>2, <2>3, <2>4, <3>1, <3>2 DEF Numbered
  <2>5. \A r \in Side : \A c \in dialing'[r] : Caller(c) = r /\ dial'[c].st \in {"wait", "err"}
    <3>1. \A c \in dialing'[s] : Caller(c) = s /\ dial'[c].st \in {"wait", "err"}
      BY <1>0, <2>1, <2>2
    <3>2. \A c \in dialing'[Peer(s)] : Caller(c) = Peer(s) /\ dial'[c].st \in {"wait", "err"}
      BY <1>0, <2>1, <2>2, SideFacts
    <3> QED
      BY <3>1, <3>2, SideFacts
  <2>6. \A r \in Side : loop'[r] \in {"cleanup", "done"} => loop[r] = loop'[r]
    BY <2>1, SideFacts
  <2> QED
    BY <2>1, <2>3, <2>4, <2>5, <2>6, CallsFrame
<1>5. ASSUME NEW s \in Side, FailsDials(s)
      PROVE  Calls'
  <2>1. /\ UNCHANGED <<nextID, busy>> /\ loop[s] = "ending"
        /\ loop'[Peer(s)] = loop[Peer(s)] /\ dialing'[Peer(s)] = dialing[Peer(s)]
        /\ dialing'[s] = {}
    BY <1>5 DEF FailsDials
  <2>2. \A c \in Call : Numbered(c)' => Numbered(c) /\ dial'[c].id = dial[c].id
    <3>1. \A r \in Side : dialing'[r] \subseteq dialing[r]
      BY <2>1, SideFacts
    <3> QED
      BY <1>5, <3>1, SideFacts DEF FailsDials, Numbered
  <2>3. \A r \in Side : \A c \in dialing'[r] : Caller(c) = r /\ dial'[c].st \in {"wait", "err"}
    <3>1. \A c \in dialing[Peer(s)] : dial'[c].st \in {"wait", "err"}
      BY <1>0, <1>5, SideFacts DEF FailsDials
    <3> QED
      BY <1>0, <2>1, <3>1, SideFacts
  <2>4. \A r \in Side : loop'[r] \in {"cleanup", "done"} => dialing'[r] = {} \/
                          (loop[r] = loop'[r] /\ dialing'[r] = dialing[r])
    BY <2>1, SideFacts
  <2>5. \A r \in Side : busy[r].then = "cleanup" => dialing'[r] = {} \/ dialing'[r] = dialing[r]
    BY <2>1, SideFacts
  <2> QED
    BY <2>1, <2>2, <2>3, <2>4, <2>5, CallsFrame
<1>6. ASSUME NEW s \in Side, Ends(s)
      PROVE  Calls'
  <2>1. /\ UNCHANGED <<busy, nextID, dial, dialing>> /\ loop[s] = "cleanup"
        /\ loop'[Peer(s)] = loop[Peer(s)]
    BY <1>6 DEF Ends
  <2>2. \A c \in Call : Numbered(c)' => Numbered(c) /\ dial'[c].id = dial[c].id
    BY <2>1 DEF Numbered
  <2>3. \A r \in Side : loop'[r] \in {"cleanup", "done"} => loop[r] \in {"cleanup", "done"}
    BY <2>1, SideFacts
  <2> QED
    BY <1>0, <2>1, <2>2, <2>3, CallsFrame
<1>7. ASSUME NEW s \in Side, Writes(s)
      PROVE  Calls'
  <2>1. /\ dial' = dial /\ busy'[s] = NotBusy /\ busy'[Peer(s)] = busy[Peer(s)]
        /\ loop'[s] = (IF busy[s].then = "cleanup" THEN "cleanup" ELSE "select")
        /\ loop'[Peer(s)] = loop[Peer(s)] /\ loop[s] = "write"
        /\ dialing'[s] = (IF busy[s].then = "dial" THEN dialing[s] \union {busy[s].call}
                          ELSE dialing[s])
        /\ dialing'[Peer(s)] = dialing[Peer(s)]
        /\ nextID'[s] = (IF busy[s].then = "dial" THEN nextID[s] + 2 ELSE nextID[s])
        /\ nextID'[Peer(s)] = nextID[Peer(s)]
    BY <1>7 DEF Writes
  <2>2. busy[s].then = "dial" => dial[busy[s].call].st = "wait" /\ Caller(busy[s].call) = s
    BY DEF Writing, WritingOf
  <2>3. ASSUME NEW c \in Call, Numbered(c)'
        PROVE  Numbered(c) /\ dial'[c].id = dial[c].id
    <3>1. Caller(c) = s \/ Caller(c) = Peer(s)
      BY SideFacts
    <3> QED
      BY <2>1, <2>2, <2>3, <3>1 DEF Numbered
  <2>4. \A r \in Side : \A c \in dialing'[r] : Caller(c) = r /\ dial'[c].st \in {"wait", "err"}
    <3>1. \A c \in dialing'[s] : Caller(c) = s /\ dial'[c].st \in {"wait", "err"}
      BY <1>0, <2>1, <2>2
    <3>2. \A c \in dialing'[Peer(s)] : Caller(c) = Peer(s) /\ dial'[c].st \in {"wait", "err"}
      BY <1>0, <2>1, SideFacts
    <3> QED
      BY <3>1, <3>2, SideFacts
  <2>5. \A r \in Side : nextID'[r] \in {nextID[r], nextID[r] + 2}
    BY <2>1, SideFacts
  <2>6. \A r \in Side : busy[r].then = "dial" => busy'[r] = busy[r] \/ nextID'[r] = nextID[r] + 2
    BY <2>1, SideFacts
  <2>7. \A r \in Side : loop'[r] \in {"cleanup", "done"} \/ busy'[r].then = "cleanup" =>
          /\ dialing'[r] \subseteq dialing[r]
          /\ loop[r] \in {"cleanup", "done"} \/ busy[r].then = "cleanup"
    <3>1. loop'[s] \in {"cleanup", "done"} \/ busy'[s].then = "cleanup" =>
            dialing'[s] \subseteq dialing[s] /\ busy[s].then = "cleanup"
      BY <1>0, <2>1
    <3>2. loop'[Peer(s)] \in {"cleanup", "done"} \/ busy'[Peer(s)].then = "cleanup" =>
            /\ dialing'[Peer(s)] \subseteq dialing[Peer(s)]
            /\ loop[Peer(s)] \in {"cleanup", "done"} \/ busy[Peer(s)].then = "cleanup"
      BY <2>1
    <3> QED
      BY <3>1, <3>2, SideFacts
  <2> QED
    BY <2>3, <2>4, <2>5, <2>6, <2>7, CallsFrame
<1>8. ASSUME NEW s \in Side, Fails(s)
      PROVE  Calls'
  <2>1. /\ UNCHANGED <<nextID, dialing>> /\ busy'[s] = NotBusy
        /\ busy'[Peer(s)] = busy[Peer(s)] /\ loop'[Peer(s)] = loop[Peer(s)] /\ loop[s] = "write"
        /\ loop'[s] = "cleanup" => busy[s].then = "cleanup"
        /\ loop'[s] # "done"
        /\ \A c \in Call :
             /\ dial'[c].id = dial[c].id
             /\ dial'[c].st = IF busy[s].then = "dial" /\ c = busy[s].call THEN "err"
                              ELSE dial[c].st
    BY <1>8 DEF Fails
  <2>2. \A c \in Call : Numbered(c)' => Numbered(c) /\ dial'[c].id = dial[c].id
    BY <2>1 DEF Numbered
  <2>3. busy[s].then = "dial" => \A c \in Call : c = busy[s].call => ~Numbered(c)'
    <3>1. busy[s].then = "dial" => busy[s].call \in Call \ dialing[s] /\ Caller(busy[s].call) = s
      BY DEF Writing, WritingOf
    <3> QED
      BY <2>1, <3>1 DEF Numbered
  <2>4. \A r \in Side : \A c \in dialing'[r] : Caller(c) = r /\ dial'[c].st \in {"wait", "err"}
    BY <1>0, <2>1
  <2>5. \A r \in Side : busy[r].then = "dial" =>
          busy'[r] = busy[r] \/ \A c \in Call : c = busy[r].call => ~Numbered(c)'
    BY <2>1, <2>3, SideFacts
  <2>6. \A r \in Side : loop'[r] \in {"cleanup", "done"} \/ busy'[r].then = "cleanup" =>
          loop[r] \in {"cleanup", "done"} \/ busy[r].then = "cleanup"
    BY <1>0, <2>1, SideFacts
  <2> QED
    BY <2>1, <2>2, <2>4, <2>5, <2>6, CallsFrame
<1>9. ASSUME NEW s \in Side, NEW c \in Call, Dials(s, c)
      PROVE  Calls'
  <2>1. /\ UNCHANGED <<nextID, dialing>> /\ busy'[Peer(s)] = busy[Peer(s)]
        /\ loop'[Peer(s)] = loop[Peer(s)] /\ loop[s] = "select" /\ loop'[s] = "write"
        /\ busy'[s].then = "dial" /\ busy'[s].call = c
        /\ Caller(c) = s /\ dial[c].st = "offer" /\ dial'[c].st = "wait" /\ dial'[c].id = nextID[s]
        /\ \A e \in Call \ {c} : dial'[e] = dial[e]
    BY <1>9 DEF Dials, Starts, PeerStays
  <2>2. \A e \in Call \ {c} : Numbered(e)' => Numbered(e) /\ dial'[e].id = dial[e].id
    BY <2>1 DEF Numbered
  <2>3. busy[s].then = "none"
    BY <1>0, <2>1
  <2>4. ASSUME NEW e \in Call, Numbered(e)'
        PROVE  /\ Mine(Caller(e), dial[e].id)'
               /\ \/ dial'[e].id < nextID'[Caller(e)]
                  \/ busy'[Caller(e)].then = "dial" /\ busy'[Caller(e)].call = e
               /\ e # c /\ Caller(e) = s => dial'[e].id < nextID[s]
    <3>1. CASE e = c
      BY <2>1, <3>1 DEF Mine
    <3>2. CASE e # c
      <4>1. Numbered(e) /\ dial'[e].id = dial[e].id
        BY <2>2, <2>4, <3>2
      <4>2. /\ Mine(Caller(e), dial[e].id)
            /\ \/ dial[e].id < nextID[Caller(e)]
               \/ busy[Caller(e)].then = "dial" /\ busy[Caller(e)].call = e
        BY <4>1 DEF Calls
      <4>3. Caller(e) = s \/ Caller(e) = Peer(s)
        BY SideFacts
      <4> QED
        BY <2>1, <2>3, <4>1, <4>2, <4>3 DEF Mine
    <3> QED
      BY <3>1, <3>2
  <2>5. ASSUME NEW e \in Call, NEW f \in Call, Numbered(e)', Numbered(f)', Caller(e) = Caller(f),
               dial'[e].id = dial'[f].id
        PROVE  e = f
    <3>1. nextID[s] \in Nat /\ \A x \in Nat : ~(x < x)
      BY DEF Types
    <3>2. CASE e # c /\ f # c
      BY <2>2, <2>5, <3>2 DEF Calls
    <3>3. CASE e = c \/ f = c
      BY <2>1, <2>4, <2>5, <3>1, <3>3
    <3> QED
      BY <3>2, <3>3
  <2>6. \A r \in Side : \A e \in dialing'[r] : Caller(e) = r /\ dial'[e].st \in {"wait", "err"}
    BY <1>0, <2>1
  <2>7. \A r \in Side : loop'[r] \in {"cleanup", "done"} \/ busy'[r].then = "cleanup"
          => dialing'[r] = {}
    BY <2>1, SideFacts DEF Calls
  <2> QED
    BY <2>4, <2>5, <2>6, <2>7 DEF Calls
<1> QED
  BY <1>1, <1>2, <1>3, <1>4, <1>5, <1>6, <1>7, <1>8, <1>9, IdFacts DEF Moves

-----------------------------------------------------------------------------
(* The children.                                                           *)

(* No identifier belongs to both sides, and the next one was not issued.   *)
LEMMA Parities ==
  ASSUME Types, Numbers, NEW s \in Side
  PROVE  /\ \A i \in Id : ~(Mine(s, i) /\ Mine(Peer(s), i))
         /\ ~Issued(nextID[s])
         /\ Calls => \A c \in dialing[s] : Mine(s, dial[c].id) /\ dial[c].id \in Id
<1>1. nextID[s] % 2 # nextID[Peer(s)] % 2
  BY SideFacts DEF Numbers, Side
<1>2. nextID[s] \in Nat
  BY DEF Types
<1>3. ~Issued(nextID[s])
  <2>1. ASSUME NEW r \in Side, Mine(r, nextID[s]), nextID[s] < nextID[r]
        PROVE  FALSE
    <3>1. r = s \/ r = Peer(s)
      BY SideFacts
    <3> QED
      BY <1>1, <1>2, <2>1, <3>1 DEF Mine
  <2> QED
    BY <2>1 DEF Issued
<1>4. ASSUME Calls, NEW c \in dialing[s]
      PROVE  Mine(s, dial[c].id) /\ dial[c].id \in Id
  <2>1. c \in Call /\ dial[c] \in DialCB
    BY DEF Types
  <2>2. Caller(c) = s /\ Numbered(c)
    BY <1>4 DEF Calls, Numbered
  <2> QED
    BY <1>4, <2>1, <2>2 DEF Calls, DialCB
<1> QED
  BY <1>1, <1>3, <1>4 DEF Mine

(* The identifiers that a step issues.                                     *)
LEMMA IssuedStep ==
  ASSUME Types, Moves
  PROVE  /\ \A r \in Side, i \in Id : Mine(r, i)' <=> Mine(r, i)
         /\ \A i \in Id : Issued(i) => Issued(i)'
<1>1. CASE nextID' = nextID
  BY <1>1 DEF Mine, Issued
<1>2. ASSUME NEW s \in Side, Writes(s)
      PROVE  /\ \A r \in Side, i \in Id : Mine(r, i)' <=> Mine(r, i)
             /\ \A i \in Id : Issued(i) => Issued(i)'
  BY <1>2, IssuedFrame DEF Writes
<1>3. nextID' = nextID \/ \E s \in Side : Writes(s)
  BY IssuedByWrites
<1> QED
  BY <1>1, <1>2, <1>3

(* What a step must leave alone.                                           *)
LEMMA FamiliesFrame ==
  ASSUME Types, NEW r \in Side, FamiliesOf(r),
         \A i \in Id : Issued(i) => Issued(i)',
         Children(r)' = Children(r), held[r] \subseteq held'[r],
         conns'[r] \union closed'[r] = conns[r] \union closed[r],
         \A c \in dialing'[r] : dial'[c].id \notin Children(r),
         \A i \in Id : closing'[r][i] > 0 => i \in closed'[r],
         \A i \in Id : /\ writer'[r][i].n = writer[r][i].n \/ i \in held[r]
                       /\ writer'[r][i].st # "idle" => writer[r][i].st # "idle" \/ i \in held[r],
         \A i \in Id : \/ rcvd'[r][i] = rcvd[r][i] /\ readB'[r][i] = readB[r][i]
                       \/ i \in Children(r)
  PROVE  FamiliesOf(r)'
<1>1. Children(r) \subseteq Id
  BY DEF Types, Children, Queued
<1>2. Children(r)' = conns'[r] \union closed'[r]
  BY DEF FamiliesOf
<1>3. \A i \in Id : i \in Children(r)' => Issued(i)'
  BY DEF FamiliesOf
<1>4. \A i \in Id : writer'[r][i].st # "idle" \/ writer'[r][i].n > 0 => i \in held'[r]
  BY DEF FamiliesOf
<1>5. \A i \in Id : rcvd'[r][i] # <<>> \/ readB'[r][i] # <<>> => i \in Children(r)'
  BY DEF FamiliesOf
<1>6. \A i \in Children(r)' : Issued(i)'
  BY <1>1, <1>3
<1> QED
  BY <1>2, <1>4, <1>5, <1>6 DEF FamiliesOf

(* Every step keeps the children so.                                       *)
LEMMA FamiliesStep ==
  ASSUME Types, Types', Numbers, Writing, Calls, Families, Messages, Moves
  PROVE  Families'
<1>0. /\ \A i \in Id : Issued(i) => Issued(i)'
      /\ \A s \in Side : Peer(s) \in Side /\ Peer(s) # s /\ Peer(Peer(s)) = s
      /\ \A s, r \in Side : r = s \/ r = Peer(s)
  BY IssuedStep, SideFacts
<1>a. \A s \in Side : /\ FamiliesOf(s)
                      /\ Children(s) = conns[s] \union closed[s]
                      /\ Children(s) \subseteq Id /\ held[s] \subseteq Children(s)
                      /\ \A c \in dialing[s] : dial[c].id \notin Children(s)
                      /\ \A i \in Id : closing[s][i] > 0 => i \in closed[s]
  <2>1. \A s \in Side : conns[s] \subseteq Id /\ closed[s] \subseteq Id
    BY DEF Types
  <2>2. \A s \in Side : held[s] \subseteq Children(s)
    BY DEF Children
  <2> QED
    BY <2>1, <2>2 DEF Families, FamiliesOf
<1>b. \A s \in Side : held'[s] = held[s] /\ accept'[s] = accept[s] => Children(s)' = Children(s)
  BY DEF Children, Queued
<1>c. ASSUME NEW s \in Side, FamiliesOf(s)', FamiliesOf(Peer(s))'
      PROVE  Families'
  BY <1>0, <1>c DEF Families
<1>1. ASSUME DialMoves
      PROVE  Families'
  <2>1. ASSUME NEW r \in Side
        PROVE  FamiliesOf(r)'
    <3>1. \A c \in dialing'[r] : dial'[c].id \notin Children(r)
      <4>1. dialing[r] \subseteq Call
        BY DEF Types
      <4> QED
        BY <1>a, <1>1, <4>1 DEF DialMoves
    <3> QED
      BY <1>0, <1>a, <1>b, <1>1, <3>1, FamiliesFrame DEF DialMoves
  <2> QED
    BY <2>1 DEF Families
<1>2. ASSUME AcceptMoves \/ WriterMoves \/ ClosedMoves \/ LoopMoves
      PROVE  Families'
  <2>1. ASSUME NEW r \in Side
        PROVE  FamiliesOf(r)'
    <3>1. CASE AcceptMoves
      BY <1>0, <1>a, <3>1, FamiliesFrame DEF AcceptMoves
    <3>2. CASE WriterMoves
      BY <1>0, <1>a, <1>b, <3>2, FamiliesFrame DEF WriterMoves
    <3>3. CASE ClosedMoves
      <4>1. conns'[r] \union closed'[r] = conns[r] \union closed[r]
        BY <1>a, <3>3 DEF ClosedMoves
      <4>2. \A i \in Id : closing'[r][i] > 0 => i \in closed'[r]
        BY <1>a, <3>3 DEF ClosedMoves
      <4> QED
        BY <1>0, <1>a, <1>b, <3>3, <4>1, <4>2, FamiliesFrame DEF ClosedMoves
    <3>4. CASE LoopMoves
      BY <1>0, <1>a, <1>b, <3>4, FamiliesFrame DEF LoopMoves
    <3> QED
      BY <1>2, <3>1, <3>2, <3>3, <3>4
  <2> QED
    BY <2>1 DEF Families
<1>3. ASSUME NEW s \in Side, NEW i \in Id, Reads(s, i) \/ Delivers(s, i)
      PROVE  Families'
  <2>1. i \in Children(s)
    <3>1. CASE Reads(s, i)
      BY <3>1 DEF Reads, Families, FamiliesOf
    <3>2. CASE Delivers(s, i)
      BY <1>a, <3>2 DEF Delivers
    <3> QED
      BY <1>3, <3>1, <3>2
  <2>2. /\ UNCHANGED <<nextID, dial, dialing, conns, accept, held, closed, closing, writer>>
        /\ \A r \in Side, j \in Id :
             r # s \/ j # i => rcvd'[r][j] = rcvd[r][j] /\ readB'[r][j] = readB[r][j]
    BY <1>3 DEF Reads, Delivers
  <2>3. ASSUME NEW r \in Side
        PROVE  FamiliesOf(r)'
    BY <1>0, <1>a, <1>b, <2>1, <2>2, FamiliesFrame
  <2> QED
    BY <2>3 DEF Families
<1>4. ASSUME NEW s \in Side, NEW i \in Id, Offers(s, i)
      PROVE  Families'
  <2>1. writer[s][i].st = "offer"
    BY <1>4 DEF Offers
  <2>2. ASSUME NEW r \in Side
        PROVE  FamiliesOf(r)'
    <3>1. \A j \in Id : /\ writer'[r][j].n = writer[r][j].n
                        /\ writer'[r][j].st # "idle" => writer[r][j].st # "idle"
      BY <1>4, <2>1 DEF Offers
    <3> QED
      BY <1>0, <1>a, <1>b, <1>4, <3>1, FamiliesFrame DEF Offers
  <2> QED
    BY <2>2 DEF Families
<1>5. ASSUME NEW s \in Side, NEW c \in Call, Dials(s, c)
      PROVE  Families'
  <2>1. \A r \in Side : \A e \in dialing[r] : e \in Call /\ e # c
    <3>1. \A r \in Side : dialing[r] \subseteq Call
      BY DEF Types
    <3>2. dial[c].st = "offer"
      BY <1>5 DEF Dials
    <3>3. \A r \in Side : \A e \in dialing[r] : dial[e].st \in {"wait", "err"}
      BY DEF Calls
    <3> QED
      BY <3>1, <3>2, <3>3
  <2>2. ASSUME NEW r \in Side
        PROVE  FamiliesOf(r)'
    <3>1. \A e \in dialing'[r] : dial'[e].id \notin Children(r)
      BY <1>a, <1>5, <2>1 DEF Dials
    <3> QED
      BY <1>0, <1>a, <1>b, <1>5, <3>1, FamiliesFrame DEF Dials
  <2> QED
    BY <2>2 DEF Families
<1>6. ASSUME NEW s \in Side, NEW i \in Id, NEW d \in {0, 1}, Unroutes(s, i, d)
      PROVE  Families'
  <2>1. /\ UNCHANGED <<nextID, dial, dialing, accept, held, readB, rcvd, writer>>
        /\ conns'[s] = conns[s] \ {i} /\ conns'[Peer(s)] = conns[Peer(s)]
        /\ closed'[Peer(s)] = closed[Peer(s)]
        /\ \A r \in Side, j \in Id : closing'[r][j] > 0 => closing[r][j] > 0
        /\ closed[s] \subseteq closed'[s]
    BY <1>6 DEF Unroutes
  <2>2. conns'[s] \union closed'[s] = conns[s] \union closed[s]
    <3>1. CASE closing[s][i] > 0
      BY <1>a, <1>6, <3>1 DEF Unroutes
    <3>2. CASE ~(closing[s][i] > 0)
      BY <1>6, <3>2 DEF Unroutes
    <3> QED
      BY <3>1, <3>2
  <2>3. FamiliesOf(s)'
    BY <1>0, <1>a, <1>b, <2>1, <2>2, FamiliesFrame
  <2>4. FamiliesOf(Peer(s))'
    BY <1>0, <1>a, <1>b, <2>1, FamiliesFrame
  <2> QED
    BY <1>c, <2>3, <2>4
<1>7. ASSUME NEW s \in Side, NEW i \in Id, NEW d \in {0, 1}, Replies(s, i, d) \/ Considers(s, i) \/ Ends(s)
      PROVE  Families'
  <2>1. UNCHANGED <<nextID, dial, dialing, conns, accept, held, closed, closing, readB, rcvd,
                    writer>>
    BY <1>7 DEF Replies, Considers, Ends
  <2>2. ASSUME NEW r \in Side
        PROVE  FamiliesOf(r)'
    BY <1>0, <1>a, <1>b, <2>1, FamiliesFrame
  <2> QED
    BY <2>2 DEF Families
<1>8. ASSUME NEW s \in Side, NEW i \in Id, Queues(s, i)
      PROVE  Families'
  <2>1. /\ UNCHANGED <<nextID, dial, dialing, held, closed, closing, readB, rcvd, writer>>
        /\ conns'[s] = conns[s] \union {i} /\ conns'[Peer(s)] = conns[Peer(s)]
        /\ Children(s)' = Children(s) \union {i} /\ Children(Peer(s))' = Children(Peer(s))
    BY <1>8 DEF Queues
  <2>2. Unanswered(Peer(s), i)
    <3>1. Accepting(Peer(Peer(s)), i)
      BY <1>0, <1>8 DEF Queues, Accepting
    <3> QED
      BY <1>0, <3>1 DEF Messages, MessagesOf
  <2>3. Issued(i)' /\ \A c \in dialing[s] : dial[c].id # i
    BY <1>0, <2>2, Parities DEF Unanswered
  <2>4. FamiliesOf(s)'
    <3>1. Children(s)' = conns'[s] \union closed'[s]
      BY <1>a, <2>1
    <3>2. \A j \in Id : j \in Children(s)' => Issued(j)'
      BY <1>0, <2>1, <2>3 DEF Families, FamiliesOf
    <3>3. \A j \in Children(s)' : j \in Id
      BY <1>a, <2>1
    <3>4. \A c \in dialing'[s] : dial'[c].id \notin Children(s)'
      BY <1>a, <2>1, <2>3
    <3>5. \A j \in Id : /\ closing'[s][j] > 0 => j \in closed'[s]
                        /\ writer'[s][j].st # "idle" \/ writer'[s][j].n > 0 => j \in held'[s]
                        /\ rcvd'[s][j] # <<>> \/ readB'[s][j] # <<>> => j \in Children(s)'
      BY <2>1 DEF Families, FamiliesOf
    <3>6. \A j \in Children(s)' : Issued(j)'
      BY <3>2, <3>3
    <3> QED
      BY <3>1, <3>4, <3>5, <3>6 DEF FamiliesOf
  <2>5. FamiliesOf(Peer(s))'
    BY <1>0, <1>a, <2>1, FamiliesFrame
  <2> QED
    BY <1>c, <2>4, <2>5
<1>9. ASSUME NEW s \in Side, NEW i \in Id, NEW C \in SUBSET Call, Connects(s, i, C)
      PROVE  Families'
  <2>1. /\ UNCHANGED <<nextID, accept, closed, closing, readB, rcvd, writer>>
        /\ conns'[s] = conns[s] \union {i} /\ conns'[Peer(s)] = conns[Peer(s)]
        /\ held'[s] = held[s] \union {i} /\ held'[Peer(s)] = held[Peer(s)]
        /\ C = DialingAs(s, i)
        /\ dialing'[s] = dialing[s] \ C /\ dialing'[Peer(s)] = dialing[Peer(s)]
        /\ \A c \in Call : dial'[c].id = dial[c].id
    BY <1>9 DEF Connects
  <2>2. \A r \in Side : dialing[r] \subseteq Call
    BY DEF Types
  <2>3. Children(s)' = Children(s) \union {i}
    BY <2>1 DEF Children, Queued
  <2>4. Issued(i)'
    <3>1. Issued(wire[Peer(s)][1].id)
      <4>1. 1 \in 1 .. Len(wire[Peer(s)])
        BY <1>0, <1>9, CutFacts DEF Connects, Takes, Cut
      <4> QED
        BY <1>0, <4>1 DEF Messages, MessagesOf
    <3>2. wire[Peer(s)][1].id = i
      BY <1>9 DEF Connects
    <3> QED
      BY <1>0, <3>1, <3>2
  <2>5. FamiliesOf(s)'
    <3>1. Children(s)' = conns'[s] \union closed'[s]
      BY <1>a, <2>1, <2>3
    <3>2. \A j \in Id : j \in Children(s)' => Issued(j)'
      BY <1>0, <2>3, <2>4 DEF Families, FamiliesOf
    <3>3. \A j \in Children(s)' : j \in Id
      BY <1>a, <2>3
    <3>4. \A c \in dialing'[s] : dial'[c].id \notin Children(s)'
      BY <1>a, <2>1, <2>2, <2>3 DEF DialingAs
    <3>5. \A j \in Id : /\ closing'[s][j] > 0 => j \in closed'[s]
                        /\ writer'[s][j].st # "idle" \/ writer'[s][j].n > 0 => j \in held'[s]
                        /\ rcvd'[s][j] # <<>> \/ readB'[s][j] # <<>> => j \in Children(s)'
      BY <2>1, <2>3 DEF Families, FamiliesOf
    <3>6. \A j \in Children(s)' : Issued(j)'
      BY <3>2, <3>3
    <3> QED
      BY <3>1, <3>4, <3>5, <3>6 DEF FamiliesOf
  <2>6. FamiliesOf(Peer(s))'
    <3>1. \A c \in dialing'[Peer(s)] : dial'[c].id \notin Children(Peer(s))
      BY <1>0, <1>a, <2>1, <2>2
    <3>2. Children(Peer(s))' = Children(Peer(s))
      BY <1>0, <1>b, <2>1
    <3> QED
      BY <1>0, <1>a, <2>1, <3>1, <3>2, FamiliesFrame
  <2> QED
    BY <1>c, <2>5, <2>6
<1>10. ASSUME NEW s \in Side, NEW i \in Id, NEW C \in SUBSET Call,
              Refuses(s, i, C) \/ FailsDials(s) \/ Fails(s)
       PROVE  Families'
  <2>1. /\ UNCHANGED <<nextID, conns, accept, held, closed, closing, readB, rcvd>>
        /\ \A c \in Call : dial'[c].id = dial[c].id
    BY <1>10 DEF Refuses, FailsDials, Fails
  <2>2. \A r \in Side : dialing'[r] \subseteq dialing[r] /\ dialing[r] \subseteq Call
    <3>1. dialing'[s] \subseteq dialing[s] /\ dialing'[Peer(s)] = dialing[Peer(s)]
      BY <1>10 DEF Refuses, FailsDials, Fails
    <3> QED
      BY <1>0, <3>1 DEF Types
  <2>3. \A r \in Side, j \in Id :
          /\ writer'[r][j].n = writer[r][j].n
          /\ writer'[r][j].st # "idle" => writer[r][j].st # "idle"
    <3>1. CASE Refuses(s, i, C) \/ FailsDials(s)
      BY <3>1 DEF Refuses, FailsDials
    <3>2. CASE Fails(s)
      BY <3>2 DEF Fails, Writing, WritingOf
    <3> QED
      BY <1>10, <3>1, <3>2
  <2>4. ASSUME NEW r \in Side
        PROVE  FamiliesOf(r)'
    <3>1. \A c \in dialing'[r] : dial'[c].id \notin Children(r)
      BY <1>a, <2>1, <2>2
    <3> QED
      BY <1>0, <1>a, <1>b, <2>1, <2>3, <3>1, FamiliesFrame
  <2> QED
    BY <2>4 DEF Families
<1>11. ASSUME NEW s \in Side, Writes(s)
       PROVE  Families'
  <2>1. /\ UNCHANGED <<dial, conns, accept, held, closed, closing, readB, rcvd>>
        /\ dialing'[s] = (IF busy[s].then = "dial" THEN dialing[s] \union {busy[s].call}
                          ELSE dialing[s])
        /\ dialing'[Peer(s)] = dialing[Peer(s)]
    BY <1>11 DEF Writes
  <2>2. ASSUME NEW r \in Side
        PROVE  FamiliesOf(r)'
    <3>1. \A c \in dialing'[r] : dial'[c].id \notin Children(r)
      <4>1. busy[s].then = "dial" => dial[busy[s].call].id = nextID[s]
        BY DEF Writing, WritingOf
      <4>2. nextID[s] \notin Children(s)
        BY Parities DEF Families, FamiliesOf
      <4>3. CASE r = s
        BY <1>a, <2>1, <4>1, <4>2, <4>3
      <4>4. CASE r = Peer(s)
        BY <1>a, <2>1, <4>4
      <4> QED
        BY <1>0, <4>3, <4>4
    <3>2. \A j \in Id : /\ writer'[r][j].n = writer[r][j].n \/ j \in held[r]
                        /\ writer'[r][j].st # "idle" => writer[r][j].st # "idle" \/ j \in held[r]
      <4>1. busy[s].then = "payload" => writer[s][busy[s].m.id].st = "wait"
        BY DEF Writing, WritingOf
      <4>2. busy[s].then = "payload" => busy[s].m.id \in held[s]
        <5>1. busy[s].m.id \in Id
          BY DEF Types, Busy, Message
        <5> QED
          BY <4>1, <5>1 DEF Families, FamiliesOf
      <4> QED
        BY <1>11, <4>2 DEF Writes
    <3> QED
      BY <1>0, <1>a, <1>b, <2>1, <3>1, <3>2, FamiliesFrame
  <2> QED
    BY <2>2 DEF Families
<1> QED
  BY <1>1, <1>2, <1>3, <1>4, <1>5, <1>6, <1>7, <1>8, <1>9, <1>10, <1>11, IdFacts DEF Moves

-----------------------------------------------------------------------------
(* The messages.                                                           *)

(* A dial stays unanswered while nobody gets the connection.               *)
LEMMA UnansweredFrame ==
  ASSUME NEW r \in Side, NEW i \in Id, Unanswered(r, i),
         (Mine(r, i)' <=> Mine(r, i)) /\ (Issued(i) => Issued(i)'),
         i \notin Children(r)', i \notin Children(Peer(r))',
         \A c \in Call : dial[c].id = i /\ dial[c].st \in {"wait", "err"} =>
           dial'[c].id = dial[c].id /\ dial'[c].st \in {"wait", "err"}
  PROVE  Unanswered(r, i)'
<1>1. PICK c \in Call : Caller(c) = r /\ dial[c].id = i /\ dial[c].st \in {"wait", "err"}
  BY DEF Unanswered
<1>2. dial'[c].id = i /\ dial'[c].st \in {"wait", "err"}
  BY <1>1
<1> QED
  BY <1>1, <1>2 DEF Unanswered

(* What is known of the messages, side by side.                            *)
LEMMA MessageFactsOf ==
  ASSUME Types, Numbers, Calls, Families, Messages, NEW s \in Side
  PROVE  /\ \A i \in Id : \A t \in {"dialAck", "payload", "close"} : Sent(s, t, i) => i \in Children(s)
         /\ \A i \in Id : Unanswered(s, i) => i \notin Children(s) \union Children(Peer(s))
         /\ \A i \in Id : Wired(s, "dial", i) => Unanswered(s, i) /\ ~Accepting(Peer(s), i)
         /\ \A i \in Id : Accepting(Peer(s), i) => Unanswered(s, i)
         /\ \A i \in Id : Unanswered(s, i) => Issued(i)
         /\ \A c \in dialing[s] : dial[c].id \notin Children(s) /\ dial[c].id \in Id /\ c \in Call
         /\ Children(s) \subseteq Id
         /\ \A i \in Children(s) : Issued(i)
         /\ \A k \in 1 .. Len(wire[s]) : /\ wire[s][k].id \in Id /\ Issued(wire[s][k].id)
                                         /\ Wired(s, wire[s][k].t, wire[s][k].id)
                                         /\ Sent(s, wire[s][k].t, wire[s][k].id)
<1>1. /\ \A i \in Id : \A t \in {"dialAck", "payload", "close"} : Sent(s, t, i) => i \in Children(s)
      /\ \A i \in Id : Wired(s, "dial", i) => Unanswered(s, i) /\ ~Accepting(Peer(s), i)
      /\ \A i \in Id : Accepting(Peer(s), i) => Unanswered(s, i)
      /\ \A k \in 1 .. Len(wire[s]) : Issued(wire[s][k].id)
  BY DEF Messages, MessagesOf
<1>2. \A i \in Id : Unanswered(s, i) => Issued(i) /\ i \notin Children(s) \union Children(Peer(s))
  BY DEF Unanswered
<1>3. \A c \in dialing[s] : dial[c].id \notin Children(s) /\ dial[c].id \in Id /\ c \in Call
  <2>1. dialing[s] \subseteq Call
    BY DEF Types
  <2> QED
    BY <2>1, Parities DEF Families, FamiliesOf
<1>4. Children(s) \subseteq Id /\ \A i \in Children(s) : Issued(i)
  <2>1. conns[s] \subseteq Id /\ closed[s] \subseteq Id
    BY DEF Types
  <2> QED
    BY <2>1 DEF Families, FamiliesOf
<1>5. \A k \in 1 .. Len(wire[s]) : wire[s][k].id \in Id
  <2>1. \A k \in 1 .. Len(wire[s]) : wire[s][k] \in Message
    BY DEF Types
  <2> QED
    BY <2>1 DEF Message
<1>6. \A k \in 1 .. Len(wire[s]) : /\ Wired(s, wire[s][k].t, wire[s][k].id)
                                   /\ Sent(s, wire[s][k].t, wire[s][k].id)
  BY DEF Wired, Sent
<1> QED
  BY <1>1, <1>2, <1>3, <1>4, <1>5, <1>6

(* A queue that lost messages holds no others.                             *)
LEMMA CutWired ==
  ASSUME Types, NEW s \in Side, NEW d, Cut(s, d)
  PROVE  /\ \A t, i : Wired(s, t, i)' => Wired(s, t, i)
         /\ d = 1 =>
              /\ 1 \in 1 .. Len(wire[s])
              /\ MessagesOf(s) /\ wire[s][1].t = "dial" =>
                   \A i \in Id : wire[s][1].id = i => ~Wired(s, "dial", i)'
<1>1. wire[s] \in Seq(Message) /\ d \in Nat /\ Len(wire[s]) \in Nat
      /\ Len(wire'[s]) = Len(wire[s]) - d /\ d <= Len(wire[s])
  BY DEF Types, Cut
<1>2. \A k \in 1 .. Len(wire'[s]) : k + d \in 1 .. Len(wire[s]) /\ wire'[s][k] = wire[s][k + d]
  BY <1>1 DEF Cut
<1>3. \A t, i : Wired(s, t, i)' => Wired(s, t, i)
  BY <1>2 DEF Wired
<1>4. ASSUME d = 1, MessagesOf(s), wire[s][1].t = "dial", NEW i \in Id, wire[s][1].id = i
      PROVE  ~Wired(s, "dial", i)'
  <2>1. 1 \in 1 .. Len(wire[s])
    BY <1>1, <1>4
  <2>2. ASSUME NEW k \in 1 .. Len(wire'[s]), wire'[s][k].t = "dial", wire'[s][k].id = i
        PROVE  FALSE
    <3>1. k + 1 = 1
      BY <1>2, <1>4, <2>1, <2>2 DEF MessagesOf
    <3> QED
      BY <1>1, <3>1
  <2> QED
    BY <2>2 DEF Wired
<1>5. d = 1 => 1 \in 1 .. Len(wire[s])
  BY <1>1
<1> QED
  BY <1>3, <1>4, <1>5

(* The messages of r stay so when the loops only change their place.       *)
LEMMA MessagesQuiet ==
  ASSUME Types, Types', Numbers, Writing, Calls, Families, Messages, Moves,
         NEW r \in Side, NEW d, Cut(r, d),
         \A s \in Side : /\ busy'[s] = busy[s]
                         /\ \/ loop'[s] = loop[s]
                            \/ {loop[s], loop'[s]} \intersect {"write", "accept"} = {}
                         /\ Children(s)' = Children(s),
         \A c \in Call : dial[c].st \in {"wait", "err"} =>
           dial'[c].id = dial[c].id /\ dial'[c].st \in {"wait", "err"},
         \A c \in dialing'[r] : /\ c \in dialing[r]
                                /\ dial'[c].st = "err" =>
                                     \/ dial[c].st = "err"
                                     \/ Sent(Peer(r), "errChild", dial[c].id),
         \A i \in Id : Sent(Peer(r), "errChild", i)' => Sent(Peer(r), "errChild", i)
  PROVE  MessagesOf(r)'
<1>0. /\ Peer(r) \in Side /\ MessagesOf(r)
      /\ \A i \in Id : (Mine(r, i)' <=> Mine(r, i)) /\ (Issued(i) => Issued(i)')
  BY SideFacts, IssuedStep DEF Messages
<1>1. loop'[r] = "write" /\ busy'[r].then # "dial" => Issued(busy[r].m.id)'
  <2>1. busy[r].m.id \in Id
    BY DEF Types, Busy, Message
  <2>2. loop'[r] = "write" => loop[r] = "write"
    OBVIOUS
  <2>3. \A i \in Id : (loop'[r] = "write" /\ busy[r].then # "dial" /\ i = busy[r].m.id) => Issued(i)'
    BY <1>0, <2>2 DEF MessagesOf
  <2> QED
    BY <2>1, <2>3 DEF Issued, Mine
<1>2. \A i \in Id : Accepting(Peer(r), i)' => Accepting(Peer(r), i)
  BY <1>0 DEF Accepting
<1>3. \A i \in Id : Unanswered(r, i) => Unanswered(r, i)'
  <2>1. ASSUME NEW i \in Id, Unanswered(r, i)
        PROVE  Unanswered(r, i)'
    <3>1. i \notin Children(r)' /\ i \notin Children(Peer(r))'
      BY <1>0, <2>1 DEF Unanswered
    <3> QED
      BY <1>0, <2>1, <3>1, UnansweredFrame
  <2> QED
    BY <2>1
<1>4. loop'[r] = "write" /\ busy'[r].m.t \in {"dialAck", "payload", "close"}
        => busy'[r].m.id \in Children(r)'
  <2>1. busy[r].m.id \in Id
    BY DEF Types, Busy, Message
  <2> QED
    BY <1>0, <2>1 DEF MessagesOf, Sent
<1>5. \A c \in dialing'[r] :
        /\ c \in dialing[r] /\ dial'[c].id = dial[c].id
        /\ dial'[c].st = "err" \/ Sent(Peer(r), "errChild", dial[c].id)' =>
             \/ dial[c].st = "err" \/ Sent(Peer(r), "errChild", dial[c].id)
             \/ Refused(r, dial[c].id)'
        /\ Refused(r, dial[c].id) => dial[c].id \notin Children(Peer(r))'
  <2>1. \A c \in dialing[r] : /\ c \in Call /\ dial[c].id \in Id
                              /\ dial[c].st \in {"wait", "err"}
    BY MessageFactsOf DEF Calls
  <2>2. \A c \in dialing'[r] : /\ c \in dialing[r] /\ dial'[c].id = dial[c].id
                               /\ dial[c].id \in Id
    BY <2>1
  <2>3. ASSUME NEW c \in dialing'[r], Sent(Peer(r), "errChild", dial[c].id)'
        PROVE  Sent(Peer(r), "errChild", dial[c].id)
    <3>1. \A i \in Id : i = dial[c].id => Sent(Peer(r), "errChild", i)'
      BY <2>2, <2>3 DEF Sent, Wired
    <3> QED
      BY <2>2, <3>1
  <2>4. \A c \in dialing'[r] : Refused(r, dial[c].id) => dial[c].id \notin Children(Peer(r))'
    BY <1>0 DEF Refused
  <2> QED
    BY <2>2, <2>3, <2>4
<1> QED
  BY <1>0, <1>1, <1>2, <1>3, <1>4, <1>5, MessagesFrame


(* And so do those of both.                                                *)
LEMMA MessagesQuietBoth ==
  ASSUME Types, Types', Numbers, Writing, Calls, Families, Messages, Moves,
         \A r \in Side : \E d : Cut(r, d),
         \A s \in Side : /\ busy'[s] = busy[s]
                         /\ \/ loop'[s] = loop[s]
                            \/ {loop[s], loop'[s]} \intersect {"write", "accept"} = {}
                         /\ Children(s)' = Children(s),
         \A c \in Call : dial[c].st \in {"wait", "err"} =>
           dial'[c].id = dial[c].id /\ dial'[c].st \in {"wait", "err"},
         \A r \in Side : \A c \in dialing'[r] :
           /\ c \in dialing[r]
           /\ dial'[c].st = "err" =>
                dial[c].st = "err" \/ Sent(Peer(r), "errChild", dial[c].id)
  PROVE  Messages'
<1>1. ASSUME NEW r \in Side
      PROVE  MessagesOf(r)'
  <2>1. PICK d : Cut(r, d)
    OBVIOUS
  <2>2. PICK e : Cut(Peer(r), e)
    BY SideFacts
  <2>3. \A t, i : Wired(Peer(r), t, i)' => Wired(Peer(r), t, i)
    BY <2>2, SideFacts, CutWired
  <2>4. \A i \in Id : Sent(Peer(r), "errChild", i)' => Sent(Peer(r), "errChild", i)
    BY <2>3, SideFacts DEF Sent
  <2> QED
    BY <2>1, <2>4, MessagesQuiet
<1> QED
  BY <1>1 DEF Messages

(* Steps that start no write and queue no child keep what the messages     *)
(* say.                                                                    *)
LEMMA MessagesAtRest ==
  ASSUME Types, Types', Numbers, Writing, Calls, Families, Messages, Moves,
         \/ DialMoves \/ AcceptMoves \/ WriterMoves \/ ClosedMoves \/ LoopMoves
         \/ \E s \in Side :
              \/ FailsDials(s) \/ Ends(s)
              \/ \E i \in Id :
                   \/ Reads(s, i) \/ Delivers(s, i)
                   \/ \E C \in SUBSET Call : Refuses(s, i, C)
  PROVE  Messages'
<1>0. \A r \in Side : wire'[r] = wire[r] => \E d : Cut(r, d)
  BY CutFacts
<1>1. ASSUME DialMoves \/ AcceptMoves \/ WriterMoves \/ ClosedMoves \/ LoopMoves
      PROVE  Messages'
  <2>1. wire' = wire /\ busy' = busy /\ dialing' = dialing
    BY <1>1 DEF DialMoves, AcceptMoves, WriterMoves, ClosedMoves, LoopMoves
  <2>2. \A s \in Side : \/ loop'[s] = loop[s]
                        \/ {loop[s], loop'[s]} \intersect {"write", "accept"} = {}
    BY <1>1 DEF DialMoves, AcceptMoves, WriterMoves, ClosedMoves, LoopMoves
  <2>3. \A s \in Side : Children(s)' = Children(s)
    BY <1>1 DEF DialMoves, AcceptMoves, WriterMoves, ClosedMoves, LoopMoves, Children, Queued
  <2>4. \A c \in Call : dial[c].st \in {"wait", "err"} =>
          dial'[c].id = dial[c].id /\ dial'[c].st = dial[c].st
    BY <1>1 DEF DialMoves, AcceptMoves, WriterMoves, ClosedMoves, LoopMoves
  <2>5. \A r \in Side : \A c \in dialing[r] : c \in Call /\ dial[c].st \in {"wait", "err"}
    <3>1. \A r \in Side : dialing[r] \subseteq Call
      BY DEF Types
    <3> QED
      BY <3>1 DEF Calls
  <2> QED
    BY <1>0, <2>1, <2>2, <2>3, <2>4, <2>5, MessagesQuietBoth
<1>2. ASSUME NEW s \in Side, NEW i \in Id, Reads(s, i) \/ Delivers(s, i)
      PROVE  Messages'
  <2>1. busy' = busy /\ dialing' = dialing /\ loop' = loop /\ dial' = dial
    BY <1>2 DEF Reads, Delivers
  <2>2. \A r \in Side : Children(r)' = Children(r)
    BY <1>2 DEF Reads, Delivers, Children, Queued
  <2>3. \A r \in Side : \E d : Cut(r, d)
    BY <1>0, <1>2, SideFacts DEF Reads, Delivers, Takes
  <2> QED
    BY <2>1, <2>2, <2>3, MessagesQuietBoth
<1>3. ASSUME NEW s \in Side, Ends(s)
      PROVE  Messages'
  <2>1. busy' = busy /\ dialing' = dialing /\ dial' = dial
    BY <1>3 DEF Ends
  <2>2. \A r \in Side : Children(r)' = Children(r)
    BY <1>3 DEF Ends, Children, Queued
  <2>3. Cut(Peer(s), Len(wire[Peer(s)]))
    <3>1. Len(wire[Peer(s)]) \in Nat /\ wire'[Peer(s)] = <<>>
      BY <1>3, SideFacts, CutFacts DEF Ends
    <3> QED
      BY <3>1 DEF Cut
  <2>4. \A r \in Side : \E d : Cut(r, d)
    BY <1>0, <1>3, <2>3, SideFacts DEF Ends
  <2>5. \A r \in Side : \/ loop'[r] = loop[r]
                        \/ {loop[r], loop'[r]} \intersect {"write", "accept"} = {}
    BY <1>3, SideFacts DEF Ends
  <2> QED
    BY <2>1, <2>2, <2>4, <2>5, MessagesQuietBoth
<1>4. ASSUME NEW s \in Side, FailsDials(s)
      PROVE  Messages'
  <2>1. busy' = busy /\ wire' = wire
    BY <1>4 DEF FailsDials
  <2>2. \A r \in Side : Children(r)' = Children(r)
    BY <1>4 DEF FailsDials, Children, Queued
  <2>3. \A r \in Side : \/ loop'[r] = loop[r]
                        \/ {loop[r], loop'[r]} \intersect {"write", "accept"} = {}
    BY <1>4, SideFacts DEF FailsDials
  <2>4. \A c \in Call : dial[c].st \in {"wait", "err"} =>
          dial'[c].id = dial[c].id /\ dial'[c].st \in {"wait", "err"}
    BY <1>4 DEF FailsDials
  <2>5. \A r \in Side : dialing[r] \subseteq Call /\ \A c \in dialing[r] : Caller(c) = r
    BY DEF Types, Calls
  <2>6. ASSUME NEW r \in Side, NEW c \in dialing'[r]
        PROVE  c \in dialing[r] /\ dial'[c].st = dial[c].st
    <3>1. r = Peer(s) /\ c \in dialing[r]
      BY <1>4, <2>6, SideFacts DEF FailsDials
    <3>2. c \notin dialing[s] /\ c \in Call
      BY <2>5, <3>1, SideFacts
    <3> QED
      BY <1>4, <3>1, <3>2 DEF FailsDials
  <2> QED
    BY <1>0, <2>1, <2>2, <2>3, <2>4, <2>6, MessagesQuietBoth
<1>5. ASSUME NEW s \in Side, NEW i \in Id, NEW C \in SUBSET Call, Refuses(s, i, C)
      PROVE  Messages'
  <2>1. busy' = busy /\ dialing' = dialing
    BY <1>5 DEF Refuses
  <2>2. \A r \in Side : Children(r)' = Children(r)
    BY <1>5 DEF Refuses, Children, Queued
  <2>3. \A r \in Side : \/ loop'[r] = loop[r]
                        \/ {loop[r], loop'[r]} \intersect {"write", "accept"} = {}
    BY <1>5, SideFacts DEF Refuses
  <2>4. \A r \in Side : \E d : Cut(r, d)
    BY <1>0, <1>5, SideFacts DEF Refuses, Takes
  <2>5. \A c \in Call : dial[c].st \in {"wait", "err"} =>
          dial'[c].id = dial[c].id /\ dial'[c].st \in {"wait", "err"}
    BY <1>5 DEF Refuses
  <2>6. Sent(Peer(s), "errChild", i)
    <3>1. Cut(Peer(s), 1) /\ wire[Peer(s)][1].t = "errChild" /\ wire[Peer(s)][1].id = i
      BY <1>5 DEF Refuses, Takes
    <3>2. 1 \in 1 .. Len(wire[Peer(s)])
      BY <3>1, SideFacts, CutWired
    <3> QED
      BY <3>1, <3>2 DEF Sent, Wired
  <2>7. ASSUME NEW r \in Side, NEW c \in dialing'[r], dial'[c].st = "err"
        PROVE  c \in dialing[r] /\ (dial[c].st = "err" \/ Sent(Peer(r), "errChild", dial[c].id))
    <3>1. c \in dialing[r] /\ c \in Call /\ Caller(c) = r
      BY <2>1, <2>7 DEF Types, Calls
    <3>2. CASE c \in C
      <4>1. c \in dialing[s] /\ dial[c].id = i
        BY <1>5, <3>2 DEF Refuses, DialingAs
      <4>2. r = s
        BY <3>1, <4>1 DEF Calls
      <4> QED
        BY <2>6, <3>1, <4>1, <4>2
    <3>3. CASE c \notin C
      BY <1>5, <2>7, <3>1, <3>3 DEF Refuses
    <3> QED
      BY <3>2, <3>3
  <2> QED
    BY <2>1, <2>2, <2>3, <2>4, <2>5, <2>7, MessagesQuietBoth
<1> QED
  BY <1>1, <1>2, <1>3, <1>4, <1>5

(* The messages of r stay so when a write starts or ends.                  *)
LEMMA MessagesStarts ==
  ASSUME Types, Types', Numbers, Writing, Calls, Families, Messages, Moves,
         NEW r \in Side, NEW d, Cut(r, d),
         \A c \in Call : dial[c].st \in {"wait", "err"} /\ dial'[c].st # "ok" =>
           dial'[c].id = dial[c].id /\ dial'[c].st \in {"wait", "err"},
         \A i \in Id : Accepting(Peer(r), i)' =>
           \/ Accepting(Peer(r), i)
           \/ ~Wired(r, "dial", i)' /\ Wired(r, "dial", i),
         Children(r) \subseteq Children(r)',
         \A i \in Id : Unanswered(r, i) /\ (Wired(r, "dial", i)' \/ Accepting(Peer(r), i)') =>
           /\ i \notin Children(r)' \union Children(Peer(r))'
           /\ \A c \in Call : dial[c].id = i /\ dial[c].st \in {"wait", "err"} =>
                dial'[c].st # "ok",
         \/ loop'[r] # "write"
         \/ loop[r] = "write" /\ busy'[r] = busy[r]
         \/ busy'[r].then = "dial" /\ busy'[r].m.t = "dial"
         \/ \E i \in Id : /\ Issued(i) /\ busy'[r].m.id = i
                          /\ busy'[r].m.t \in {"dialAck", "payload", "close"} => i \in Children(r)',
         \A c \in dialing'[r] :
           /\ c \in dialing[r]
           /\ dial'[c].st = dial[c].st
           /\ Refused(r, dial[c].id) => dial[c].id \notin Children(Peer(r))',
         \A i \in Id : (\E c \in dialing'[r] : dial[c].id = i) /\ Sent(Peer(r), "errChild", i)' =>
           Sent(Peer(r), "errChild", i) \/ Refused(r, i)'
  PROVE  MessagesOf(r)'
<1>0. /\ Peer(r) \in Side /\ MessagesOf(r)
      /\ \A i \in Id : (Mine(r, i)' <=> Mine(r, i)) /\ (Issued(i) => Issued(i)')
  BY SideFacts, IssuedStep DEF Messages
<1>1. loop'[r] = "write" /\ busy'[r].then # "dial" => Issued(busy[r].m.id)'
  <2>1. busy[r].m.id \in Id /\ busy'[r].m.id \in Id
    BY DEF Types, Busy, Message
  <2>2. \A i \in Id : (loop'[r] = "write" /\ busy'[r].then # "dial" /\ i = busy'[r].m.id) => Issued(i)'
    <3>1. CASE loop[r] = "write" /\ busy'[r] = busy[r]
      <4>1. busy[r].then # "dial" => Issued(busy[r].m.id)
        BY <3>1, <1>0 DEF MessagesOf
      <4>2. \A i \in Id : (busy[r].then # "dial" /\ i = busy[r].m.id) => Issued(i)
        BY <4>1
      <4> QED
        BY <1>0, <3>1, <4>2
    <3>2. CASE \E i \in Id : Issued(i) /\ busy'[r].m.id = i
      BY <1>0, <3>2
    <3> QED
      BY <3>1, <3>2
  <2> QED
    BY <2>1, <2>2 DEF Issued, Mine
<1>2. ASSUME NEW i \in Id, Unanswered(r, i), Wired(r, "dial", i)' \/ Accepting(Peer(r), i)'
      PROVE  Unanswered(r, i)'
  <2>1. /\ i \notin Children(r)' /\ i \notin Children(Peer(r))'
        /\ \A c \in Call : dial[c].id = i /\ dial[c].st \in {"wait", "err"} => dial'[c].st # "ok"
    BY <1>2
  <2>2. \A c \in Call : dial[c].id = i /\ dial[c].st \in {"wait", "err"} =>
          dial'[c].id = dial[c].id /\ dial'[c].st \in {"wait", "err"}
    BY <2>1
  <2> QED
    BY <1>0, <1>2, <2>1, <2>2, UnansweredFrame
<1>3. loop'[r] = "write" /\ busy'[r].m.t \in {"dialAck", "payload", "close"}
        => busy'[r].m.id \in Children(r)'
  <2>1. busy[r].m.id \in Id
    BY DEF Types, Busy, Message
  <2>2. loop[r] = "write" /\ busy[r].m.t \in {"dialAck", "payload", "close"}
          => busy[r].m.id \in Children(r)
    BY <1>0, <2>1 DEF MessagesOf, Sent
  <2> QED
    BY <2>2
<1>4. \A c \in dialing'[r] :
        /\ c \in dialing[r] /\ dial'[c].id = dial[c].id
        /\ dial'[c].st = "err" \/ Sent(Peer(r), "errChild", dial[c].id)' =>
             \/ dial[c].st = "err" \/ Sent(Peer(r), "errChild", dial[c].id)
             \/ Refused(r, dial[c].id)'
        /\ Refused(r, dial[c].id) => dial[c].id \notin Children(Peer(r))'
  <2>1. \A c \in dialing[r] : /\ c \in Call /\ dial[c].id \in Id
                              /\ dial[c].st \in {"wait", "err"}
    BY MessageFactsOf DEF Calls
  <2>2. \A c \in dialing'[r] : /\ c \in dialing[r] /\ dial'[c].id = dial[c].id
                               /\ dial[c].id \in Id
    BY <2>1
  <2>3. ASSUME NEW c \in dialing'[r], Sent(Peer(r), "errChild", dial[c].id)'
        PROVE  Sent(Peer(r), "errChild", dial[c].id) \/ Refused(r, dial[c].id)'
    <3>1. \A i \in Id : i = dial[c].id => Sent(Peer(r), "errChild", i)'
      BY <2>2, <2>3 DEF Sent, Wired
    <3>2. \A i \in Id : i = dial[c].id =>
            (\E b \in dialing'[r] : dial[b].id = i)
      BY <2>3
    <3>3. \A i \in Id : i = dial[c].id => Sent(Peer(r), "errChild", i) \/ Refused(r, i)'
      BY <3>1, <3>2
    <3> QED
      BY <2>2, <3>3 DEF Refused, Children, Queued, Wired, Accepting
  <2> QED
    BY <2>2, <2>3
<1> QED
  BY <1>0, <1>1, <1>2, <1>3, <1>4, MessagesFrame

(* A write that starts without an answer to a dial, or ends in an error.   *)
LEMMA MessagesWriting ==
  ASSUME Types, Types', Numbers, Writing, Calls, Families, Messages, Moves, NEW s \in Side,
         \/ Fails(s)
         \/ \E c \in Call : Dials(s, c)
         \/ \E i \in Id : Offers(s, i) \/ \E d \in {0, 1} : Unroutes(s, i, d)
  PROVE  Messages'
<1>0. /\ Peer(s) \in Side /\ Peer(s) # s /\ Peer(Peer(s)) = s
      /\ \A r \in Side : r = s \/ r = Peer(s)
  BY SideFacts
<1>1. \A r \in Side : Children(r)' = Children(r)
  BY DEF Fails, Dials, Offers, Unroutes, Children, Queued
<1>2. /\ loop'[Peer(s)] = loop[Peer(s)] /\ busy'[Peer(s)] = busy[Peer(s)]
      /\ dialing' = dialing /\ wire'[s] = wire[s]
  BY DEF Fails, Dials, Offers, Unroutes, Starts, PeerStays, Takes
<1>3. PICK d \in {0, 1} : Cut(Peer(s), d)
  <2>1. wire' = wire \/ \E d \in {0, 1} : Cut(Peer(s), d)
    BY DEF Fails, Dials, Offers, Unroutes, Takes
  <2> QED
    BY <1>0, <2>1, CutFacts
<1>4. Cut(s, 0)
  BY <1>2, CutFacts
<1>5. \A c \in Call : dial[c].st \in {"wait", "err"} =>
        dial'[c].id = dial[c].id /\ dial'[c].st \in {"wait", "err"}
  BY DEF Fails, Dials, Offers, Unroutes
<1>6. \A r \in Side : \A c \in dialing[r] : dial'[c].st = dial[c].st
  <2>1. \A r \in Side : \A c \in dialing[r] : c \in Call /\ dial[c].st \in {"wait", "err"} /\ Caller(c) = r
    BY DEF Types, Calls
  <2>2. ASSUME Fails(s), busy[s].then = "dial"
        PROVE  \A r \in Side : busy[s].call \notin dialing[r]
    <3>1. Caller(busy[s].call) = s /\ busy[s].call \notin dialing[s]
      BY <2>2 DEF Writing, WritingOf
    <3> QED
      BY <2>1, <3>1
  <2>3. ASSUME Fails(s)
        PROVE  \A r \in Side : \A c \in dialing[r] : dial'[c].st = dial[c].st
    BY <2>1, <2>2, <2>3 DEF Fails
  <2>4. ASSUME NEW b \in Call, Dials(s, b)
        PROVE  \A r \in Side : \A c \in dialing[r] : dial'[c].st = dial[c].st
    BY <2>1, <2>4 DEF Dials
  <2>5. ASSUME NEW i \in Id, Offers(s, i) \/ \E e \in {0, 1} : Unroutes(s, i, e)
        PROVE  \A r \in Side : \A c \in dialing[r] : dial'[c].st = dial[c].st
    BY <2>5 DEF Offers, Unroutes
  <2> QED
    BY <2>3, <2>4, <2>5
<1>7. \A r \in Side : \A i \in Id : Accepting(r, i)' => Accepting(r, i)
  <2>1. loop'[s] = "accept" => loop[s] = "accept" /\ busy'[s] = busy[s]
    BY DEF Fails, Dials, Offers, Unroutes, Starts
  <2> QED
    BY <1>0, <1>2, <2>1 DEF Accepting
<1>8. \/ loop'[s] # "write"
      \/ busy'[s].then = "dial" /\ busy'[s].m.t = "dial"
      \/ \E i \in Id : Issued(i) /\ busy'[s].m.id = i /\ i \in Children(s)'
  <2>1. ASSUME Fails(s)
        PROVE  loop'[s] # "write"
    BY <2>1 DEF Fails
  <2>2. ASSUME NEW c \in Call, Dials(s, c)
        PROVE  busy'[s].then = "dial" /\ busy'[s].m.t = "dial"
    BY <2>2 DEF Dials, Starts
  <2>3. \A i \in Id : i \in conns[s] \/ closing[s][i] > 0 => i \in Children(s) /\ Issued(i)
    BY DEF Families, FamiliesOf
  <2>4. ASSUME NEW i \in Id, Offers(s, i) \/ \E e \in {0, 1} : Unroutes(s, i, e)
        PROVE  loop'[s] # "write" \/ (Issued(i) /\ busy'[s].m.id = i /\ i \in Children(s)')
    <3>1. Issued(i) /\ i \in Children(s)'
      BY <1>1, <2>3, <2>4 DEF Offers, Unroutes
    <3>2. loop'[s] # "write" \/ busy'[s].m.id = i
      BY <2>4 DEF Offers, Unroutes, Starts
    <3> QED
      BY <3>1, <3>2
  <2> QED
    BY <2>1, <2>2, <2>4
<1>9. \A r \in Side : \A i \in Id : Sent(r, "errChild", i)' => Sent(r, "errChild", i)
  <2>1. \A t, i : (Wired(s, t, i)' => Wired(s, t, i)) /\ (Wired(Peer(s), t, i)' => Wired(Peer(s), t, i))
    BY <1>0, <1>3, <1>4, CutWired
  <2>2. loop'[s] = "write" /\ busy'[s].m.t = "errChild" => loop[s] = "write" /\ busy'[s] = busy[s]
    BY DEF Fails, Dials, Offers, Unroutes, Starts
  <2> QED
    BY <1>0, <1>2, <2>1, <2>2 DEF Sent
<1>10. ASSUME NEW r \in Side, NEW e, Cut(r, e)
       PROVE  MessagesOf(r)'
  <2>1. \/ loop'[r] # "write"
        \/ loop[r] = "write" /\ busy'[r] = busy[r]
        \/ busy'[r].then = "dial" /\ busy'[r].m.t = "dial"
        \/ \E i \in Id : Issued(i) /\ busy'[r].m.id = i /\ i \in Children(r)'
    BY <1>0, <1>2, <1>8
  <2>2. \A i \in Id : Unanswered(r, i) => i \notin Children(r)' \union Children(Peer(r))'
    BY <1>0, <1>1 DEF Unanswered
  <2>3. \A c \in dialing'[r] : Refused(r, dial[c].id) => dial[c].id \notin Children(Peer(r))'
    BY <1>0, <1>1 DEF Refused
  <2>4. \A c \in Call : dial[c].st \in {"wait", "err"} => dial'[c].st # "ok"
    BY <1>5
  <2>5. \A i \in Id : Accepting(Peer(r), i)' => Accepting(Peer(r), i)
    BY <1>0, <1>7
  <2>6. \A i \in Id : Sent(Peer(r), "errChild", i)' => Sent(Peer(r), "errChild", i)
    BY <1>0, <1>9
  <2>7. Children(r) \subseteq Children(r)'
    BY <1>1
  <2>8. \A c \in dialing'[r] : c \in dialing[r] /\ dial'[c].st = dial[c].st
    BY <1>2, <1>6
  <2> QED
    BY <1>5, <1>10, <2>1, <2>2, <2>3, <2>4, <2>5, <2>6, <2>7, <2>8, MessagesStarts
<1> QED
  BY <1>0, <1>3, <1>4, <1>10 DEF Messages

(* acceptDial, from the dial to the queue or to the refusal.               *)
LEMMA MessagesAccepting ==
  ASSUME Types, Types', Numbers, Writing, Calls, Families, Messages, Moves,
         NEW s \in Side, NEW j \in Id, Considers(s, j) \/ Queues(s, j)
  PROVE  Messages'
<1>0. /\ Peer(s) \in Side /\ Peer(s) # s /\ Peer(Peer(s)) = s
      /\ \A r \in Side : r = s \/ r = Peer(s)
  BY SideFacts
<1>1. /\ loop'[Peer(s)] = loop[Peer(s)] /\ busy'[Peer(s)] = busy[Peer(s)]
      /\ dialing' = dialing /\ dial' = dial /\ wire'[s] = wire[s]
      /\ Cut(s, 0)
  <2>1. wire'[s] = wire[s]
    BY DEF Considers, Queues, Takes
  <2>2. /\ loop'[Peer(s)] = loop[Peer(s)] /\ busy'[Peer(s)] = busy[Peer(s)]
        /\ dialing' = dialing /\ dial' = dial
    BY DEF Considers, Queues, PeerStays
  <2> QED
    BY <2>1, <2>2, CutFacts
<1>2. \A c \in Call : dial[c].st \in {"wait", "err"} =>
        dial'[c].id = dial[c].id /\ dial'[c].st \in {"wait", "err"}
  BY <1>1
<1>3. Children(Peer(s))' = Children(Peer(s))
  BY <1>0 DEF Considers, Queues, Children, Queued
<1>4. CASE Considers(s, j)
  <2>1. /\ Cut(Peer(s), 1) /\ loop[s] = "select" /\ loop'[s] = "accept"
        /\ wire[Peer(s)][1].t = "dial" /\ wire[Peer(s)][1].id = j
        /\ busy'[s].m.id = j
    BY <1>4 DEF Considers, Takes
  <2>2. /\ \A t, i : Wired(Peer(s), t, i)' => Wired(Peer(s), t, i)
        /\ Wired(Peer(s), "dial", j) /\ ~Wired(Peer(s), "dial", j)'
    <3>1. 1 \in 1 .. Len(wire[Peer(s)])
      BY <1>0, <2>1, CutWired
    <3>2. Wired(Peer(s), "dial", j)
      BY <2>1, <3>1 DEF Wired
    <3>3. MessagesOf(Peer(s))
      BY <1>0 DEF Messages
    <3> QED
      BY <1>0, <2>1, <3>2, <3>3, CutWired
  <2>3. Children(s)' = Children(s)
    BY <1>4 DEF Considers, Children, Queued
  <2>4. \A t, i : Wired(s, t, i)' => Wired(s, t, i)
    BY <1>1 DEF Wired
  <2>5. \A r \in Side, i \in Id : Sent(r, "errChild", i)' => Sent(r, "errChild", i)
    BY <1>0, <1>1, <2>1, <2>2, <2>4 DEF Sent
  <2>6. /\ \A i \in Id : Accepting(s, i)' => i = j
        /\ \A i \in Id : Accepting(Peer(s), i)' => Accepting(Peer(s), i)
    BY <1>1, <2>1 DEF Accepting
  <2>7. ASSUME NEW r \in Side, NEW d, Cut(r, d)
        PROVE  MessagesOf(r)'
    <3>1. \A i \in Id : Accepting(Peer(r), i)' =>
           \/ Accepting(Peer(r), i)
           \/ ~Wired(r, "dial", i)' /\ Wired(r, "dial", i)
      BY <1>0, <2>2, <2>6
    <3>2. Children(r)' = Children(r) /\ Children(Peer(r))' = Children(Peer(r))
      BY <1>0, <1>3, <2>3
    <3>3. \A i \in Id : Unanswered(r, i) => i \notin Children(r)' \union Children(Peer(r))'
      BY <3>2 DEF Unanswered
    <3>4. loop'[r] # "write" \/ (loop[r] = "write" /\ busy'[r] = busy[r])
      BY <1>0, <1>1, <2>1
    <3>5. \A c \in dialing'[r] : Refused(r, dial[c].id) => dial[c].id \notin Children(Peer(r))'
      BY <3>2 DEF Refused
    <3>6. \A i \in Id : Sent(Peer(r), "errChild", i)' => Sent(Peer(r), "errChild", i)
      BY <1>0, <2>5
    <3> QED
      BY <1>1, <1>2, <2>7, <3>1, <3>2, <3>3, <3>4, <3>5, <3>6, MessagesStarts
  <2> QED
    BY <1>0, <1>1, <2>1, <2>7 DEF Messages
<1>5. CASE Queues(s, j)
  <2>1. /\ loop[s] = "accept" /\ busy[s].m.id = j /\ loop'[s] = "write" /\ busy' = busy
        /\ busy[s].m.t = "dialAck" /\ wire' = wire
        /\ Children(s)' = Children(s) \union {j}
    BY <1>5 DEF Queues, Writing, WritingOf
  <2>2. Accepting(s, j) /\ Unanswered(Peer(s), j) /\ Mine(Peer(s), j) /\ Issued(j)
    <3>1. Accepting(s, j)
      BY <2>1 DEF Accepting
    <3> QED
      BY <1>0, <3>1, MessageFactsOf DEF Unanswered
  <2>3. \A i \in Id : Accepting(s, i)' => FALSE
    BY <2>1 DEF Accepting
  <2>4. \A i \in Id : Accepting(Peer(s), i)' => Accepting(Peer(s), i)
    BY <1>1 DEF Accepting
  <2>5. \A r \in Side, i \in Id : Sent(r, "errChild", i)' => Sent(r, "errChild", i)
    BY <1>0, <1>1, <2>1 DEF Sent, Wired
  <2>6. \A i \in Id : Wired(Peer(s), "dial", i)' => i # j
    <3>1. Wired(Peer(s), "dial", j) => ~Accepting(s, j)
      BY <1>0, MessageFactsOf
    <3>2. \A i : Wired(Peer(s), "dial", i)' => Wired(Peer(s), "dial", i)
      BY <2>1 DEF Wired
    <3> QED
      BY <2>2, <3>1, <3>2
  <2>7. \A i \in Id : Unanswered(s, i) => i # j
    BY <1>0, <2>2, Parities DEF Unanswered
  <2>8. ASSUME NEW c \in dialing[s]
        PROVE  dial[c].id # j
    <3>1. Mine(s, dial[c].id) /\ dial[c].id \in Id
      BY Parities
    <3> QED
      BY <1>0, <2>2, <3>1, Parities
  <2>9. ASSUME NEW c \in dialing[Peer(s)], Refused(Peer(s), dial[c].id)
        PROVE  dial[c].id # j
    BY <1>0, <2>2, <2>9 DEF Refused
  <2>10. MessagesOf(s)'
    <3>1. \A i \in Id : Unanswered(s, i) => i \notin Children(s)' \union Children(Peer(s))'
      BY <1>3, <2>1, <2>7 DEF Unanswered
    <3>2. \E i \in Id : /\ Issued(i) /\ busy'[s].m.id = i /\ i \in Children(s)'
      BY <2>1, <2>2
    <3>3. \A c \in dialing'[s] : Refused(s, dial[c].id) => dial[c].id \notin Children(Peer(s))'
      BY <1>3 DEF Refused
    <3>4. \A i \in Id : Sent(Peer(s), "errChild", i)' => Sent(Peer(s), "errChild", i)
      BY <1>0, <2>5
    <3>5. Children(s) \subseteq Children(s)'
      BY <2>1
    <3> QED
      BY <1>1, <1>2, <2>4, <3>1, <3>2, <3>3, <3>4, <3>5, MessagesStarts
  <2>11. MessagesOf(Peer(s))'
    <3>1. \A i \in Id : Unanswered(Peer(s), i) /\ Wired(Peer(s), "dial", i)' =>
            i \notin Children(Peer(s))' \union Children(s)'
      BY <1>0, <1>3, <2>1, <2>6 DEF Unanswered
    <3>2. \A c \in dialing'[Peer(s)] : Refused(Peer(s), dial[c].id) => dial[c].id \notin Children(s)'
      BY <1>0, <1>1, <2>1, <2>9 DEF Refused
    <3>3. \A i \in Id : Sent(s, "errChild", i)' => Sent(s, "errChild", i)
      BY <2>5
    <3>4. loop'[Peer(s)] # "write" \/ (loop[Peer(s)] = "write" /\ busy'[Peer(s)] = busy[Peer(s)])
      BY <1>1
    <3>5. Cut(Peer(s), 0)
      BY <1>0, <2>1, CutFacts
    <3> QED
      BY <1>0, <1>1, <1>2, <1>3, <2>3, <3>1, <3>2, <3>3, <3>4, <3>5, MessagesStarts
  <2> QED
    BY <1>0, <2>10, <2>11 DEF Messages
<1> QED
  BY <1>4, <1>5

(* The answers to a dial.                                                  *)
LEMMA MessagesAnswers ==
  ASSUME Types, Types', Numbers, Writing, Calls, Families, Messages, Moves,
         NEW s \in Side, NEW j \in Id,
         \/ \E C \in SUBSET Call : Connects(s, j, C)
         \/ \E d \in {0, 1} : Replies(s, j, d)
  PROVE  Messages'
<1> DEFINE p == Peer(s)
<1>0. /\ p \in Side /\ p # s /\ Peer(p) = s /\ Peer(s) = p
      /\ \A r \in Side : r = s \/ r = p
  BY SideFacts
<1> HIDE DEF p
<1>1. /\ loop'[p] = loop[p] /\ busy'[p] = busy[p]
      /\ wire'[s] = wire[s] /\ Cut(s, 0)
  <2>1. loop'[p] = loop[p] /\ busy'[p] = busy[p] /\ wire'[s] = wire[s]
    BY <1>0 DEF Connects, Replies, Starts, PeerStays, Takes
  <2> QED
    BY <2>1, CutFacts
<1>2. \A k \in Id : Accepting(p, k)' => Accepting(p, k)
  BY <1>1 DEF Accepting
<1>3. ASSUME NEW C \in SUBSET Call, Connects(s, j, C)
      PROVE  Messages'
  <2>1. /\ Cut(p, 1) /\ wire[p][1].t = "dialAck" /\ wire[p][1].id = j
        /\ loop[s] = "select" /\ loop'[s] \in {"select", "panic"} /\ busy' = busy
        /\ C = DialingAs(s, j)
    BY <1>0, <1>3 DEF Connects, Takes
  <2>2. 1 \in 1 .. Len(wire[p]) /\ \A t, i : Wired(p, t, i)' => Wired(p, t, i)
    BY <1>0, <2>1, CutWired
  <2>3. j \in Children(p)
    <3>1. Sent(p, "dialAck", j)
      BY <2>1, <2>2 DEF Sent, Wired
    <3> QED
      BY <1>0, <3>1, MessageFactsOf
  <2>4. Children(s)' = Children(s) \union {j} /\ Children(p)' = Children(p)
    BY <1>0, <1>3 DEF Connects, Children, Queued
  <2>5. \A r \in Side, i \in Id : Sent(r, "errChild", i)' => Sent(r, "errChild", i)
    BY <1>0, <1>1, <2>1, <2>2 DEF Sent, Wired
  <2>6. \A c \in C : c \in dialing[s] /\ dial[c].id = j
    BY <2>1 DEF DialingAs
  <2>7. ASSUME NEW r \in Side, NEW c \in dialing'[r]
        PROVE  c \in dialing[r] /\ dial'[c].st = dial[c].st
    <3>1. c \in dialing[r] /\ (r = s => c \notin C)
      BY <1>0, <1>3, <2>7 DEF Connects
    <3>2. c \in Call /\ Caller(c) = r
      BY <3>1 DEF Types, Calls
    <3>3. c \notin C
      BY <1>0, <2>6, <3>1, <3>2 DEF Calls
    <3> QED
      BY <1>3, <3>1, <3>2, <3>3 DEF Connects
  <2>8. ASSUME NEW r \in Side, NEW i \in Id, Unanswered(r, i)
        PROVE  /\ i \notin Children(r)' \union Children(Peer(r))'
               /\ \A c \in Call : dial[c].id = i /\ dial[c].st \in {"wait", "err"} =>
                    dial'[c].st # "ok"
    <3>1. i # j
      BY <1>0, <2>3, <2>8 DEF Unanswered
    <3>2. i \notin Children(r)' \union Children(Peer(r))'
      BY <1>0, <2>4, <2>8, <3>1 DEF Unanswered
    <3>3. ASSUME NEW c \in Call, dial[c].id = i, dial[c].st \in {"wait", "err"}
          PROVE  dial'[c].st # "ok"
      BY <1>3, <2>6, <3>1, <3>3 DEF Connects
    <3> QED
      BY <3>2, <3>3
  <2>9. \A c \in Call : dial[c].st \in {"wait", "err"} /\ dial'[c].st # "ok" =>
          dial'[c].id = dial[c].id /\ dial'[c].st \in {"wait", "err"}
    BY <1>3 DEF Connects
  <2>10. \A k \in Id : Accepting(s, k)' => Accepting(s, k)
    BY <2>1 DEF Accepting
  <2>11. \A c \in dialing'[p] : dial[c].id \notin Children(p)
    BY <1>0, <2>7, MessageFactsOf
  <2>12. ASSUME NEW r \in Side, NEW d, Cut(r, d)
         PROVE  MessagesOf(r)'
    <3>1. \A i \in Id : Accepting(Peer(r), i)' => Accepting(Peer(r), i)
      BY <1>0, <1>2, <2>10
    <3>2. Children(r) \subseteq Children(r)'
      BY <1>0, <2>4
    <3>3. loop'[r] # "write" \/ (loop[r] = "write" /\ busy'[r] = busy[r])
      BY <1>0, <1>1, <2>1
    <3>4. \A c \in dialing'[r] : Refused(r, dial[c].id) => dial[c].id \notin Children(Peer(r))'
      <4>1. CASE r = s
        BY <1>0, <2>4, <4>1 DEF Refused
      <4>2. CASE r = p
        BY <1>0, <2>3, <2>4, <2>11, <4>2 DEF Refused
      <4> QED
        BY <1>0, <4>1, <4>2
    <3>5. \A i \in Id : Sent(Peer(r), "errChild", i)' => Sent(Peer(r), "errChild", i)
      BY <1>0, <2>5
    <3> QED
      BY <2>7, <2>8, <2>9, <2>12, <3>1, <3>2, <3>3, <3>4, <3>5, MessagesStarts
  <2> QED
    BY <1>0, <1>1, <2>1, <2>12 DEF Messages
<1>4. ASSUME NEW d \in {0, 1}, Replies(s, j, d)
      PROVE  Messages'
  <2>1. /\ Cut(p, d) /\ loop'[s] = "write" /\ busy'[s].m.t = "errChild" /\ busy'[s].m.id = j
        /\ dial' = dial /\ dialing' = dialing
        /\ \A r \in Side : Children(r)' = Children(r)
    BY <1>0, <1>4 DEF Replies, Starts, Takes, Children, Queued
  <2>2. \A t, i : (Wired(p, t, i)' => Wired(p, t, i)) /\ (Wired(s, t, i)' => Wired(s, t, i))
    BY <1>0, <1>1, <2>1, CutWired
  <2>3. /\ Issued(j)
        /\ (\E c \in dialing[p] : dial[c].id = j) =>
             j \notin Children(s) /\ ~Wired(p, "dial", j)'
    <3>1. CASE loop[s] = "accept" /\ d = 0 /\ busy[s].m.id = j
      <4>1. Accepting(s, j)
        BY <3>1 DEF Accepting
      <4>2. Unanswered(p, j) /\ ~Wired(p, "dial", j)
        BY <1>0, <4>1, MessageFactsOf
      <4> QED
        BY <1>0, <2>2, <4>2 DEF Unanswered
    <3>2. CASE loop[s] = "select" /\ d = 1 /\ wire[p][1].id = j
      <4>1. 1 \in 1 .. Len(wire[p])
        BY <1>0, <2>1, <3>2, CutWired
      <4>2. Issued(j) /\ Wired(p, wire[p][1].t, j) /\ Sent(p, wire[p][1].t, j)
        BY <1>0, <3>2, <4>1, MessageFactsOf
      <4>3. wire[p][1].t \in {"dial", "dialAck", "close", "payload"}
        <5>1. wire[p][1] \in Message
          <6>1. wire[p] \in Seq(Message)
            BY <1>0 DEF Types
          <6> QED
            BY <4>1, <6>1
        <5>2. wire[p][1].t \notin {"none", "errChild"}
          BY <1>0, <1>4, <3>2 DEF Replies, Takes
        <5> QED
          BY <5>1, <5>2 DEF Message
      <4>4. CASE wire[p][1].t = "dial"
        <5>1. Unanswered(p, j)
          BY <1>0, <4>2, <4>4, MessageFactsOf
        <5>2. MessagesOf(p)
          BY <1>0 DEF Messages
        <5>3. ~Wired(p, "dial", j)'
          BY <1>0, <2>1, <3>2, <4>4, <5>2, CutWired
        <5> QED
          BY <1>0, <4>2, <5>1, <5>3 DEF Unanswered
      <4>5. CASE wire[p][1].t \in {"dialAck", "close", "payload"}
        <5>1. j \in Children(p)
          BY <1>0, <4>2, <4>5, MessageFactsOf
        <5> QED
          BY <1>0, <4>2, <5>1, MessageFactsOf
      <4> QED
        BY <4>3, <4>4, <4>5
    <3> QED
      BY <1>0, <1>4, <3>1, <3>2 DEF Replies
  <2>4. ASSUME NEW r \in Side, NEW e, Cut(r, e)
        PROVE  MessagesOf(r)'
    <3>1. \A i \in Id : Accepting(Peer(r), i)' => Accepting(Peer(r), i)
      BY <1>0, <1>2, <2>1 DEF Accepting
    <3>2. \A i \in Id : Unanswered(r, i) => i \notin Children(r)' \union Children(Peer(r))'
      BY <1>0, <2>1 DEF Unanswered
    <3>3. \/ loop'[r] # "write"
          \/ loop[r] = "write" /\ busy'[r] = busy[r]
          \/ \E i \in Id : /\ Issued(i) /\ busy'[r].m.id = i
                           /\ busy'[r].m.t \notin {"dialAck", "payload", "close"}
      <4>1. CASE r = p
        BY <1>1, <4>1
      <4>2. CASE r = s
        BY <2>1, <2>3, <4>2
      <4> QED
        BY <1>0, <4>1, <4>2
    <3>4. \A c \in dialing'[r] : Refused(r, dial[c].id) => dial[c].id \notin Children(Peer(r))'
      BY <1>0, <2>1 DEF Refused
    <3>5. ASSUME NEW i \in Id, \E c \in dialing'[r] : dial[c].id = i,
                 Sent(Peer(r), "errChild", i)'
          PROVE  Sent(Peer(r), "errChild", i) \/ Refused(r, i)'
      <4>1. CASE r = s
        BY <1>0, <1>1, <2>2, <3>5, <4>1 DEF Sent
      <4>2. CASE r = p /\ i # j
        BY <1>0, <2>1, <2>2, <3>5, <4>2 DEF Sent
      <4>3. CASE r = p /\ i = j
        <5>1. i \notin Children(s)' /\ ~Wired(p, "dial", i)'
          BY <1>0, <2>1, <2>3, <3>5, <4>3
        <5>2. ~Accepting(s, i)'
          BY <2>1 DEF Accepting
        <5> QED
          BY <1>0, <4>3, <5>1, <5>2 DEF Refused
      <4> QED
        BY <1>0, <4>1, <4>2, <4>3
    <3> QED
      BY <2>1, <2>4, <3>1, <3>2, <3>3, <3>4, <3>5, MessagesStarts
  <2> QED
    BY <1>0, <1>1, <2>1, <2>4 DEF Messages
<1> QED
  BY <1>3, <1>4

(* A queue that s has written to.                                          *)
LEMMA WrittenQueue ==
  ASSUME Types, NEW s \in Side, Writes(s)
  PROVE  /\ Len(wire[s]) \in Nat /\ Len(wire'[s]) = Len(wire[s]) + 1
         /\ \A k \in 1 .. Len(wire[s]) : wire'[s][k] = wire[s][k]
         /\ wire'[s][Len(wire[s]) + 1] = busy[s].m
         /\ busy[s].m.id \in Id
         /\ \A t, i : Wired(s, t, i)' <=> (Wired(s, t, i) \/ (busy[s].m.t = t /\ busy[s].m.id = i))
         /\ \A t, i : Sent(s, t, i)' <=> Sent(s, t, i)
         /\ \A t, i : Sent(Peer(s), t, i)' <=> Sent(Peer(s), t, i)
<1>1. wire[s] \in Seq(Message) /\ busy[s] \in Busy
  BY DEF Types
<1>2. busy[s].m \in Message /\ busy[s].m.id \in Id
  BY <1>1 DEF Busy, Message
<1>3. wire'[s] = Append(wire[s], busy[s].m)
  BY DEF Writes
<1>4. /\ Len(wire[s]) \in Nat /\ Len(wire'[s]) = Len(wire[s]) + 1
      /\ \A k \in 1 .. Len(wire[s]) : wire'[s][k] = wire[s][k]
      /\ wire'[s][Len(wire[s]) + 1] = busy[s].m
  BY <1>1, <1>2, <1>3, AppendFacts
<1>5. 1 .. Len(wire'[s]) = (1 .. Len(wire[s])) \union {Len(wire[s]) + 1}
  BY <1>4
<1>6. \A t, i : Wired(s, t, i)' <=> (Wired(s, t, i) \/ (busy[s].m.t = t /\ busy[s].m.id = i))
  BY <1>4, <1>5 DEF Wired
<1>7. \A t, i : Sent(s, t, i)' <=> Sent(s, t, i)
  <2>1. loop[s] = "write" /\ loop'[s] # "write"
    BY DEF Writes
  <2> QED
    BY <1>6, <2>1 DEF Sent
<1>8. \A t, i : Sent(Peer(s), t, i)' <=> Sent(Peer(s), t, i)
  <2>1. /\ loop'[Peer(s)] = loop[Peer(s)] /\ busy'[Peer(s)] = busy[Peer(s)]
        /\ wire'[Peer(s)] = wire[Peer(s)]
    BY DEF Writes
  <2> QED
    BY <2>1 DEF Sent, Wired
<1> QED
  BY <1>2, <1>4, <1>6, <1>7, <1>8

(* A dial that is written is not issued before, and is afterwards.         *)
LEMMA WrittenDial ==
  ASSUME Types, Numbers, Writing, Calls, Families, Messages,
         NEW s \in Side, Writes(s), busy[s].then = "dial"
  PROVE  /\ busy[s].m.id = nextID[s] /\ nextID[s] \in Id
         /\ ~Issued(nextID[s]) /\ Mine(s, nextID[s])
         /\ \A i \in Id : i = nextID[s] => Issued(i)' /\ ~Issued(i) /\ Mine(s, i)'
         /\ \A r \in Side : nextID[s] \notin Children(r)
         /\ \A r \in Side : ~Unanswered(r, nextID[s])
         /\ \A r \in Side : \A t, i : Sent(r, t, i) /\ t # "dial" => i # nextID[s]
         /\ busy[s].call \in Call \ dialing[s] /\ Caller(busy[s].call) = s
         /\ dial[busy[s].call].st = "wait" /\ dial[busy[s].call].id = nextID[s]
         /\ \A c \in dialing[s] : dial[c].id # nextID[s]
<1>1. /\ busy[s].m.id = nextID[s]
      /\ busy[s].call \in Call \ dialing[s] /\ Caller(busy[s].call) = s
      /\ dial[busy[s].call].st = "wait" /\ dial[busy[s].call].id = nextID[s]
  BY DEF Writing, WritingOf
<1>2. nextID[s] \in Id /\ nextID[s] \in Nat
  BY <1>1, WrittenQueue DEF Types
<1>3. ~Issued(nextID[s]) /\ Mine(s, nextID[s])
  BY <1>2, Parities DEF Mine
<1>4. \A i \in Id : i = nextID[s] => Issued(i)' /\ ~Issued(i) /\ Mine(s, i)'
  <2>1. nextID'[s] = nextID[s] + 2 /\ nextID[s] % 2 = nextID'[s] % 2 /\ nextID[s] < nextID'[s]
    <3>1. nextID'[s] = nextID[s] + 2
      BY DEF Writes
    <3> QED
      BY <1>2, <3>1
  <2>2. \A i \in Id : i = nextID[s] => Mine(s, i)' /\ i < nextID'[s]
    BY <2>1 DEF Mine
  <2> QED
    BY <1>3, <2>2 DEF Issued
<1>5. \A r \in Side : nextID[s] \notin Children(r)
  BY <1>3 DEF Families, FamiliesOf
<1>6. \A r \in Side : ~Unanswered(r, nextID[s])
  BY <1>3 DEF Unanswered
<1>7. ASSUME NEW r \in Side, NEW t, NEW i, Sent(r, t, i), t # "dial"
      PROVE  i # nextID[s]
  <2>1. ASSUME Wired(r, t, i)
        PROVE  Issued(i)
    BY <2>1, MessageFactsOf DEF Wired
  <2>2. ASSUME loop[r] = "write" /\ busy[r].m.t = t /\ busy[r].m.id = i
        PROVE  Issued(i)
    <3>1. busy[r].then # "dial"
      BY <1>7, <2>2 DEF Writing, WritingOf
    <3>2. Issued(busy[r].m.id)
      BY <2>2, <3>1 DEF Messages, MessagesOf
    <3> QED
      BY <2>2, <3>2
  <2> QED
    BY <1>3, <1>7, <2>1, <2>2 DEF Sent
<1>8. ASSUME NEW c \in dialing[s], dial[c].id = nextID[s]
      PROVE  FALSE
  <2>1. c \in Call /\ Caller(c) = s /\ Numbered(c)
    BY DEF Types, Calls, Numbered
  <2>2. Numbered(busy[s].call)
    BY <1>1 DEF Numbered
  <2>3. c = busy[s].call
    BY <1>1, <1>8, <2>1, <2>2 DEF Calls
  <2> QED
    BY <1>1, <2>3
<1> QED
  BY <1>1, <1>2, <1>3, <1>4, <1>5, <1>6, <1>7, <1>8

(* A write that is complete.                                               *)
LEMMA MessagesWritten ==
  ASSUME Types, Types', Numbers, Writing, Calls, Families, Messages, Moves,
         NEW s \in Side, Writes(s)
  PROVE  Messages'
<1> DEFINE p == Peer(s)
<1>0. /\ p \in Side /\ p # s /\ Peer(p) = s /\ Peer(s) = p
      /\ \A r \in Side : r = s \/ r = p
  BY SideFacts
<1> HIDE DEF p
<1>1. /\ loop'[p] = loop[p] /\ busy'[p] = busy[p] /\ loop'[s] \in {"cleanup", "select"}
      /\ dial' = dial /\ dialing'[p] = dialing[p]
      /\ \A r \in Side : Children(r)' = Children(r)
      /\ wire'[p] = wire[p] /\ Cut(p, 0)
  <2>1. wire'[p] = wire[p]
    BY <1>0 DEF Writes
  <2>2. Cut(p, 0)
    BY <1>0, <2>1, CutFacts
  <2> QED
    BY <1>0, <2>1, <2>2 DEF Writes, Children, Queued
<1>2. /\ \A k \in Id : Accepting(s, k)' => FALSE
      /\ \A k \in Id : Accepting(p, k)' <=> Accepting(p, k)
  BY <1>1 DEF Accepting
<1>3. /\ Len(wire[s]) \in Nat /\ Len(wire'[s]) = Len(wire[s]) + 1
      /\ \A k \in 1 .. Len(wire[s]) : wire'[s][k] = wire[s][k]
      /\ wire'[s][Len(wire[s]) + 1] = busy[s].m
      /\ busy[s].m.id \in Id
      /\ \A t, i : Wired(s, t, i)' <=> (Wired(s, t, i) \/ (busy[s].m.t = t /\ busy[s].m.id = i))
      /\ \A t, i : Sent(s, t, i)' <=> Sent(s, t, i)
      /\ \A t, i : Sent(p, t, i)' <=> Sent(p, t, i)
  BY <1>0, WrittenQueue
<1>4. \A i \in Id : (Mine(s, i)' <=> Mine(s, i)) /\ (Issued(i) => Issued(i)')
  BY IssuedStep
<1>5. ASSUME NEW r \in Side, NEW i \in Id, Unanswered(r, i)
      PROVE  Unanswered(r, i)' /\ i \notin Children(r)' \union Children(Peer(r))'
  <2>1. i \notin Children(r)' /\ i \notin Children(Peer(r))'
    BY <1>0, <1>1, <1>5 DEF Unanswered
  <2>2. (Mine(r, i)' <=> Mine(r, i)) /\ (Issued(i) => Issued(i)')
    BY IssuedStep
  <2> QED
    BY <1>1, <1>5, <2>1, <2>2, UnansweredFrame
<1>6. busy[s].m.t = "dial" <=> busy[s].then = "dial"
  BY DEF Writes, Writing, WritingOf
<1>7. MessagesOf(p)'
  <2>1. \A c \in dialing'[p] : Refused(p, dial[c].id) => dial[c].id \notin Children(s)'
    BY <1>0, <1>1 DEF Refused
  <2>2. loop'[p] # "write" \/ (loop[p] = "write" /\ busy'[p] = busy[p])
    BY <1>1
  <2>3. /\ \A c \in Call : dial[c].st \in {"wait", "err"} /\ dial'[c].st # "ok" =>
             dial'[c].id = dial[c].id /\ dial'[c].st \in {"wait", "err"}
        /\ \A c \in Call : dial[c].st \in {"wait", "err"} => dial'[c].st # "ok"
    BY <1>1
  <2> QED
    BY <1>0, <1>1, <1>2, <1>3, <1>5, <2>1, <2>2, <2>3, MessagesStarts
<1>8. MessagesOf(s)'
  <2>1. ASSUME NEW k \in 1 .. Len(wire'[s])
        PROVE  \/ k \in 1 .. Len(wire[s]) /\ wire'[s][k] = wire[s][k]
               \/ k = Len(wire[s]) + 1 /\ wire'[s][k] = busy[s].m
    BY <1>3
  <2>2. \A i \in Id : i = busy[s].m.id => Issued(i)'
    <3>1. CASE busy[s].then = "dial"
      BY <3>1, WrittenDial
    <3>2. CASE busy[s].then # "dial"
      <4>1. Issued(busy[s].m.id)
        BY <3>2 DEF Writes, Messages, MessagesOf
      <4>2. \A i \in Id : i = busy[s].m.id => Issued(i)
        BY <4>1
      <4> QED
        BY <1>4, <4>2
    <3> QED
      BY <3>1, <3>2
  <2>3. \A k \in 1 .. Len(wire'[s]) : Issued(wire[s][k].id)'
    <3>1. \A k \in 1 .. Len(wire[s]) : wire[s][k].id \in Id /\ Issued(wire[s][k].id)
      BY MessageFactsOf
    <3>2. \A k \in 1 .. Len(wire'[s]) : \A i \in Id : i = wire'[s][k].id => Issued(i)'
      <4>1. ASSUME NEW k \in 1 .. Len(wire'[s]), NEW i \in Id, i = wire'[s][k].id
            PROVE  Issued(i)'
        <5>1. CASE k \in 1 .. Len(wire[s]) /\ wire'[s][k] = wire[s][k]
          <6>1. Issued(i)
            BY <3>1, <4>1, <5>1
          <6> QED
            BY <1>4, <6>1
        <5>2. CASE wire'[s][k] = busy[s].m
          BY <2>2, <4>1, <5>2
        <5> QED
          BY <2>1, <5>1, <5>2
      <4> QED
        BY <4>1
    <3>3. \A k \in 1 .. Len(wire'[s]) : wire'[s][k].id \in Id
      BY <1>3, <2>1, <3>1
    <3> QED
      BY <3>2, <3>3 DEF Issued, Mine
  <2>4. ASSUME NEW i \in Id, Wired(s, "dial", i)'
        PROVE  Unanswered(s, i)' /\ ~Accepting(p, i)'
    <3>1. CASE Wired(s, "dial", i)
      BY <1>0, <1>2, <1>5, <3>1, MessageFactsOf
    <3>2. CASE busy[s].m.t = "dial" /\ busy[s].m.id = i
      <4>1. busy[s].then = "dial" /\ i = nextID[s]
        BY <1>6, <3>2, WrittenDial
      <4>2. ~Accepting(p, i)
        BY <1>0, <4>1, WrittenDial, MessageFactsOf
      <4>3. i \notin Children(s)' /\ i \notin Children(Peer(s))'
        BY <1>0, <1>1, <4>1, WrittenDial
      <4>4. Mine(s, i)' /\ Issued(i)'
        BY <4>1, WrittenDial
      <4>5. \E c \in Call : Caller(c) = s /\ dial'[c].id = i /\ dial'[c].st \in {"wait", "err"}
        BY <1>1, <4>1, WrittenDial
      <4> QED
        BY <1>2, <4>2, <4>3, <4>4, <4>5 DEF Unanswered
    <3> QED
      BY <1>3, <2>4, <3>1, <3>2
  <2>5. \A i \in Id : Accepting(p, i)' => Unanswered(s, i)'
    BY <1>0, <1>2, <1>5, MessageFactsOf
  <2>6. ASSUME NEW j \in 1 .. Len(wire'[s]), NEW k \in 1 .. Len(wire'[s]),
               wire'[s][j].t = "dial", wire'[s][k].t = "dial", wire'[s][j].id = wire'[s][k].id
        PROVE  j = k
    <3>1. ASSUME NEW l \in 1 .. Len(wire[s]), wire[s][l].t = "dial", busy[s].m.t = "dial"
          PROVE  wire[s][l].id # busy[s].m.id
      <4>1. Issued(wire[s][l].id)
        BY MessageFactsOf
      <4>2. ~Issued(busy[s].m.id)
        BY <1>6, <3>1, WrittenDial
      <4> QED
        BY <4>1, <4>2
    <3>2. \A l, o \in 1 .. Len(wire[s]) :
            wire[s][l].t = "dial" /\ wire[s][o].t = "dial" /\ wire[s][l].id = wire[s][o].id => l = o
      BY DEF Messages, MessagesOf
    <3> QED
      BY <2>1, <2>6, <3>1, <3>2
  <2>7. \A i \in Id : \A t \in {"dialAck", "payload", "close"} : Sent(s, t, i)' => i \in Children(s)'
    BY <1>1, <1>3, MessageFactsOf
  <2>8. ASSUME NEW c \in dialing'[s], dial'[c].st = "err" \/ Sent(p, "errChild", dial[c].id)'
        PROVE  Refused(s, dial[c].id)'
    <3>1. dial'[c] = dial[c] /\ (dial[c].st = "err" \/ Sent(p, "errChild", dial[c].id))
      BY <1>1, <1>3, <2>8
    <3>2. c \in dialing[s]
      <4>1. ASSUME busy[s].then = "dial", c = busy[s].call
            PROVE  FALSE
        BY <1>0, <3>1, <4>1, WrittenDial
      <4> QED
        BY <4>1 DEF Writes
    <3>3. dial[c].id \in Id /\ Refused(s, dial[c].id)
      BY <1>0, <3>1, <3>2, MessageFactsOf DEF Messages, MessagesOf
    <3>4. ~Wired(s, "dial", dial[c].id)'
      <4>1. busy[s].m.t = "dial" => busy[s].m.id # dial[c].id
        BY <1>6, <3>2, WrittenDial
      <4>2. \A i \in Id : i = dial[c].id => ~Wired(s, "dial", i)'
        BY <1>3, <3>3, <4>1 DEF Refused
      <4> QED
        BY <3>1, <3>3, <4>2 DEF Wired
    <3>5. dial[c].id \notin Children(p)' /\ ~Accepting(p, dial[c].id)
      BY <1>0, <1>1, <3>3 DEF Refused
    <3>6. dial'[c].id = dial[c].id /\ ~Accepting(p, dial[c].id)'
      BY <1>1, <3>1, <3>5 DEF Accepting
    <3> QED
      BY <1>0, <1>1, <3>4, <3>5, <3>6 DEF Refused, Accepting
  <2> QED
    BY <1>0, <1>1, <2>3, <2>4, <2>5, <2>6, <2>7, <2>8 DEF MessagesOf
<1> QED
  BY <1>0, <1>7, <1>8 DEF Messages

(* Every step keeps what is known of the messages.                         *)
LEMMA MessagesStep ==
  ASSUME Types, Types', Numbers, Writing, Calls, Families, Messages, Moves
  PROVE  Messages'
<1>1. ASSUME NEW s \in Side, Writes(s)
      PROVE  Messages'
  BY <1>1, MessagesWritten
<1>2. ASSUME NEW s \in Side,
             \/ Fails(s)
             \/ \E c \in Call : Dials(s, c)
             \/ \E i \in Id : Offers(s, i) \/ \E d \in {0, 1} : Unroutes(s, i, d)
      PROVE  Messages'
  BY <1>2, MessagesWriting
<1>3. ASSUME NEW s \in Side, NEW j \in Id, Considers(s, j) \/ Queues(s, j)
      PROVE  Messages'
  BY <1>3, MessagesAccepting
<1>4. ASSUME NEW s \in Side, NEW j \in Id,
             \/ \E C \in SUBSET Call : Connects(s, j, C)
             \/ \E d \in {0, 1} : Replies(s, j, d)
      PROVE  Messages'
  BY <1>4, MessagesAnswers
<1>5. ASSUME \/ DialMoves \/ AcceptMoves \/ WriterMoves \/ ClosedMoves \/ LoopMoves
             \/ \E s \in Side :
                  \/ FailsDials(s) \/ Ends(s)
                  \/ \E i \in Id :
                       \/ Reads(s, i) \/ Delivers(s, i)
                       \/ \E C \in SUBSET Call : Refuses(s, i, C)
      PROVE  Messages'
  BY <1>5, MessagesAtRest
<1> QED
  BY <1>1, <1>2, <1>3, <1>4, <1>5 DEF Moves
-----------------------------------------------------------------------------
(* The payloads.                                                           *)

(* Nothing was written or received under an identifier without children.   *)
LEMMA OrderEmpty ==
  ASSUME Types, Families, Messages, NEW r \in Side, NEW i \in Id,
         i \notin Children(r), i \notin Children(Peer(r))
  PROVE  Following(r, i) /\ PayloadsFor(Peer(r), i) = {}
<1>1. Peer(r) \in Side
  BY SideFacts
<1>2. PayloadsFor(Peer(r), i) = {}
  <2>1. ASSUME NEW k \in PayloadsFor(Peer(r), i)
        PROVE  FALSE
    <3>1. Sent(Peer(r), "payload", i)
      BY DEF PayloadsFor, Sent, Wired
    <3> QED
      BY <1>1, <3>1 DEF Messages, MessagesOf
  <2> QED
    BY <2>1
<1>3. rcvd[r][i] = <<>> /\ readB[r][i] = <<>>
  BY DEF Families, FamiliesOf
<1>4. writer[Peer(r)][i].n = 0
  <2>1. ~(writer[Peer(r)][i].n > 0)
    <3>1. writer[Peer(r)][i].n > 0 => i \in held[Peer(r)]
      BY <1>1 DEF Families, FamiliesOf
    <3> QED
      BY <3>1 DEF Children
  <2>2. writer[Peer(r)][i].n \in Nat
    BY <1>1, GotType
  <2> QED
    BY <2>1, <2>2
<1>5. Got(r, i) = 0
  BY <1>3 DEF Got
<1> QED
  BY <1>2, <1>4, <1>5 DEF Following

(* The answer to i stays among the messages of q.                          *)
LEMMA AnswerKept ==
  ASSUME Types, NEW q \in Side, NEW i \in Id, NEW d, Cut(q, d), Sent(q, "dialAck", i),
         (loop'[q] = loop[q] /\ busy'[q] = busy[q]) \/ loop[q] # "write",
         \A k \in 1 .. d : ~(wire[q][k].t = "dialAck" /\ wire[q][k].id = i)
  PROVE  Sent(q, "dialAck", i)'
<1>1. CASE Wired(q, "dialAck", i)
  <2>1. PICK k \in 1 .. Len(wire[q]) : wire[q][k].t = "dialAck" /\ wire[q][k].id = i
    BY <1>1 DEF Wired
  <2>2. /\ Len(wire[q]) \in Nat /\ d \in Nat /\ Len(wire'[q]) = Len(wire[q]) - d
        /\ \A l \in 1 .. Len(wire'[q]) : wire'[q][l] = wire[q][l + d]
    BY CutFacts DEF Cut
  <2>3. k > d
    BY <2>1, <2>2
  <2>4. k - d \in 1 .. Len(wire'[q]) /\ (k - d) + d = k
    BY <2>2, <2>3
  <2>5. wire'[q][k - d] = wire[q][k]
    BY <2>2, <2>4
  <2> QED
    BY <2>1, <2>4, <2>5 DEF Sent, Wired
<1>2. CASE ~Wired(q, "dialAck", i)
  BY <1>2 DEF Sent
<1> QED
  BY <1>1, <1>2

(* Payloads and answers stay behind what is taken from the peer of r.      *)
LEMMA OrderTaken ==
  ASSUME Types, Families, NEW r \in Side, NEW i \in Id, OrderOf(r, i), NEW d, Cut(Peer(r), d),
         rcvd'[r][i] = rcvd[r][i], readB'[r][i] = readB[r][i],
         writer'[Peer(r)][i].n = writer[Peer(r)][i].n,
         loop[r] = "panic" => loop'[r] = "panic",
         dialing'[r] \subseteq dialing[r],
         \A c \in dialing[r] : dial'[c].id = dial[c].id,
         i \in conns'[r] => i \in conns[r] \/ Awaited(r, i),
         i \in conns'[r] \/ Awaited(r, i)' =>
           \A k \in 1 .. d : ~(wire[Peer(r)][k].t = "payload" /\ wire[Peer(r)][k].id = i),
         Awaited(r, i)' =>
           /\ \A k \in 1 .. d : ~(wire[Peer(r)][k].t = "dialAck" /\ wire[Peer(r)][k].id = i)
           /\ i \in Children(Peer(r))' => i \in Children(Peer(r)) \/ Sent(Peer(r), "dialAck", i)'
           /\ \/ loop'[Peer(r)] = loop[Peer(r)] /\ busy'[Peer(r)] = busy[Peer(r)]
              \/ loop[Peer(r)] # "write"
  PROVE  OrderOf(r, i)'
<1>1. Peer(r) \in Side
  BY SideFacts
<1>2. Awaited(r, i)' => Awaited(r, i)
  BY DEF Awaited
<1>3. i \in conns'[r] \/ Awaited(r, i)' =>
        /\ Cut(Peer(r), d)
        /\ \A k \in PayloadsFor(Peer(r), i) : k > d
  <2>1. d \in Nat /\ Len(wire[Peer(r)]) \in Nat
    BY <1>1, CutFacts DEF Cut
  <2> QED
    BY <2>1 DEF PayloadsFor
<1>4. Awaited(r, i)' =>
        /\ \A k \in 1 .. d : ~(wire[Peer(r)][k].t = "dialAck" /\ wire[Peer(r)][k].id = i)
        /\ i \in Children(Peer(r))' => Sent(Peer(r), "dialAck", i)'
  <2>1. ASSUME Awaited(r, i)', i \in Children(Peer(r))
        PROVE  Sent(Peer(r), "dialAck", i)'
    <3>1. Sent(Peer(r), "dialAck", i)
      BY <1>2, <2>1 DEF OrderOf, Announced
    <3> QED
      BY <1>1, <2>1, <3>1, AnswerKept
  <2> QED
    BY <2>1
<1> QED
  BY <1>2, <1>3, <1>4, OrderFrame

(* Steps that touch no queue keep the order.                               *)
LEMMA OrderAtRest ==
  ASSUME Types, Types', Numbers, Writing, Calls, Families, Messages, Order, Moves,
         \/ DialMoves \/ AcceptMoves \/ WriterMoves \/ ClosedMoves \/ LoopMoves
         \/ \E s \in Side :
              \/ Fails(s) \/ FailsDials(s)
              \/ \E c \in Call : Dials(s, c)
              \/ \E i \in Id : Offers(s, i)
  PROVE  Order'
<1>1. /\ wire' = wire /\ conns' = conns /\ rcvd' = rcvd /\ readB' = readB
      /\ \A r \in Side, i \in Id : writer'[r][i].n = writer[r][i].n
  <2>1. /\ wire' = wire /\ conns' = conns /\ rcvd' = rcvd /\ readB' = readB
    BY DEF DialMoves, AcceptMoves, WriterMoves, ClosedMoves, LoopMoves, Fails, FailsDials, Dials,
           Offers
  <2>2. \A r \in Side, i \in Id : writer'[r][i].n = writer[r][i].n
    BY DEF DialMoves, AcceptMoves, WriterMoves, ClosedMoves, LoopMoves, Fails, FailsDials, Dials,
           Offers
  <2> QED
    BY <2>1, <2>2
<1>2. /\ \A r \in Side : Children(r)' = Children(r)
      /\ \A r \in Side : dialing'[r] \subseteq dialing[r]
  <2>1. \A r \in Side : Children(r)' = Children(r)
    BY DEF DialMoves, AcceptMoves, WriterMoves, ClosedMoves, LoopMoves, Fails, FailsDials, Dials,
           Offers, Children, Queued
  <2>2. \A r \in Side : dialing'[r] \subseteq dialing[r]
    BY SideFacts DEF DialMoves, AcceptMoves, WriterMoves, ClosedMoves, LoopMoves, Fails, FailsDials,
           Dials, Offers
  <2> QED
    BY <2>1, <2>2
<1>3. \A r \in Side : \A c \in dialing[r] : dial'[c].id = dial[c].id
  <2>1. \A r \in Side : \A c \in dialing[r] : c \in Call /\ dial[c].st \in {"wait", "err"}
    BY DEF Types, Calls
  <2>2. \A c \in Call : dial[c].st \in {"wait", "err"} => dial'[c].id = dial[c].id
    BY DEF DialMoves, AcceptMoves, WriterMoves, ClosedMoves, LoopMoves, Fails, FailsDials,
           Dials, Offers
  <2> QED
    BY <2>1, <2>2
<1>4. \A r \in Side : loop[r] = "panic" => loop'[r] = "panic"
  BY SideFacts DEF DialMoves, AcceptMoves, WriterMoves, ClosedMoves, LoopMoves, Fails, FailsDials,
         Dials, Offers, Starts, PeerStays
<1>5. ASSUME NEW r \in Side, NEW i \in Id, Awaited(r, i)'
      PROVE  \/ loop'[Peer(r)] = loop[Peer(r)] /\ busy'[Peer(r)] = busy[Peer(r)]
             \/ loop[Peer(r)] # "write"
  <2>1. ASSUME Fails(Peer(r))
        PROVE  FALSE
    <3>1. loop[r] \in {"done", "panic"} /\ loop'[r] = loop[r] /\ dialing'[r] = dialing[r]
      BY <2>1, SideFacts DEF Fails
    <3>2. loop[r] = "done" => dialing[r] = {}
      BY DEF Calls
    <3> QED
      BY <1>5, <3>1, <3>2 DEF Awaited
  <2>2. ASSUME Fails(r)
        PROVE  loop'[Peer(r)] = loop[Peer(r)] /\ busy'[Peer(r)] = busy[Peer(r)]
    BY <2>2, SideFacts DEF Fails
  <2>3. ASSUME NEW s \in Side, \/ FailsDials(s)
                               \/ \E c \in Call : Dials(s, c)
                               \/ \E j \in Id : Offers(s, j)
        PROVE  \A q \in Side : \/ loop'[q] = loop[q] /\ busy'[q] = busy[q]
                               \/ loop[q] # "write"
    BY <2>3, SideFacts DEF FailsDials, Dials, Offers, Starts, PeerStays
  <2>4. ASSUME DialMoves \/ AcceptMoves \/ WriterMoves \/ ClosedMoves \/ LoopMoves
        PROVE  \A q \in Side : \/ loop'[q] = loop[q] /\ busy'[q] = busy[q]
                               \/ loop[q] # "write"
    BY <2>4 DEF DialMoves, AcceptMoves, WriterMoves, ClosedMoves, LoopMoves
  <2> QED
    BY <2>1, <2>2, <2>3, <2>4, SideFacts
<1>6. ASSUME NEW r \in Side, NEW i \in Id
      PROVE  OrderOf(r, i)'
  <2>1. Cut(Peer(r), 0) /\ Peer(r) \in Side
    BY <1>1, SideFacts, CutFacts
  <2>2. OrderOf(r, i)
    BY DEF Order
  <2> QED
    BY <1>1, <1>2, <1>3, <1>4, <1>5, <2>1, <2>2, OrderTaken
<1> QED
  BY <1>6 DEF Order

(* What s takes does not change the order of its own messages.             *)
LEMMA OrderOther ==
  ASSUME Types, Families, Order, NEW s \in Side, NEW i \in Id,
         loop[s] # "write", wire'[s] = wire[s],
         loop[Peer(s)] = "panic" => loop'[Peer(s)] = "panic",
         dialing'[Peer(s)] \subseteq dialing[Peer(s)],
         \A c \in dialing[Peer(s)] : dial'[c].id = dial[c].id,
         conns'[Peer(s)] \subseteq conns[Peer(s)],
         rcvd'[Peer(s)][i] = rcvd[Peer(s)][i], readB'[Peer(s)][i] = readB[Peer(s)][i],
         writer'[s][i].n = writer[s][i].n,
         Children(s)' \subseteq Children(s) \union Children(Peer(s))
  PROVE  OrderOf(Peer(s), i)'
<1>1. Peer(s) \in Side /\ Peer(Peer(s)) = s /\ OrderOf(Peer(s), i)
  BY SideFacts DEF Order
<1>2. Cut(s, 0)
  BY CutFacts
<1>3. Awaited(Peer(s), i)' => (i \in Children(s)' => i \in Children(s))
  <2>1. ASSUME Awaited(Peer(s), i)'
        PROVE  i \notin Children(Peer(s))
    <3>1. PICK c \in dialing[Peer(s)] : dial[c].id = i
      BY <2>1 DEF Awaited
    <3> QED
      BY <1>1, <3>1 DEF Families, FamiliesOf
  <2> QED
    BY <2>1
<1> QED
  BY <1>1, <1>2, <1>3, OrderTaken

(* The messages that s takes, when the head is no payload or answer that   *)
(* matters.                                                                *)
LEMMA OrderTakes ==
  ASSUME Types, Types', Numbers, Writing, Calls, Families, Messages, Order, Moves,
         NEW s \in Side,
         \/ Ends(s)
         \/ \E j \in Id :
              \/ Considers(s, j)
              \/ \E d \in {0, 1} : Unroutes(s, j, d) \/ Replies(s, j, d)
              \/ \E C \in SUBSET Call : Connects(s, j, C) \/ Refuses(s, j, C)
  PROVE  Order'
<1> DEFINE p == Peer(s)
<1>0. /\ p \in Side /\ p # s /\ Peer(p) = s /\ Peer(s) = p
      /\ \A r \in Side : r = s \/ r = p
  BY SideFacts
<1> HIDE DEF p
<1>1. /\ loop[s] # "write" /\ wire'[s] = wire[s]
      /\ rcvd' = rcvd /\ readB' = readB /\ writer' = writer
      /\ loop'[p] = loop[p] /\ busy'[p] = busy[p]
      /\ dialing'[p] = dialing[p] /\ dialing'[s] \subseteq dialing[s]
      /\ conns'[p] = conns[p]
  <2>1. wire'[s] = wire[s]
    BY <1>0 DEF Ends, Considers, Unroutes, Replies, Connects, Refuses, Takes
  <2>2. loop[s] # "write" /\ rcvd' = rcvd /\ readB' = readB /\ writer' = writer
    BY DEF Ends, Considers, Unroutes, Replies, Connects, Refuses
  <2>3. loop'[p] = loop[p] /\ busy'[p] = busy[p]
    BY <1>0 DEF Ends, Considers, Unroutes, Replies, Connects, Refuses, Starts, PeerStays
  <2>4. /\ dialing'[p] = dialing[p] /\ dialing'[s] \subseteq dialing[s]
        /\ conns'[p] = conns[p]
    BY <1>0 DEF Ends, Considers, Unroutes, Replies, Connects, Refuses
  <2> QED
    BY <2>1, <2>2, <2>3, <2>4
<1>2. \A r \in Side : \A c \in dialing[r] : dial'[c].id = dial[c].id
  <2>1. \A r \in Side : dialing[r] \subseteq Call
    BY DEF Types
  <2>2. \A c \in Call : dial'[c].id = dial[c].id
    BY DEF Ends, Considers, Unroutes, Replies, Connects, Refuses
  <2> QED
    BY <2>1, <2>2
<1>3. Children(s)' \subseteq Children(s) \union Children(p) /\ Children(p)' = Children(p)
  <2>1. ASSUME NEW j \in Id, NEW C \in SUBSET Call, Connects(s, j, C)
        PROVE  Children(s)' \subseteq Children(s) \union Children(p) /\ Children(p)' = Children(p)
    <3>1. Cut(p, 1) /\ wire[p][1].t = "dialAck" /\ wire[p][1].id = j
      BY <1>0, <2>1 DEF Connects, Takes
    <3>2. 1 \in 1 .. Len(wire[p])
      BY <1>0, <3>1, CutWired
    <3>3. Sent(p, "dialAck", j)
      BY <3>1, <3>2 DEF Sent, Wired
    <3>4. j \in Children(p)
      BY <1>0, <3>3, MessageFactsOf
    <3>5. Children(s)' = Children(s) \union {j} /\ Children(p)' = Children(p)
      BY <1>0, <2>1 DEF Connects, Children, Queued
    <3> QED
      BY <3>4, <3>5
  <2>2. ASSUME NEW j \in Id, NEW d \in {0, 1}, NEW C \in SUBSET Call,
               Considers(s, j) \/ Unroutes(s, j, d) \/ Replies(s, j, d) \/ Refuses(s, j, C)
        PROVE  \A r \in Side : Children(r)' = Children(r)
    BY <2>2 DEF Considers, Unroutes, Replies, Refuses, Children, Queued
  <2>3. ASSUME Ends(s)
        PROVE  \A r \in Side : Children(r)' = Children(r)
    BY <2>3 DEF Ends, Children, Queued
  <2> QED
    BY <1>0, <2>1, <2>2, <2>3
<1>4. \A i \in Id : OrderOf(p, i)'
  BY <1>0, <1>1, <1>2, <1>3, OrderOther
<1>5. ASSUME NEW i \in Id
      PROVE  OrderOf(s, i)'
  <2>1. OrderOf(s, i)
    BY DEF Order
  <2>2. ASSUME NEW d, Cut(p, d), loop[s] = "panic" => loop'[s] = "panic",
               i \in conns'[s] => i \in conns[s] \/ Awaited(s, i),
               i \in conns'[s] \/ Awaited(s, i)' =>
                 \A k \in 1 .. d : ~(wire[p][k].t = "payload" /\ wire[p][k].id = i),
               Awaited(s, i)' =>
                 \A k \in 1 .. d : ~(wire[p][k].t = "dialAck" /\ wire[p][k].id = i)
        PROVE  OrderOf(s, i)'
    BY <1>0, <1>1, <1>2, <1>3, <2>1, <2>2, OrderTaken
  <2>3. CASE Ends(s)
    <3>1. Cut(p, Len(wire[p])) 
      <4>1. Len(wire[p]) \in Nat /\ wire'[p] = <<>>
        BY <1>0, <2>3, CutFacts DEF Ends
      <4> QED
        BY <4>1 DEF Cut
    <3>2. conns'[s] = {} /\ dialing'[s] = {} /\ loop[s] # "panic"
      BY <2>3 DEF Ends, Calls
    <3>3. ~Awaited(s, i)'
      BY <3>2 DEF Awaited
    <3> QED
      BY <2>2, <3>1, <3>2, <3>3
  <2>4. ASSUME NEW j \in Id, NEW d \in {0, 1}, (Considers(s, j) /\ d = 1) \/ Unroutes(s, j, d)
        PROVE  OrderOf(s, i)'
    <3>1. /\ Cut(p, d) /\ \A k \in 1 .. d : wire[p][k].t \notin {"dialAck", "payload"}
          /\ conns'[s] \subseteq conns[s] /\ loop[s] # "panic"
      BY <1>0, <2>4 DEF Considers, Unroutes, Takes
    <3> QED
      BY <2>2, <3>1
  <2>5. ASSUME NEW j \in Id, NEW C \in SUBSET Call, Refuses(s, j, C)
        PROVE  OrderOf(s, i)'
    <3>1. /\ Cut(p, 1) /\ \A k \in 1 .. 1 : wire[p][k].t \notin {"dialAck", "payload"}
          /\ conns'[s] \subseteq conns[s] /\ loop[s] # "panic"
      BY <1>0, <2>5 DEF Refuses, Takes
    <3> QED
      BY <2>2, <3>1
  <2>6. ASSUME NEW j \in Id, NEW C \in SUBSET Call, Connects(s, j, C)
        PROVE  OrderOf(s, i)'
    <3>1. /\ Cut(p, 1) /\ \A k \in 1 .. 1 : wire[p][k].t # "payload"
          /\ conns'[s] = conns[s] \union {j} /\ loop[s] = "select"
          /\ C = DialingAs(s, j) /\ C # {} /\ dialing'[s] = dialing[s] \ C
          /\ wire[p][1].id = j
      BY <1>0, <2>6 DEF Connects, Takes
    <3>2. Awaited(s, j)
      BY <3>1 DEF Awaited, DialingAs
    <3>3. i = j => ~Awaited(s, i)'
      BY <1>2, <3>1 DEF Awaited, DialingAs
    <3>4. \A k \in 1 .. 1 : k = 1
      OBVIOUS
    <3> QED
      BY <2>2, <3>1, <3>2, <3>3, <3>4
  <2>7. ASSUME NEW j \in Id, NEW d \in {0, 1}, Replies(s, j, d)
        PROVE  OrderOf(s, i)'
    <3>1. /\ Cut(p, d) /\ conns'[s] = conns[s] /\ dialing' = dialing /\ dial' = dial
          /\ loop[s] # "panic" /\ loop'[s] # "panic"
      BY <1>0, <2>7 DEF Replies, Takes, Starts
    <3>2. CASE d = 0
      BY <2>2, <3>1, <3>2
    <3>3. CASE d = 1
      <4>1. /\ wire[p][1].id = j
            /\ wire[p][1].t = "dialAck" => DialingAs(s, j) = {}
            /\ wire[p][1].t = "payload" => j \notin conns[s]
        BY <1>0, <2>7, <3>3 DEF Replies
      <4>2. wire[p][1].t = "dialAck" => ~Awaited(s, j)'
        BY <3>1, <4>1 DEF Awaited, DialingAs
      <4>3. wire[p][1].t = "payload" => ~Awaited(s, j)'
        <5>1. ASSUME wire[p][1].t = "payload", Awaited(s, j)'
              PROVE  FALSE
          <6>1. Awaited(s, j) /\ OrderOf(s, j)
            BY <3>1, <5>1 DEF Awaited, Order
          <6>2. 1 \in PayloadsFor(p, j)
            BY <1>0, <3>1, <3>3, <4>1, <5>1, CutWired DEF PayloadsFor
          <6>3. \E l \in 1 .. 1 - 1 : wire[p][l].t = "dialAck" /\ wire[p][l].id = j
            BY <1>0, <6>1, <6>2 DEF OrderOf, Announced
          <6> QED
            BY <6>3
        <5> QED
          BY <5>1
      <4>4. \A k \in 1 .. d : k = 1
        BY <3>3
      <4> QED
        BY <2>2, <3>1, <4>1, <4>2, <4>3, <4>4
    <3> QED
      BY <3>2, <3>3
  <2> QED
    BY <2>3, <2>4, <2>5, <2>6, <2>7
<1> QED
  BY <1>0, <1>4, <1>5 DEF Order

(* What waits for i is unchanged: so is what follows.                      *)
LEMMA FollowingSame ==
  ASSUME NEW r \in Side, NEW i \in Id, Following(r, i),
         wire'[Peer(r)] = wire[Peer(r)], Got(r, i)' = Got(r, i),
         writer'[Peer(r)][i].n = writer[Peer(r)][i].n
  PROVE  /\ Following(r, i)'
         /\ PayloadsFor(Peer(r), i)' = PayloadsFor(Peer(r), i)
<1>1. PayloadsFor(Peer(r), i)' = PayloadsFor(Peer(r), i)
  BY DEF PayloadsFor
<1> QED
  BY <1>1 DEF Following

(* A child that is queued.                                                 *)
LEMMA OrderQueued ==
  ASSUME Types, Types', Numbers, Writing, Calls, Families, Messages, Order, Moves,
         NEW s \in Side, NEW j \in Id, Queues(s, j)
  PROVE  Order'
<1> DEFINE p == Peer(s)
<1>0. /\ p \in Side /\ p # s /\ Peer(p) = s /\ Peer(s) = p
      /\ \A r \in Side : r = s \/ r = p
  BY SideFacts
<1> HIDE DEF p
<1>1. /\ wire' = wire /\ rcvd' = rcvd /\ readB' = readB /\ writer' = writer
      /\ dialing' = dialing /\ dial' = dial /\ busy' = busy
      /\ loop[s] = "accept" /\ loop'[s] = "write" /\ loop'[p] = loop[p]
      /\ conns'[s] = conns[s] \union {j} /\ conns'[p] = conns[p]
      /\ Children(s)' = Children(s) \union {j} /\ Children(p)' = Children(p)
      /\ busy[s].m.id = j /\ busy[s].m.t = "dialAck"
  BY <1>0 DEF Queues, Writing, WritingOf
<1>2. Cut(s, 0) /\ Cut(p, 0)
  BY <1>0, <1>1, CutFacts
<1>3. Unanswered(p, j) /\ Mine(p, j)
  <2>1. Accepting(s, j)
    BY <1>1 DEF Accepting
  <2> QED
    BY <1>0, <2>1, MessageFactsOf DEF Unanswered
<1>4. ASSUME NEW i \in Id
      PROVE  OrderOf(p, i)'
  <2>1. OrderOf(p, i)
    BY <1>0 DEF Order
  <2>2. i \in Children(s)' => i \in Children(s) \/ Sent(s, "dialAck", i)'
    BY <1>1 DEF Sent
  <2> QED
    BY <1>0, <1>1, <1>2, <2>1, <2>2, OrderTaken
<1>5. ASSUME NEW i \in Id, i # j
      PROVE  OrderOf(s, i)'
  <2>1. OrderOf(s, i)
    BY DEF Order
  <2> QED
    BY <1>0, <1>1, <1>2, <1>5, <2>1, OrderTaken
<1>6. OrderOf(s, j)'
  <2>1. j \notin Children(s) /\ j \notin Children(Peer(s))
    BY <1>0, <1>3 DEF Unanswered
  <2>2. Following(s, j)
    BY <2>1, OrderEmpty
  <2>3. Got(s, j)' = Got(s, j)
    BY <1>1 DEF Got
  <2>4. Following(s, j)'
    BY <1>1, <2>2, <2>3, FollowingSame
  <2>5. Counted(s, j)'
    <3>1. Counted(s, j)
      BY DEF Order, OrderOf
    <3> QED
      BY <1>1, <2>3, <3>1 DEF Counted
  <2>6. ~Awaited(s, j)'
    <3>1. ASSUME NEW c \in dialing[s], dial[c].id = j
          PROVE  FALSE
      <4>1. Mine(s, j)
        BY <3>1, Parities
      <4> QED
        BY <1>0, <1>3, <4>1, Parities
    <3> QED
      BY <1>1, <3>1 DEF Awaited
  <2> QED
    BY <2>4, <2>5, <2>6 DEF OrderOf
<1> QED
  BY <1>0, <1>4, <1>5, <1>6 DEF Order

(* A payload that is read.                                                 *)
LEMMA OrderRead ==
  ASSUME Types, Types', Numbers, Writing, Calls, Families, Messages, Order, Moves,
         NEW s \in Side, NEW j \in Id, Reads(s, j)
  PROVE  Order'
<1>1. /\ wire' = wire /\ writer' = writer /\ loop' = loop /\ busy' = busy
      /\ dialing' = dialing /\ dial' = dial /\ conns' = conns
      /\ \A r \in Side : Children(r)' = Children(r)
  BY DEF Reads, Children, Queued
<1>2. ASSUME NEW r \in Side, NEW i \in Id, r # s \/ i # j
      PROVE  OrderOf(r, i)'
  <2>1. OrderOf(r, i) /\ Cut(Peer(r), 0)
    BY <1>1, SideFacts, CutFacts DEF Order
  <2>2. rcvd'[r][i] = rcvd[r][i] /\ readB'[r][i] = readB[r][i] /\ Peer(r) \in Side
    BY <1>2, SideFacts DEF Reads
  <2> QED
    BY <1>1, <2>1, <2>2, OrderTaken
<1>3. OrderOf(s, j)'
  <2>1. /\ rcvd[s][j] \in Seq(Nat) /\ readB[s][j] \in Seq(Nat) /\ readB[s][j] # <<>>
        /\ rcvd'[s][j] = Append(rcvd[s][j], Head(readB[s][j]))
        /\ readB'[s][j] = Tail(readB[s][j])
    BY GotType DEF Reads
  <2>2. /\ Len(readB[s][j]) \in Nat /\ Len(readB[s][j]) > 0
        /\ Head(readB[s][j]) = readB[s][j][1] /\ Head(readB[s][j]) \in Nat
        /\ Len(readB'[s][j]) = Len(readB[s][j]) - 1
        /\ \A k \in 1 .. Len(readB[s][j]) - 1 : readB'[s][j][k] = readB[s][j][k + 1]
    BY <2>1, TailFacts
  <2>3. /\ Len(rcvd[s][j]) \in Nat /\ Len(rcvd'[s][j]) = Len(rcvd[s][j]) + 1
        /\ \A k \in 1 .. Len(rcvd[s][j]) : rcvd'[s][j][k] = rcvd[s][j][k]
        /\ rcvd'[s][j][Len(rcvd[s][j]) + 1] = readB[s][j][1]
    BY <2>1, <2>2, AppendFacts
  <2>4. Got(s, j)' = Got(s, j)
    <3>1. \A a, b \in Nat : (a + 1) + (b - 1) = a + b
      OBVIOUS
    <3>2. Len(rcvd'[s][j]) + Len(readB'[s][j]) = Len(rcvd[s][j]) + Len(readB[s][j])
      BY <2>2, <2>3, <3>1
    <3> QED
      BY <3>2 DEF Got
  <2>5. OrderOf(s, j) /\ Counted(s, j)
    BY DEF Order, OrderOf
  <2>6. Counted(s, j)'
    <3>1. readB[s][j][1] = Len(rcvd[s][j]) + 1
      <4>1. 1 \in 1 .. Len(readB[s][j])
        BY <2>2
      <4> QED
        BY <2>5, <4>1 DEF Counted
    <3>2. \A k \in 1 .. Len(rcvd'[s][j]) : rcvd'[s][j][k] = k
      <4>1. ASSUME NEW k \in 1 .. Len(rcvd'[s][j])
            PROVE  k \in 1 .. Len(rcvd[s][j]) \/ k = Len(rcvd[s][j]) + 1
        BY <2>3
      <4>2. \A k \in 1 .. Len(rcvd[s][j]) : rcvd'[s][j][k] = k
        BY <2>3, <2>5 DEF Counted
      <4> QED
        BY <2>3, <3>1, <4>1, <4>2
    <3>3. \A k \in 1 .. Len(readB'[s][j]) : readB'[s][j][k] = Len(rcvd'[s][j]) + k
      <4>1. ASSUME NEW k \in 1 .. Len(readB'[s][j])
            PROVE  readB'[s][j][k] = Len(rcvd'[s][j]) + k
        <5>1. k + 1 \in 1 .. Len(readB[s][j]) /\ readB'[s][j][k] = readB[s][j][k + 1]
          <6>1. \A b \in Nat : \A i \in 1 .. b - 1 : i + 1 \in 1 .. b
            OBVIOUS
          <6>2. k \in 1 .. Len(readB[s][j]) - 1
            BY <2>2, <4>1
          <6> QED
            BY <2>2, <6>1, <6>2
        <5>2. readB[s][j][k + 1] = Len(rcvd[s][j]) + (k + 1)
          BY <2>5, <5>1 DEF Counted
        <5>3. \A a \in Nat : \A b \in 1 .. Len(readB'[s][j]) : a + (b + 1) = (a + 1) + b
          OBVIOUS
        <5> QED
          BY <2>3, <4>1, <5>1, <5>2, <5>3
      <4> QED
        BY <4>1
    <3> QED
      BY <1>1, <2>4, <2>5, <3>2, <3>3 DEF Counted
  <2>7. Following(s, j) => Following(s, j)'
    BY <1>1, <2>4, FollowingSame
  <2>8. Awaited(s, j)' => Awaited(s, j)
    BY <1>1 DEF Awaited
  <2>9. Announced(s, j) => Announced(s, j)'
    BY <1>1, SideFacts DEF Announced, Sent, Wired, PayloadsFor
  <2> QED
    BY <1>1, <2>5, <2>6, <2>7, <2>8, <2>9 DEF OrderOf
<1> QED
  BY <1>2, <1>3 DEF Order

(* The payload that arrives is the next one.                               *)
LEMMA NextPayload ==
  ASSUME Types, NEW s \in Side, NEW j \in Id, Counted(s, j), Following(s, j),
         1 \in PayloadsFor(Peer(s), j)
  PROVE  wire[Peer(s)][1].n = Got(s, j) + 1
<1> DEFINE p == Peer(s)
           n == wire[p][1].n
<1>1. /\ Got(s, j) \in Nat /\ writer[p][j].n \in Nat
      /\ \A k \in PayloadsFor(p, j) : k \in Nat \ {0} /\ wire[p][k].n \in Nat
  <2>1. wire[p] \in Seq(Message)
    BY SideFacts DEF Types
  <2>2. \A k \in 1 .. Len(wire[p]) : k \in Nat \ {0} /\ wire[p][k].n \in Nat
    <3>1. \A k \in 1 .. Len(wire[p]) : wire[p][k] \in Message /\ k \in Nat \ {0}
      BY <2>1
    <3> QED
      BY <3>1 DEF Message
  <2> QED
    BY <2>2, SideFacts, GotType DEF PayloadsFor
<1>2. Got(s, j) < n /\ n <= writer[p][j].n
  BY DEF Following
<1>3. ASSUME n # Got(s, j) + 1
      PROVE  FALSE
  <2>1. Got(s, j) + 1 \in Got(s, j) + 1 .. writer[p][j].n
    BY <1>1, <1>2
  <2>2. PICK k \in PayloadsFor(p, j) : wire[p][k].n = Got(s, j) + 1
    BY <2>1 DEF Following
  <2>3. 1 < k
    BY <1>1, <1>3, <2>2
  <2>4. n < wire[p][k].n
    BY <2>3 DEF Following
  <2> QED
    BY <1>1, <1>2, <2>2, <2>4
<1> QED
  BY <1>3

(* A payload that is delivered.                                            *)
LEMMA OrderDelivered ==
  ASSUME Types, Types', Numbers, Writing, Calls, Families, Messages, Order, Moves,
         NEW s \in Side, NEW j \in Id, Delivers(s, j)
  PROVE  Order'
<1> DEFINE p == Peer(s)
<1>0. /\ p \in Side /\ p # s /\ Peer(p) = s /\ Peer(s) = p
      /\ \A r \in Side : r = s \/ r = p
  BY SideFacts
<1> HIDE DEF p
<1>1. /\ wire'[s] = wire[s] /\ Cut(p, 1) /\ wire[p][1].t = "payload" /\ wire[p][1].id = j
      /\ j \in conns[s]
      /\ writer' = writer /\ loop' = loop /\ busy' = busy /\ rcvd' = rcvd
      /\ dialing' = dialing /\ dial' = dial /\ conns' = conns
      /\ readB'[s][j] = Append(readB[s][j], wire[p][1].n)
      /\ \A r \in Side, i \in Id : r # s \/ i # j => readB'[r][i] = readB[r][i]
      /\ \A r \in Side : Children(r)' = Children(r)
  BY <1>0 DEF Delivers, Takes, Children, Queued
<1>2. \A k \in 1 .. 1 : k = 1
  OBVIOUS
<1>3. ASSUME NEW r \in Side, NEW i \in Id, r # s \/ i # j
      PROVE  OrderOf(r, i)'
  <2>1. OrderOf(r, i) /\ Cut(s, 0)
    BY <1>1, CutFacts DEF Order
  <2>2. CASE r = s
    BY <1>0, <1>1, <1>2, <1>3, <2>1, <2>2, OrderTaken
  <2>3. CASE r = p
    BY <1>0, <1>1, <2>1, <2>3, OrderTaken
  <2> QED
    BY <1>0, <2>2, <2>3
<1>4. OrderOf(s, j)'
  <2>1. Counted(s, j) /\ Following(s, j)
    BY <1>1 DEF Order, OrderOf
  <2>2. 1 \in PayloadsFor(p, j)
    BY <1>0, <1>1, CutWired DEF PayloadsFor
  <2>3. wire[p][1].n = Got(s, j) + 1
    BY <1>0, <2>1, <2>2, NextPayload
  <2>4. /\ Got(s, j) \in Nat /\ writer[p][j].n \in Nat
        /\ Len(rcvd[s][j]) \in Nat /\ Len(readB[s][j]) \in Nat
        /\ readB[s][j] \in Seq(Nat)
    BY <1>0, GotType
  <2>5. wire[p][1].n <= writer[p][j].n /\ wire[p][1].n \in Nat
    BY <1>0, <2>1, <2>2, <2>3, <2>4 DEF Following
  <2>6. /\ Len(readB'[s][j]) = Len(readB[s][j]) + 1
        /\ \A k \in 1 .. Len(readB[s][j]) : readB'[s][j][k] = readB[s][j][k]
        /\ readB'[s][j][Len(readB[s][j]) + 1] = wire[p][1].n
    BY <1>1, <2>4, <2>5, AppendFacts
  <2>7. Got(s, j)' = Got(s, j) + 1 /\ Got(s, j) = Len(rcvd[s][j]) + Len(readB[s][j])
    <3>1. \A a, b \in Nat : a + (b + 1) = (a + b) + 1
      OBVIOUS
    <3>2. Len(rcvd'[s][j]) + Len(readB'[s][j]) = (Len(rcvd[s][j]) + Len(readB[s][j])) + 1
      <4>1. rcvd'[s][j] = rcvd[s][j]
        BY <1>1
      <4>2. Len(readB'[s][j]) = Len(readB[s][j]) + 1
        BY <2>6
      <4>3. Len(rcvd[s][j]) \in Nat /\ Len(readB[s][j]) \in Nat
        BY <2>4
      <4> QED
        BY <3>1, <4>1, <4>2, <4>3
    <3> QED
      BY <3>2 DEF Got
  <2>8. Counted(s, j)'
    <3>1. \A k \in 1 .. Len(readB'[s][j]) : readB'[s][j][k] = Len(rcvd'[s][j]) + k
      <4>1. ASSUME NEW k \in 1 .. Len(readB'[s][j])
            PROVE  readB'[s][j][k] = Len(rcvd'[s][j]) + k
        <5>1. CASE k \in 1 .. Len(readB[s][j])
          BY <1>1, <2>1, <2>6, <5>1 DEF Counted
        <5>2. CASE k = Len(readB[s][j]) + 1
          <6>1. \A a, b \in Nat : (a + b) + 1 = a + (b + 1)
            OBVIOUS
          <6>2. readB'[s][j][k] = (Len(rcvd[s][j]) + Len(readB[s][j])) + 1
            BY <2>3, <2>6, <2>7, <5>2
          <6>3. rcvd'[s][j] = rcvd[s][j]
            BY <1>1
          <6>4. Len(rcvd[s][j]) \in Nat /\ Len(readB[s][j]) \in Nat
            BY <2>4
          <6>5. (Len(rcvd[s][j]) + Len(readB[s][j])) + 1 = Len(rcvd[s][j]) + (Len(readB[s][j]) + 1)
            BY <6>1, <6>4
          <6> QED
            BY <5>2, <6>2, <6>3, <6>5
        <5>3. \A a \in Nat : \A x \in 1 .. (a + 1) : x \in 1 .. a \/ x = a + 1
          OBVIOUS
        <5>4. Len(readB[s][j]) \in Nat /\ k \in 1 .. (Len(readB[s][j]) + 1)
          BY <2>4, <2>6, <4>1
        <5>5. k \in 1 .. Len(readB[s][j]) \/ k = Len(readB[s][j]) + 1
          BY <5>3, <5>4
        <5> QED
          BY <5>1, <5>2, <5>5
      <4> QED
        BY <4>1
    <3>2. Got(s, j)' <= writer'[p][j].n
      BY <1>1, <2>3, <2>5, <2>7
    <3> QED
      BY <1>0, <1>1, <2>1, <3>1, <3>2 DEF Counted
  <2>9. Following(s, j)'
    <3>1. /\ \A k \in PayloadsFor(p, j)' : /\ k \in Nat \ {0} /\ k + 1 \in PayloadsFor(p, j)
                                           /\ wire'[p][k].n = wire[p][k + 1].n
          /\ \A k \in PayloadsFor(p, j) : k > 1 => /\ k - 1 \in PayloadsFor(p, j)'
                                                   /\ wire'[p][k - 1].n = wire[p][k].n
      BY <1>0, <1>1, CutPayloads
    <3>2. \A k \in PayloadsFor(p, j) : k \in Nat \ {0} /\ wire[p][k].n \in Nat
      <4>1. wire[p] \in Seq(Message)
        BY <1>0 DEF Types
      <4>2. \A k \in 1 .. Len(wire[p]) : wire[p][k] \in Message /\ k \in Nat \ {0}
        BY <4>1
      <4> QED
        BY <4>2 DEF PayloadsFor, Message
    <3>3. \A i, k \in PayloadsFor(p, j) : i < k => wire[p][i].n < wire[p][k].n
      BY <1>0, <2>1 DEF Following
    <3>4. ASSUME NEW k \in PayloadsFor(p, j)'
          PROVE  Got(s, j)' < wire'[p][k].n /\ wire'[p][k].n <= writer'[p][j].n
      <4>1. k + 1 \in PayloadsFor(p, j) /\ 1 < k + 1 /\ wire'[p][k].n = wire[p][k + 1].n
        BY <3>1, <3>4
      <4>2. wire[p][1].n < wire[p][k + 1].n
        BY <2>2, <3>3, <4>1
      <4>3. wire[p][k + 1].n <= writer[p][j].n
        BY <1>0, <2>1, <4>1 DEF Following
      <4> QED
        BY <1>1, <2>3, <2>7, <4>1, <4>2, <4>3
    <3>5. ASSUME NEW n \in Got(s, j)' + 1 .. writer'[p][j].n
          PROVE  \E k \in PayloadsFor(p, j)' : wire'[p][k].n = n
      <4>1. n \in Got(s, j) + 1 .. writer[p][j].n /\ n # Got(s, j) + 1
        <5>1. \A a, b \in Nat : \A m \in (a + 1) + 1 .. b : m \in a + 1 .. b /\ m # a + 1
          OBVIOUS
        <5>2. n \in (Got(s, j) + 1) + 1 .. writer[p][j].n
          BY <1>1, <2>7, <3>5
        <5>3. Got(s, j) \in Nat /\ writer[p][j].n \in Nat
          BY <2>4
        <5> QED
          BY <5>1, <5>2, <5>3
      <4>2. PICK k \in PayloadsFor(p, j) : wire[p][k].n = n
        BY <1>0, <2>1, <4>1 DEF Following
      <4>3. k > 1
        BY <2>3, <3>2, <4>1, <4>2
      <4> QED
        BY <3>1, <4>2, <4>3
    <3>6. ASSUME NEW i \in PayloadsFor(p, j)', NEW k \in PayloadsFor(p, j)', i < k
          PROVE  wire'[p][i].n < wire'[p][k].n
      <4>1. i + 1 < k + 1
        BY <3>1, <3>6
      <4> QED
        BY <3>1, <3>3, <4>1
    <3> QED
      BY <1>0, <3>4, <3>5, <3>6 DEF Following
  <2>10. ~Awaited(s, j)'
    <3>1. \A c \in dialing[s] : dial[c].id \notin Children(s)
      BY MessageFactsOf
    <3>2. j \in Children(s)
      BY <1>1 DEF Families, FamiliesOf
    <3> QED
      BY <1>1, <3>1, <3>2 DEF Awaited
  <2> QED
    BY <2>8, <2>9, <2>10 DEF OrderOf
<1> QED
  BY <1>3, <1>4 DEF Order

(* A message that s has written.                                           *)
LEMMA OrderWritten ==
  ASSUME Types, Types', Numbers, Writing, Calls, Families, Messages, Order, Moves,
         NEW s \in Side, Writes(s)
  PROVE  Order'
<1> DEFINE p == Peer(s)
           m == busy[s].m
           L == Len(wire[s])
<1>0. /\ p \in Side /\ p # s /\ Peer(p) = s /\ Peer(s) = p
      /\ \A r \in Side : r = s \/ r = p
  BY SideFacts
<1> HIDE DEF p
<1>1. /\ loop'[p] = loop[p] /\ busy'[p] = busy[p] /\ loop[s] = "write" /\ loop'[s] # "panic"
      /\ rcvd' = rcvd /\ readB' = readB /\ conns' = conns /\ dial' = dial
      /\ dialing'[p] = dialing[p]
      /\ dialing'[s] = IF busy[s].then = "dial" THEN dialing[s] \union {busy[s].call}
                       ELSE dialing[s]
      /\ wire'[p] = wire[p] /\ Cut(p, 0)
      /\ \A r \in Side : Children(r)' = Children(r)
  <2>1. wire'[p] = wire[p]
    BY <1>0 DEF Writes
  <2>2. Cut(p, 0)
    BY <1>0, <2>1, CutFacts
  <2> QED
    BY <1>0, <2>1, <2>2 DEF Writes, Children, Queued
<1>2. /\ L \in Nat /\ Len(wire'[s]) = L + 1
      /\ \A k \in 1 .. L : wire'[s][k] = wire[s][k]
      /\ wire'[s][L + 1] = m /\ m.id \in Id
      /\ \A t, i : Sent(s, t, i)' <=> Sent(s, t, i)
      /\ \A t, i : Sent(p, t, i)' <=> Sent(p, t, i)
  BY <1>0, WrittenQueue
<1>3. \A r \in Side, i \in Id : Got(r, i)' = Got(r, i)
  BY <1>1 DEF Got
<1>4. \A i \in Id : writer'[p][i].n = writer[p][i].n
  BY <1>0 DEF Writes
<1>5. /\ m.t = "dial" <=> busy[s].then = "dial"
      /\ m.t = "payload" <=> busy[s].then = "payload"
      /\ m.t = "payload" => m.n = writer[s][m.id].n + 1
  BY <1>1 DEF Writing, WritingOf
<1> HIDE DEF m, L
<1>6. ASSUME NEW i \in Id
      PROVE  OrderOf(s, i)'
  <2>1. OrderOf(s, i)
    BY DEF Order
  <2>2. CASE Awaited(s, i)' => Awaited(s, i)
    <3>1. Awaited(s, i)' => (i \in Children(p)' => Sent(p, "dialAck", i)')
      BY <1>0, <1>1, <1>2, <2>1, <2>2 DEF OrderOf, Announced
    <3>2. \A k \in PayloadsFor(p, i) : k > 0
      BY <1>0 DEF PayloadsFor
    <3> QED
      BY <1>0, <1>1, <1>4, <2>1, <2>2, <3>1, <3>2, OrderFrame
  <2>3. CASE Awaited(s, i)' /\ ~Awaited(s, i)
    <3>1. busy[s].then = "dial" /\ i = nextID[s]
      <4>1. PICK c \in dialing'[s] : dial[c].id = i
        BY <1>1, <2>3 DEF Awaited
      <4>2. c \notin dialing[s]
        BY <1>1, <2>3, <4>1 DEF Awaited
      <4>3. busy[s].then = "dial" /\ c = busy[s].call
        BY <1>1, <4>1, <4>2
      <4> QED
        BY <4>1, <4>3, WrittenDial
    <3>2. i \notin Children(s) /\ i \notin Children(p)
      BY <1>0, <3>1, WrittenDial
    <3>3. Following(s, i) /\ PayloadsFor(p, i) = {}
      BY <1>0, <3>2, OrderEmpty
    <3>4. Following(s, i)' /\ PayloadsFor(p, i)' = {}
      BY <1>0, <1>1, <1>3, <1>4, <3>3, FollowingSame
    <3>5. Announced(s, i)'
      BY <1>0, <1>1, <3>2, <3>4 DEF Announced
    <3>6. Counted(s, i)'
      BY <1>0, <1>1, <1>3, <1>4, <2>1 DEF OrderOf, Counted
    <3> QED
      BY <3>4, <3>5, <3>6 DEF OrderOf
  <2> QED
    BY <2>2, <2>3
<1>7. ASSUME NEW i \in Id
      PROVE  OrderOf(p, i)'
  <2>1. OrderOf(p, i)
    BY <1>0 DEF Order
  <2>2. Awaited(p, i)' <=> Awaited(p, i)
    BY <1>1 DEF Awaited
  <2>3. \A k \in PayloadsFor(s, i) : /\ k \in 1 .. L /\ k \in PayloadsFor(s, i)'
                                     /\ wire'[s][k] = wire[s][k]
    BY <1>2 DEF PayloadsFor, L
  <2>4. \A k \in PayloadsFor(s, i)' :
          \/ k \in PayloadsFor(s, i)
          \/ k = L + 1 /\ m.t = "payload" /\ m.id = i
    <3>1. \A k \in 1 .. Len(wire'[s]) : k \in 1 .. L \/ k = L + 1
      BY <1>2
    <3> QED
      BY <1>2, <3>1 DEF PayloadsFor, L
  <2>5. /\ Got(p, i) \in Nat /\ writer[s][i].n \in Nat
        /\ \A k \in PayloadsFor(s, i) : wire[s][k].n \in Nat
    <3>1. \A k \in 1 .. Len(wire[s]) : wire[s][k] \in Message
      BY DEF Types
    <3>2. \A k \in PayloadsFor(s, i) : wire[s][k].n \in Nat
      BY <3>1 DEF PayloadsFor, Message
    <3> QED
      BY <1>0, <3>2, GotType
  <2>6. ASSUME Awaited(p, i), i \in Children(s)
        PROVE  Sent(s, "dialAck", i)
    BY <1>0, <2>1, <2>6 DEF OrderOf, Announced
  <2>7. ASSUME Awaited(p, i), NEW k \in PayloadsFor(s, i)
        PROVE  \E l \in 1 .. k - 1 : wire'[s][l].t = "dialAck" /\ wire'[s][l].id = i
    <3>1. PICK l \in 1 .. k - 1 : wire[s][l].t = "dialAck" /\ wire[s][l].id = i
      BY <1>0, <2>1, <2>7 DEF OrderOf, Announced
    <3>2. l \in 1 .. L
      BY <1>2, <2>3, <2>7, <3>1
    <3> QED
      BY <1>2, <3>1, <3>2
  <2>8. CASE m.t = "payload" /\ m.id = i
    <3>1. m.n = writer[s][i].n + 1 /\ writer'[s][i].n = writer[s][i].n + 1
      BY <1>5, <2>8 DEF Writes, m
    <3>2. L + 1 \in PayloadsFor(s, i)'
      BY <1>2, <2>8 DEF PayloadsFor
    <3>3. Counted(p, i)'
      <4>1. Got(p, i) <= writer[s][i].n
        BY <1>0, <2>1 DEF OrderOf, Counted
      <4>2. Got(p, i)' <= writer'[s][i].n
        BY <1>0, <1>3, <2>5, <3>1, <4>1
      <4> QED
        BY <1>0, <1>1, <2>1, <4>2 DEF OrderOf, Counted
    <3>4. ASSUME i \in conns[p] \/ Awaited(p, i)
          PROVE  Following(p, i)'
      <4>1. Following(p, i) /\ Got(p, i) <= writer[s][i].n
        BY <1>0, <2>1, <3>4 DEF OrderOf, Counted
      <4>2. \A k \in PayloadsFor(s, i) :
              Got(p, i) < wire[s][k].n /\ wire[s][k].n <= writer[s][i].n
        BY <1>0, <4>1 DEF Following
      <4>3. ASSUME NEW k \in PayloadsFor(s, i)'
            PROVE  Got(p, i)' < wire'[s][k].n /\ wire'[s][k].n <= writer'[s][i].n
        <5>1. CASE k \in PayloadsFor(s, i)
          BY <1>0, <1>3, <2>3, <2>5, <3>1, <4>2, <5>1
        <5>2. CASE k = L + 1
          BY <1>0, <1>2, <1>3, <2>5, <3>1, <4>1, <5>2
        <5> QED
          BY <2>4, <5>1, <5>2
      <4>4. ASSUME NEW n \in Got(p, i)' + 1 .. writer'[s][i].n
            PROVE  \E k \in PayloadsFor(s, i)' : wire'[s][k].n = n
        <5>1. n \in Got(p, i) + 1 .. writer[s][i].n \/ n = writer[s][i].n + 1
          BY <1>0, <1>3, <2>5, <3>1
        <5>2. CASE n \in Got(p, i) + 1 .. writer[s][i].n
          <6>1. PICK k \in PayloadsFor(s, i) : wire[s][k].n = n
            BY <1>0, <4>1, <5>2 DEF Following
          <6> QED
            BY <2>3, <6>1
        <5>3. CASE n = writer[s][i].n + 1
          BY <1>2, <3>1, <3>2, <5>3
        <5> QED
          BY <5>1, <5>2, <5>3
      <4>5. ASSUME NEW j \in PayloadsFor(s, i)', NEW k \in PayloadsFor(s, i)', j < k
            PROVE  wire'[s][j].n < wire'[s][k].n
        <5>1. j \in PayloadsFor(s, i)
          <6>1. k \in 1 .. L + 1
            BY <1>2 DEF PayloadsFor
          <6>2. j # L + 1
            BY <1>2, <4>5, <6>1
          <6> QED
            BY <2>4, <6>2
        <5>2. CASE k \in PayloadsFor(s, i)
          BY <1>0, <2>3, <4>1, <4>5, <5>1, <5>2 DEF Following
        <5>3. CASE k = L + 1
          <6>1. wire[s][j].n <= writer[s][i].n /\ wire[s][j].n \in Nat
            BY <2>5, <4>2, <5>1
          <6>2. wire'[s][j].n = wire[s][j].n /\ wire'[s][k].n = writer[s][i].n + 1
            BY <1>2, <2>3, <3>1, <5>1, <5>3
          <6>3. \A a, b \in Nat : a <= b => a < b + 1
            OBVIOUS
          <6> QED
            BY <2>5, <6>1, <6>2, <6>3
        <5> QED
          BY <2>4, <5>2, <5>3
      <4> QED
        BY <1>0, <4>3, <4>4, <4>5 DEF Following
    <3>5. ASSUME Awaited(p, i)
          PROVE  Announced(p, i)'
      <4>1. i \in Children(s)
        <5>1. Sent(s, "payload", i)
          BY <1>1, <2>8 DEF Sent, m
        <5> QED
          BY <5>1, MessageFactsOf
      <4>2. Sent(s, "dialAck", i)
        BY <2>6, <3>5, <4>1
      <4>3. PICK l \in 1 .. L : wire[s][l].t = "dialAck" /\ wire[s][l].id = i
        BY <2>8, <4>2 DEF Sent, Wired, L, m
      <4>4. ASSUME NEW k \in PayloadsFor(s, i)'
            PROVE  \E o \in 1 .. k - 1 : wire'[s][o].t = "dialAck" /\ wire'[s][o].id = i
        <5>1. CASE k \in PayloadsFor(s, i)
          BY <2>7, <3>5, <5>1
        <5>2. CASE k = L + 1
          <6>1. l \in 1 .. k - 1
            BY <1>2, <5>2
          <6> QED
            BY <1>2, <4>3, <6>1
        <5> QED
          BY <2>4, <5>1, <5>2
      <4> QED
        BY <1>0, <1>2, <4>2, <4>4 DEF Announced
    <3> QED
      BY <1>1, <2>2, <3>3, <3>4, <3>5 DEF OrderOf
  <2>9. CASE ~(m.t = "payload" /\ m.id = i)
    <3>1. writer'[s][i].n = writer[s][i].n
      BY <1>5, <2>9 DEF Writes, m
    <3>2. PayloadsFor(s, i)' = PayloadsFor(s, i)
      BY <2>3, <2>4, <2>9
    <3>3. Counted(p, i)'
      BY <1>0, <1>1, <1>3, <2>1, <3>1 DEF OrderOf, Counted
    <3>4. ASSUME i \in conns[p] \/ Awaited(p, i)
          PROVE  Following(p, i)'
      <4>1. Following(p, i)
        BY <2>1, <3>4 DEF OrderOf
      <4> QED
        BY <1>0, <1>3, <2>3, <3>1, <3>2, <4>1 DEF Following
    <3>5. ASSUME Awaited(p, i)
          PROVE  Announced(p, i)'
      BY <1>0, <1>1, <1>2, <2>6, <2>7, <3>2, <3>5 DEF Announced
    <3> QED
      BY <1>1, <2>2, <3>3, <3>4, <3>5 DEF OrderOf
  <2> QED
    BY <2>8, <2>9
<1> QED
  BY <1>0, <1>6, <1>7 DEF Order

(* Every step keeps the order of the payloads.                             *)
LEMMA OrderStep ==
  ASSUME Types, Types', Numbers, Writing, Calls, Families, Messages, Order, Moves
  PROVE  Order'
<1>1. ASSUME NEW s \in Side, Writes(s)
      PROVE  Order'
  BY <1>1, OrderWritten
<1>2. ASSUME \/ DialMoves \/ AcceptMoves \/ WriterMoves \/ ClosedMoves \/ LoopMoves
             \/ \E s \in Side :
                  \/ Fails(s) \/ FailsDials(s)
                  \/ \E c \in Call : Dials(s, c)
                  \/ \E i \in Id : Offers(s, i)
      PROVE  Order'
  BY <1>2, OrderAtRest
<1>3. ASSUME NEW s \in Side,
             \/ Ends(s)
             \/ \E j \in Id :
                  \/ Considers(s, j)
                  \/ \E d \in {0, 1} : Unroutes(s, j, d) \/ Replies(s, j, d)
                  \/ \E C \in SUBSET Call : Connects(s, j, C) \/ Refuses(s, j, C)
      PROVE  Order'
  BY <1>3, OrderTakes
<1>4. ASSUME NEW s \in Side, NEW j \in Id, Queues(s, j)
      PROVE  Order'
  BY <1>4, OrderQueued
<1>5. ASSUME NEW s \in Side, NEW j \in Id, Reads(s, j)
      PROVE  Order'
  BY <1>5, OrderRead
<1>6. ASSUME NEW s \in Side, NEW j \in Id, Delivers(s, j)
      PROVE  Order'
  BY <1>6, OrderDelivered
<1> QED
  BY <1>1, <1>2, <1>3, <1>4, <1>5, <1>6 DEF Moves
-----------------------------------------------------------------------------
(* The theorems.                                                           *)

(* The Muxes start with nothing sent, and with different parities.         *)
LEMMA InvariantInit == Init => IInv
<1> SUFFICES ASSUME Init PROVE IInv
  OBVIOUS
<1>1. Types
  BY TypesInit
<1>2. /\ \A s \in Side : /\ loop[s] = "select" /\ busy[s] = NotBusy /\ wire[s] = <<>>
                         /\ dialing[s] = {} /\ conns[s] = {} /\ held[s] = {} /\ closed[s] = {}
                         /\ accept[s] = <<>>
      /\ \A s \in Side, i \in Id : /\ closing[s][i] = 0
                                   /\ readB[s][i] = <<>> /\ rcvd[s][i] = <<>>
                                   /\ writer[s][i].st = "idle" /\ writer[s][i].n = 0
      /\ \A c \in Call : dial[c].st = "idle"
  BY DEF Init
<1>3. \A s \in Side : /\ Len(wire[s]) = 0 /\ Len(accept[s]) = 0
                      /\ Children(s) = {}
                      /\ busy[s].then = "none" /\ busy[s].m.t = "none"
                      /\ \A t, i : ~Wired(s, t, i) /\ ~Sent(s, t, i)
                      /\ \A i : ~Accepting(s, i) /\ ~Awaited(s, i)
  BY <1>2, MessageFacts DEF Children, Queued, Wired, Sent, Accepting, Awaited
<1>4. Capacities
  <2>1. PipeCap \in Nat /\ AcceptCap \in Nat /\ \A s \in Side : MaxWrites[s] \in Nat
    BY ConstantsAssumption
  <2> QED
    BY <1>2, <1>3, <2>1 DEF Capacities
<1>5. Numbers
  <2>1. PICK odd \in Side : nextID = [s \in Side |-> IF s = odd THEN 1 ELSE 0]
    BY DEF Init
  <2>2. nextID["client"] % 2 # nextID["server"] % 2
    BY <2>1 DEF Side
  <2>3. \A s \in Side : nextID[s] \in {0, 1}
    BY <2>1
  <2>4. \A s \in Side : Cardinality(Begun(s)) \in Nat
    BY BegunFacts
  <2> QED
    BY <1>3, <2>2, <2>3, <2>4 DEF Numbers
<1>6. Writing
  BY <1>2, <1>3 DEF Writing, WritingOf
<1>7. Calls
  BY <1>2, SideFacts DEF Calls, Numbered
<1>8. Families
  BY <1>2, <1>3 DEF Families, FamiliesOf
<1>9. Messages
  BY <1>2, <1>3, SideFacts DEF Messages, MessagesOf
<1>10. Order
  <2>1. ASSUME NEW s \in Side, NEW i \in Id
        PROVE  Counted(s, i)
    <3>1. /\ rcvd[s][i] = <<>> /\ readB[s][i] = <<>> /\ writer[Peer(s)][i].n = 0
          /\ Len(<<>>) = 0
      BY <1>2, <2>1, SideFacts
    <3>2. Got(s, i) = 0
      BY <3>1 DEF Got
    <3>3. \A k \in 1 .. 0 : FALSE
      OBVIOUS
    <3> QED
      BY <3>1, <3>2, <3>3 DEF Counted
  <2> QED
    BY <1>2, <1>3, <2>1 DEF Order, OrderOf
<1> QED
  BY <1>1, <1>4, <1>5, <1>6, <1>7, <1>8, <1>9, <1>10 DEF IInv

(* Every step of the two Muxes and their programs keeps the invariant.     *)
LEMMA InvariantStep == IInv /\ [Next]_vars => IInv'
<1> SUFFICES ASSUME IInv, [Next]_vars PROVE IInv'
  OBVIOUS
<1>1. /\ Types /\ Capacities /\ Numbers /\ Writing /\ Calls /\ Families /\ Messages /\ Order
  BY DEF IInv
<1>2. Types'
  BY <1>1, TypesStep
<1>3. Moves
  <2>1. CASE UNCHANGED vars
    <3>1. LoopMoves
      BY <2>1 DEF LoopMoves, vars
    <3> QED
      BY <3>1 DEF Moves
  <2>2. CASE Next
    BY <1>1, <1>2, <2>2, NextMoves
  <2> QED
    BY <2>1, <2>2
<1>4. Capacities' /\ Numbers'
  BY <1>1, <1>2, <1>3, CapacitiesStep, NumbersStep
<1>5. Writing' /\ Calls'
  BY <1>1, <1>2, <1>3, WritingStep, CallsStep
<1>6. Families' /\ Messages'
  BY <1>1, <1>2, <1>3, FamiliesStep, MessagesStep
<1>7. Order'
  BY <1>1, <1>2, <1>3, OrderStep
<1> QED
  BY <1>2, <1>4, <1>5, <1>6, <1>7 DEF IInv

(* The invariant holds in every state of two joined Muxes.                 *)
THEOREM Invariant == Spec => []IInv
<1>1. Init => IInv
  BY InvariantInit
<1>2. IInv /\ [Next]_vars => IInv'
  BY InvariantStep
<1> QED
  BY <1>1, <1>2, PTL DEF Spec

(* The maps, the queues and the calls of the two Muxes always have their   *)
(* types: no channel of connmux.go holds more than its capacity, and every *)
(* number that is given out is an identifier.                              *)
THEOREM TypeCorrect == Spec => []TypeOK
<1>1. IInv => TypeOK
  <2> SUFFICES ASSUME IInv PROVE TypeOK
    OBVIOUS
  <2>1. Types /\ Capacities /\ Numbers /\ Order
    BY DEF IInv
  <2>2. /\ loop \in [Side -> Locs] /\ closeReq \in [Side -> BOOLEAN]
        /\ conns \in [Side -> SUBSET Id] /\ held \in [Side -> SUBSET Id]
        /\ closed \in [Side -> SUBSET Id] /\ dialing \in [Side -> SUBSET Call]
    BY <2>1 DEF Types
  <2>3. \A c \in Call : dial[c].st \in {"idle", "offer", "wait", "ok", "err"} /\ dial[c].id \in Id
    <3>1. \A c \in Call : dial[c] \in DialCB
      BY <2>1 DEF Types
    <3> QED
      BY <3>1 DEF DialCB
  <2>4. ASSUME NEW s \in Side
        PROVE  nextID[s] \in Id
    <3>1. nextID[s] \in Nat
      BY <2>1 DEF Types
    <3>2. /\ Cardinality(Begun(s)) \in Nat /\ Cardinality(Call) \in Nat
          /\ Cardinality(Begun(s)) <= Cardinality(Call)
      BY BegunFacts, IdFacts
    <3>3. nextID[s] <= 1 + 2 * Cardinality(Begun(s))
      <4>1. nextID[s] + (IF busy[s].then = "dial" THEN 2 ELSE 0) <= 1 + 2 * Cardinality(Begun(s))
        BY <2>1 DEF Numbers
      <4> QED
        BY <3>1, <3>2, <4>1
    <3> QED
      BY <3>1, <3>2, <3>3 DEF Id
  <2>5. \A s \in Side : Len(wire[s]) <= PipeCap /\ Len(accept[s]) <= AcceptCap
    BY <2>1 DEF Capacities
  <2>6. ASSUME NEW s \in Side, NEW i \in Id
        PROVE  /\ writer[s][i].st \in {"idle", "offer", "wait", "failed"}
               /\ writer[s][i].n \in 0 .. MaxWrites[s]
               /\ Len(rcvd[s][i]) <= MaxWrites[Peer(s)]
    <3>1. /\ writer[s][i].st \in {"idle", "offer", "wait", "failed"} /\ writer[s][i].n \in Nat
          /\ Len(rcvd[s][i]) \in Nat /\ Len(readB[s][i]) \in Nat
          /\ writer[Peer(s)][i].n \in Nat
      BY <2>1, GotType, SideFacts DEF Writer
    <3>2. MaxWrites[s] \in Nat /\ MaxWrites[Peer(s)] \in Nat /\ Peer(s) \in Side
      BY ConstantsAssumption, SideFacts
    <3>3. writer[s][i].n <= MaxWrites[s] /\ writer[Peer(s)][i].n <= MaxWrites[Peer(s)]
      BY <2>1, <3>2 DEF Capacities
    <3>4. Len(rcvd[s][i]) + Len(readB[s][i]) <= writer[Peer(s)][i].n
      BY <2>1 DEF Order, OrderOf, Counted, Got
    <3>5. Len(rcvd[s][i]) <= MaxWrites[Peer(s)]
      <4>1. \A a, b, c, d \in Nat : a + b <= c /\ c <= d => a <= d
        OBVIOUS
      <4>2. Len(rcvd[s][i]) \in Nat /\ Len(readB[s][i]) \in Nat
        BY <3>1
      <4>3. writer[Peer(s)][i].n \in Nat /\ MaxWrites[Peer(s)] \in Nat
        BY <3>1, <3>2
      <4>4. writer[Peer(s)][i].n <= MaxWrites[Peer(s)]
        BY <3>3
      <4> QED
        BY <3>4, <4>1, <4>2, <4>3, <4>4
    <3> QED
      BY <3>1, <3>2, <3>3, <3>5
  <2> QED
    BY <2>2, <2>3, <2>4, <2>5, <2>6 DEF TypeOK, Locs
<1> QED
  BY <1>1, Invariant, PTL

(* handleMessage never lets a dial of the peer take the entry that a dial  *)
(* of this side waits for, nor two calls share an identifier.              *)
THEOREM IdentifiersAreFresh == Spec => []FreshIdentifiers
<1>1. IInv => FreshIdentifiers
  <2> SUFFICES ASSUME IInv PROVE FreshIdentifiers
    OBVIOUS
  <2>1. Types /\ Numbers /\ Calls /\ Families
    BY DEF IInv
  <2>2. \A s \in Side : \A c \in dialing[s] : dial[c].id \notin conns[s] \union Children(s)
    BY <2>1 DEF Families, FamiliesOf
  <2>3. ASSUME NEW c \in Call, NEW d \in Call, c # d,
               {dial[c].st, dial[d].st} \subseteq {"wait", "ok"}
        PROVE  dial[c].id # dial[d].id
    <3>1. Numbered(c) /\ Numbered(d)
      BY <2>3 DEF Numbered
    <3>2. /\ Mine(Caller(c), dial[c].id) /\ Mine(Caller(d), dial[d].id)
          /\ Caller(c) \in Side /\ Caller(d) \in Side
      BY <2>1, <3>1, SideFacts DEF Calls
    <3>3. dial[c].id \in Id
      <4>1. dial[c] \in DialCB
        BY <2>1 DEF Types
      <4> QED
        BY <4>1 DEF DialCB
    <3>4. CASE Caller(c) = Caller(d)
      BY <2>1, <2>3, <3>1, <3>4 DEF Calls
    <3>5. CASE Caller(d) = Peer(Caller(c))
      <4>1. ~(Mine(Caller(c), dial[c].id) /\ Mine(Peer(Caller(c)), dial[c].id))
        BY <2>1, <3>2, <3>3, Parities
      <4> QED
        BY <3>2, <3>5, <4>1
    <3> QED
      BY <3>2, <3>4, <3>5, SideFacts
  <2> QED
    BY <2>2, <2>3 DEF FreshIdentifiers
<1> QED
  BY <1>1, Invariant, PTL

(* Whatever removes a child from idsToConns - a close or an error of the   *)
(* peer, Close, the cleanup - has closed it.                               *)
THEOREM UnroutedChildIsClosed == Spec => []UnroutedIsClosed
<1>1. IInv => UnroutedIsClosed
  BY DEF IInv, Families, FamiliesOf, UnroutedIsClosed
<1> QED
  BY <1>1, Invariant, PTL

(* A dial that failed in its caller, its acceptDial having timed out or    *)
(* its peer being dial-only, is no child of the peer.                      *)
THEOREM RefusedDialIsNotAccepted == Spec => []RefusedNotAccepted
<1>1. IInv => RefusedNotAccepted
  <2> SUFFICES ASSUME IInv, NEW s \in Side, NEW c \in dialing[s], dial[c].st = "err"
               PROVE  dial[c].id \notin Children(Peer(s))
    BY DEF RefusedNotAccepted
  <2>1. Refused(s, dial[c].id)
    BY DEF IInv, Messages, MessagesOf
  <2> QED
    BY <2>1 DEF Refused
<1> QED
  BY <1>1, Invariant, PTL

(* What was read, what waits in the read buffer and what is on the wire    *)
(* for a routed child are the payloads written to it, in order, none lost. *)
THEOREM RoutedPayloadsAreWhole == Spec => []NothingLostWhileRouted
<1>1. IInv => NothingLostWhileRouted
  <2> SUFFICES ASSUME IInv, NEW s \in Side, NEW i \in conns[s]
               PROVE  LET p == Peer(s)
                          got == rcvd[s][i] \o readB[s][i]
                          n == writer[p][i].n
                      IN /\ \A k \in 1 .. Len(got) : got[k] = k
                         /\ Len(got) <= n
                         /\ {wire[p][k].n : k \in PayloadsFor(p, i)} = Len(got) + 1 .. n
                         /\ \A j, k \in PayloadsFor(p, i) : j < k => wire[p][j].n < wire[p][k].n
    BY DEF NothingLostWhileRouted
  <2> DEFINE p == Peer(s)
             got == rcvd[s][i] \o readB[s][i]
             n == writer[p][i].n
  <2>1. Types /\ i \in Id /\ p \in Side
    BY SideFacts DEF IInv, Types
  <2>2. Counted(s, i) /\ Following(s, i)
    BY <2>1 DEF IInv, Order, OrderOf
  <2>3. /\ rcvd[s][i] \in Seq(Nat) /\ readB[s][i] \in Seq(Nat)
        /\ Len(rcvd[s][i]) \in Nat /\ Len(readB[s][i]) \in Nat
        /\ Got(s, i) \in Nat /\ n \in Nat
    BY <2>1, GotType
  <2>4. /\ Len(got) = Got(s, i)
        /\ \A k \in 1 .. Len(got) :
             \/ k \in 1 .. Len(rcvd[s][i]) /\ got[k] = rcvd[s][i][k]
             \/ /\ k - Len(rcvd[s][i]) \in 1 .. Len(readB[s][i])
                /\ got[k] = readB[s][i][k - Len(rcvd[s][i])]
    <3>1. \A a, b \in Seq(Nat) :
            /\ Len(a \o b) = Len(a) + Len(b)
            /\ \A k \in 1 .. Len(a \o b) :
                 \/ k \in 1 .. Len(a) /\ (a \o b)[k] = a[k]
                 \/ k - Len(a) \in 1 .. Len(b) /\ (a \o b)[k] = b[k - Len(a)]
      OBVIOUS
    <3> QED
      BY <2>3, <3>1 DEF Got
  <2>5. ASSUME NEW k \in 1 .. Len(got)
        PROVE  got[k] = k
    <3>1. CASE k \in 1 .. Len(rcvd[s][i]) /\ got[k] = rcvd[s][i][k]
      BY <2>2, <3>1 DEF Counted
    <3>2. CASE /\ k - Len(rcvd[s][i]) \in 1 .. Len(readB[s][i])
               /\ got[k] = readB[s][i][k - Len(rcvd[s][i])]
      <4>1. got[k] = Len(rcvd[s][i]) + (k - Len(rcvd[s][i]))
        BY <2>2, <3>2 DEF Counted
      <4>2. k \in Int
        OBVIOUS
      <4> QED
        BY <2>3, <4>1, <4>2
    <3> QED
      BY <2>4, <2>5, <3>1, <3>2
  <2>6. Len(got) <= n
    BY <2>2, <2>4 DEF Counted
  <2>7. {wire[p][k].n : k \in PayloadsFor(p, i)} = Len(got) + 1 .. n
    <3>1. \A k \in PayloadsFor(p, i) : wire[p][k].n \in Nat
      <4>1. wire[p] \in Seq(Message)
        BY <2>1 DEF Types
      <4>2. \A k \in 1 .. Len(wire[p]) : wire[p][k] \in Message
        BY <4>1
      <4> QED
        BY <4>2 DEF PayloadsFor, Message
    <3>2. \A k \in PayloadsFor(p, i) : Got(s, i) < wire[p][k].n /\ wire[p][k].n <= n
      BY <2>2 DEF Following
    <3>3. \A k \in PayloadsFor(p, i) : wire[p][k].n \in Got(s, i) + 1 .. n
      BY <2>3, <3>1, <3>2
    <3>4. \A m \in Got(s, i) + 1 .. n : \E k \in PayloadsFor(p, i) : wire[p][k].n = m
      BY <2>2 DEF Following
    <3>5. {wire[p][k].n : k \in PayloadsFor(p, i)} = Got(s, i) + 1 .. n
      BY <3>3, <3>4
    <3> QED
      BY <2>4, <3>5
  <2>8. \A j, k \in PayloadsFor(p, i) : j < k => wire[p][j].n < wire[p][k].n
    BY <2>2 DEF Following
  <2> QED
    BY <2>5, <2>6, <2>7, <2>8
<1> QED
  BY <1>1, Invariant, PTL
-----------------------------------------------------------------------------
(* The refinement: what the programs see of two Muxes is what MuxService   *)
(* says.                                                                   *)

(* What a call has returned, and what was put on a connection.             *)
AnswerTo(c) ==
  CASE dial[c].st = "idle" -> "idle"
    [] dial[c].st = "ok" -> "conn"
    [] dial[c].st = "err" -> "error"
    [] OTHER -> "none"
Answers == [c \in Call |-> AnswerTo(c)]
Sents == [s \in Side |-> [i \in Id |-> writer[s][i].n]]

(* What MuxService speaks of, in terms of the Muxes.                       *)
ServiceVars == <<Answers, accept, held, Sents, rcvd>>

(* The mapping, spelled out.                                               *)
LEMMA ServiceMapping ==
  /\ Service!vars = ServiceVars
  /\ \A s : Service!Peer(s) = Peer(s) /\ Service!Queued(s) = Queued(s)
  /\ \A c : Service!Caller(c) = Caller(c)
  /\ Service!Call = Call /\ Service!Side = Side
  BY DEF Service!vars, ServiceVars, Answers, AnswerTo, Sents, Call, Side, Peer, Caller, Queued,
         Service!Call, Service!Side, Service!Peer, Service!Caller, Service!Queued

(* The states of a call, as its caller sees them.                          *)
LEMMA AnswerFacts ==
  ASSUME Types, NEW c \in Call
  PROVE  /\ Answers[c] = AnswerTo(c)
         /\ dial[c].st \in {"idle", "offer", "wait", "ok", "err"}
         /\ dial[c].st = "idle" => AnswerTo(c) = "idle"
         /\ dial[c].st = "ok" => AnswerTo(c) = "conn"
         /\ dial[c].st = "err" => AnswerTo(c) = "error"
         /\ dial[c].st \in {"offer", "wait"} => AnswerTo(c) = "none"
<1>1. dial[c] \in DialCB
  BY DEF Types
<1>2. dial[c].st \in {"idle", "offer", "wait", "ok", "err"}
  BY <1>1 DEF DialCB
<1>3. Answers[c] = AnswerTo(c)
  BY DEF Answers
<1> QED
  BY <1>2, <1>3 DEF AnswerTo

(* What the service keeps, when the code keeps it.                         *)
LEMMA ServiceKeeps ==
  ASSUME Types, Types'
  PROVE  /\ (\A c \in Call : AnswerTo(c)' = AnswerTo(c)) => Answers' = Answers
         /\ (\A s \in Side, i \in Id : writer'[s][i].n = writer[s][i].n) => Sents' = Sents
         /\ (\A c \in Call : dial'[c].st = dial[c].st) => Answers' = Answers
<1>1. ASSUME \A c \in Call : AnswerTo(c)' = AnswerTo(c)
      PROVE  Answers' = Answers
  BY <1>1 DEF Answers
<1>2. ASSUME \A s \in Side, i \in Id : writer'[s][i].n = writer[s][i].n
      PROVE  Sents' = Sents
  BY <1>2 DEF Sents
<1>3. ASSUME \A c \in Call : dial'[c].st = dial[c].st
      PROVE  \A c \in Call : AnswerTo(c)' = AnswerTo(c)
  BY <1>3 DEF AnswerTo
<1> QED
  BY <1>1, <1>2, <1>3

(* Calls that end in an error, maybe several at once, maybe none.          *)
LEMMA ServiceFails ==
  ASSUME Types, Types', accept' = accept, held' = held, rcvd' = rcvd,
         \A s \in Side, i \in Id : writer'[s][i].n = writer[s][i].n,
         \A c \in Call :
           \/ dial'[c].st = dial[c].st
           \/ dial[c].st \in {"offer", "wait"} /\ dial'[c].st \in {"offer", "wait", "err"}
  PROVE  Service!Next
<1> DEFINE D == {c \in Call : dial[c].st \in {"offer", "wait"} /\ dial'[c].st = "err"}
<1>0. PICK C \in SUBSET Call : C = D
  OBVIOUS
<1>1. /\ \A c \in C : Answers[c] = "none" /\ dial'[c].st = "err"
      /\ \A c \in Call \ C : \/ dial'[c].st = dial[c].st
                             \/ /\ dial[c].st \in {"offer", "wait"}
                                /\ dial'[c].st \in {"offer", "wait"}
  BY <1>0, AnswerFacts
<1> HIDE DEF D
<1>2. Answers' = [c \in Call |-> IF c \in C THEN "error" ELSE Answers[c]]
  <2>1. ASSUME NEW c \in Call
        PROVE  Answers'[c] = IF c \in C THEN "error" ELSE Answers[c]
    <3>1. Answers'[c] = AnswerTo(c)' /\ Answers[c] = AnswerTo(c)
      BY DEF Answers
    <3>2. c \in C => AnswerTo(c)' = "error"
      BY <1>1 DEF AnswerTo
    <3>3. c \notin C => AnswerTo(c)' = AnswerTo(c)
      BY <1>1 DEF AnswerTo
    <3> QED
      BY <3>1, <3>2, <3>3
  <2> QED
    BY <2>1 DEF Answers
<1>3. Sents' = Sents
  BY ServiceKeeps
<1>4. Service!Failed(C)
  BY <1>1, <1>2, <1>3, ServiceMapping DEF Service!Failed, Answers, AnswerTo, Sents
<1>5. Service!Call = Call
  BY ServiceMapping
<1> QED
  BY <1>4, <1>5 DEF Service!Next

(* Each step of the service is a step of its Next.                         *)
LEMMA ServiceSteps ==
  /\ \A c \in Call : Service!Ask(c) => Service!Next
  /\ \A s \in Side : Service!Accept(s) => Service!Next
  /\ \A s \in Side, i \in Id : Service!Enqueue(s, i) \/ Service!Put(s, i) \/ Service!Get(s, i)
                                 => Service!Next
  /\ \A c \in Call, i \in Id : Service!Connected(c, i) => Service!Next
<1>1. Service!Call = Call /\ Service!Side = Side
  BY ServiceMapping
<1> QED
  BY <1>1 DEF Service!Next

(* The answer of one call changes.                                         *)
LEMMA OneAnswer ==
  ASSUME NEW c \in Call, NEW e, AnswerTo(c)' = e,
         \A d \in Call \ {c} : dial'[d].st = dial[d].st
  PROVE  Answers' = [Answers EXCEPT ![c] = e]
<1>1. ASSUME NEW d \in Call
      PROVE  Answers'[d] = [Answers EXCEPT ![c] = e][d]
  <2>1. Answers'[d] = AnswerTo(d)' /\ Answers[d] = AnswerTo(d)
    BY DEF Answers
  <2>2. CASE d = c
    BY <2>1, <2>2 DEF Answers
  <2>3. CASE d # c
    <3>1. AnswerTo(d)' = AnswerTo(d)
      BY <2>3 DEF AnswerTo
    <3> QED
      BY <2>1, <2>3, <3>1 DEF Answers
  <2> QED
    BY <2>2, <2>3
<1> QED
  BY <1>1 DEF Answers

(* Steps that do not answer a call, or only with an error.                 *)
LEMMA ServiceQuiet ==
  ASSUME Types, Types', Writing, Calls,
         \/ WriterMoves \/ ClosedMoves \/ LoopMoves
         \/ \E s \in Side :
              \/ Ends(s) \/ FailsDials(s) \/ Fails(s)
              \/ \E c \in Call : Dials(s, c)
              \/ \E i \in Id :
                   \/ Offers(s, i) \/ Considers(s, i) \/ Delivers(s, i)
                   \/ \E d \in {0, 1} : Unroutes(s, i, d) \/ Replies(s, i, d)
                   \/ \E C \in SUBSET Call : Refuses(s, i, C)
  PROVE  Service!Next
<1>1. CASE WriterMoves \/ ClosedMoves \/ LoopMoves
  <2>1. /\ dial' = dial /\ accept' = accept /\ held' = held
        /\ \A r \in Side, j \in Id : writer'[r][j].n = writer[r][j].n
    BY <1>1 DEF WriterMoves, ClosedMoves, LoopMoves
  <2>2. rcvd' = rcvd
    BY <1>1 DEF WriterMoves, ClosedMoves, LoopMoves
  <2> QED
    BY <2>1, <2>2, ServiceFails
<1>2. ASSUME NEW s \in Side, Ends(s)
      PROVE  Service!Next
  <2>1. dial' = dial /\ accept' = accept /\ held' = held /\ rcvd' = rcvd /\ writer' = writer
    BY <1>2 DEF Ends
  <2> QED
    BY <2>1, ServiceFails
<1>3. ASSUME NEW s \in Side, FailsDials(s)
      PROVE  Service!Next
  <2>1. accept' = accept /\ held' = held /\ rcvd' = rcvd /\ writer' = writer
    BY <1>3 DEF FailsDials
  <2>2. \A c \in Call : \/ dial'[c].st = dial[c].st
                        \/ dial[c].st = "wait" /\ dial'[c].st = "err"
    BY <1>3 DEF FailsDials
  <2> QED
    BY <2>1, <2>2, ServiceFails
<1>4. ASSUME NEW s \in Side, Fails(s)
      PROVE  Service!Next
  <2>1. /\ accept' = accept /\ held' = held /\ rcvd' = rcvd
        /\ \A r \in Side, j \in Id : writer'[r][j].n = writer[r][j].n
    BY <1>4 DEF Fails
  <2>2. busy[s].then = "dial" => dial[busy[s].call].st = "wait"
    BY DEF Writing, WritingOf
  <2>3. \A c \in Call : \/ dial'[c].st = dial[c].st
                        \/ dial[c].st = "wait" /\ dial'[c].st = "err"
    BY <1>4, <2>2 DEF Fails
  <2> QED
    BY <2>1, <2>3, ServiceFails
<1>5. ASSUME NEW s \in Side, NEW c \in Call, Dials(s, c)
      PROVE  Service!Next
  <2>1. accept' = accept /\ held' = held /\ rcvd' = rcvd /\ writer' = writer
    <3>1. /\ UNCHANGED <<wire, nextID, dialing, conns, accept, held, closed, closing,
                         readB, rcvd, writer>>
      BY <1>5 DEF Dials
    <3> QED
      BY <3>1
  <2>2. \A d \in Call : \/ dial'[d].st = dial[d].st
                        \/ dial[d].st = "offer" /\ dial'[d].st = "wait"
    <3>1. /\ dial[c].st = "offer" /\ dial'[c].st = "wait"
          /\ \A d \in Call \ {c} : dial'[d] = dial[d]
      BY <1>5 DEF Dials
    <3> QED
      BY <3>1
  <2> QED
    BY <2>1, <2>2, ServiceFails
<1>6. ASSUME NEW s \in Side, NEW i \in Id, Offers(s, i)
      PROVE  Service!Next
  <2>1. /\ accept' = accept /\ held' = held /\ rcvd' = rcvd /\ dial' = dial
        /\ \A r \in Side, j \in Id : writer'[r][j].n = writer[r][j].n
    BY <1>6 DEF Offers
  <2> QED
    BY <2>1, ServiceFails
<1>7. ASSUME NEW s \in Side, NEW i \in Id, Considers(s, i) \/ Delivers(s, i)
      PROVE  Service!Next
  <2>1. accept' = accept /\ held' = held /\ rcvd' = rcvd /\ dial' = dial /\ writer' = writer
    <3>1. CASE Considers(s, i)
      BY <3>1 DEF Considers
    <3>2. CASE Delivers(s, i)
      BY <3>2 DEF Delivers
    <3> QED
      BY <1>7, <3>1, <3>2
  <2> QED
    BY <2>1, ServiceFails
<1>8. ASSUME NEW s \in Side, NEW i \in Id, NEW d \in {0, 1},
             Unroutes(s, i, d) \/ Replies(s, i, d)
      PROVE  Service!Next
  <2>1. accept' = accept /\ held' = held /\ rcvd' = rcvd /\ dial' = dial /\ writer' = writer
    <3>1. CASE Unroutes(s, i, d)
      BY <3>1 DEF Unroutes
    <3>2. CASE Replies(s, i, d)
      BY <3>2 DEF Replies
    <3> QED
      BY <1>8, <3>1, <3>2
  <2> QED
    BY <2>1, ServiceFails
<1>9. ASSUME NEW s \in Side, NEW i \in Id, NEW C \in SUBSET Call, Refuses(s, i, C)
      PROVE  Service!Next
  <2>1. accept' = accept /\ held' = held /\ rcvd' = rcvd /\ writer' = writer
    BY <1>9 DEF Refuses
  <2>2. \A c \in C : dial[c].st \in {"wait", "err"}
    BY <1>9 DEF Refuses, DialingAs, Calls
  <2>3. \A c \in Call : dial'[c].st = IF c \in C THEN "err" ELSE dial[c].st
    BY <1>9 DEF Refuses
  <2>4. \A c \in Call : \/ dial'[c].st = dial[c].st
                        \/ dial[c].st = "wait" /\ dial'[c].st = "err"
    BY <2>2, <2>3
  <2> QED
    BY <2>1, <2>4, ServiceFails
<1> QED
  BY <1>1, <1>2, <1>3, <1>4, <1>5, <1>6, <1>7, <1>8, <1>9

(* A call of DialContext is made, or fails before the loop takes it.       *)
LEMMA ServiceDial ==
  ASSUME Types, Types', DialMoves
  PROVE  Service!Next
<1>1. accept' = accept /\ held' = held /\ rcvd' = rcvd /\ writer' = writer
  BY DEF DialMoves
<1>2. \A c \in Call : dial'[c].st # dial[c].st => \/ dial[c].st = "idle" /\ dial'[c].st = "offer"
                                                  \/ dial[c].st = "offer" /\ dial'[c].st = "err"
  BY DEF DialMoves
<1>3. CASE \E c \in Call : dial[c].st = "idle" /\ dial'[c].st # "idle"
  <2>1. PICK c \in Call : dial[c].st = "idle" /\ dial'[c].st # "idle"
    BY <1>3
  <2>2. \A d \in Call : dial'[d].st # dial[d].st => d = c
    BY <2>1 DEF DialMoves
  <2>3. dial'[c].st = "offer"
    BY <1>2, <2>1
  <2>4. AnswerTo(c)' = "none"
    BY <2>3 DEF AnswerTo
  <2>5. Answers' = [Answers EXCEPT ![c] = "none"]
    BY <2>2, <2>4, OneAnswer
  <2>6. Answers[c] = "idle"
    BY <2>1, AnswerFacts
  <2>7. Sents' = Sents
    BY <1>1 DEF Sents
  <2>8. Service!Ask(c)
    BY <1>1, <2>5, <2>6, <2>7 DEF Service!Ask, Answers, AnswerTo, Sents
  <2> QED
    BY <2>8, ServiceSteps
<1>4. CASE \A c \in Call : dial[c].st = "idle" => dial'[c].st = "idle"
  <2>1. \A c \in Call : \/ dial'[c].st = dial[c].st
                        \/ dial[c].st = "offer" /\ dial'[c].st = "err"
    BY <1>2, <1>4
  <2> QED
    BY <1>1, <2>1, ServiceFails
<1> QED
  BY <1>3, <1>4

(* A connection is taken from the accept channel.                          *)
LEMMA ServiceAccept ==
  ASSUME Types, Types', AcceptMoves
  PROVE  Service!Next
<1>1. PICK s \in Side :
        /\ accept[s] # <<>>
        /\ held'[s] = held[s] \union {Head(accept[s])} /\ accept'[s] = Tail(accept[s])
        /\ held'[Peer(s)] = held[Peer(s)] /\ accept'[Peer(s)] = accept[Peer(s)]
  BY DEF AcceptMoves
<1>2. accept \in [Side -> Seq(Id)] /\ accept' \in [Side -> Seq(Id)]
  BY DEF Types
<1>3. held \in [Side -> SUBSET Id] /\ held' \in [Side -> SUBSET Id]
  BY DEF Types
<1>4. accept' = [accept EXCEPT ![s] = Tail(@)]
  <2>1. \A r \in Side : accept'[r] = [accept EXCEPT ![s] = Tail(@)][r]
    BY <1>1, <1>2, SideFacts
  <2> QED
    BY <1>2, <2>1
<1>5. held' = [held EXCEPT ![s] = @ \union {Head(accept[s])}]
  <2>1. \A r \in Side : held'[r] = [held EXCEPT ![s] = @ \union {Head(accept[s])}][r]
    BY <1>1, <1>3, SideFacts
  <2> QED
    BY <1>3, <2>1
<1>6. dial' = dial /\ writer' = writer /\ rcvd' = rcvd
  BY DEF AcceptMoves
<1>7. Answers' = Answers /\ Sents' = Sents
  BY <1>6 DEF Answers, AnswerTo, Sents
<1>8. Service!Accept(s)
  BY <1>1, <1>4, <1>5, <1>6, <1>7 DEF Service!Accept, Answers, AnswerTo, Sents
<1> QED
  BY <1>8, ServiceSteps

(* A message is written: a payload is put on a connection that the program *)
(* of the side has.                                                        *)
LEMMA ServiceWrites ==
  ASSUME Types, Types', Writing, Families, NEW s \in Side, Writes(s)
  PROVE  Service!Next
<1>1. dial' = dial /\ accept' = accept /\ held' = held /\ rcvd' = rcvd
  BY DEF Writes
<1>2. \A r \in Side, j \in Id :
        IF busy[s].then = "payload" /\ r = s /\ j = busy[s].m.id
        THEN writer'[r][j].st = "idle" /\ writer'[r][j].n = writer[r][j].n + 1
        ELSE writer'[r][j] = writer[r][j]
  BY DEF Writes
<1>3. CASE busy[s].then # "payload"
  <2>1. \A r \in Side, j \in Id : writer'[r][j].n = writer[r][j].n
    BY <1>2, <1>3
  <2> QED
    BY <1>1, <2>1, ServiceFails
<1>4. CASE busy[s].then = "payload"
  <2>1. PICK i \in Id : i = busy[s].m.id
    <3>1. busy[s] \in Busy
      BY DEF Types
    <3> QED
      BY <3>1 DEF Busy, Message
  <2>2. writer[s][i].st = "wait"
    BY <1>4, <2>1 DEF Writing, WritingOf
  <2>3. i \in held[s]
    BY <2>2 DEF Families, FamiliesOf
  <2>4. /\ writer'[s][i].n = writer[s][i].n + 1
        /\ \A r \in Side, j \in Id : r # s \/ j # i => writer'[r][j].n = writer[r][j].n
    BY <1>2, <1>4, <2>1
  <2>5. Sents' = [Sents EXCEPT ![s][i] = @ + 1]
    <3>1. \A r \in Side : /\ Sents[r] = [j \in Id |-> writer[r][j].n]
                          /\ Sents'[r] = [j \in Id |-> writer'[r][j].n]
      BY DEF Sents
    <3>2. Sents'[s] = [Sents[s] EXCEPT ![i] = @ + 1]
      <4>1. \A j \in Id : [j1 \in Id |-> writer'[s][j1].n][j]
                             = [[j1 \in Id |-> writer[s][j1].n] EXCEPT ![i] = @ + 1][j]
        BY <2>4
      <4>2. [j1 \in Id |-> writer'[s][j1].n]
              = [[j1 \in Id |-> writer[s][j1].n] EXCEPT ![i] = @ + 1]
        BY <4>1
      <4> QED
        BY <3>1, <4>2
    <3>3. ASSUME NEW r \in Side, r # s
          PROVE  Sents'[r] = Sents[r]
      <4>1. \A j \in Id : writer'[r][j].n = writer[r][j].n
        BY <2>4, <3>3
      <4>2. [j \in Id |-> writer'[r][j].n] = [j \in Id |-> writer[r][j].n]
        BY <4>1
      <4> QED
        BY <3>1, <4>2
    <3>4. Sents = [r \in Side |-> Sents[r]] /\ Sents' = [r \in Side |-> Sents'[r]]
      BY DEF Sents
    <3> QED
      BY <3>2, <3>3, <3>4
  <2>6. Answers' = Answers
    BY <1>1 DEF Answers, AnswerTo
  <2>7. Service!Put(s, i)
    BY <1>1, <2>3, <2>5, <2>6 DEF Service!Put, Answers, AnswerTo, Sents
  <2> QED
    BY <2>7, ServiceSteps
<1> QED
  BY <1>3, <1>4

(* A payload is read: the next one of those the peer has put.              *)
LEMMA ServiceReads ==
  ASSUME Types, Types', Order, NEW s \in Side, NEW i \in Id, Reads(s, i)
  PROVE  Service!Next
<1>1. dial' = dial /\ accept' = accept /\ held' = held /\ writer' = writer
  BY DEF Reads
<1>2. /\ i \in held[s] /\ readB[s][i] # <<>>
      /\ rcvd'[s][i] = Append(rcvd[s][i], Head(readB[s][i]))
      /\ \A r \in Side, j \in Id : r # s \/ j # i => rcvd'[r][j] = rcvd[r][j]
  BY DEF Reads
<1>3. /\ readB[s][i] \in Seq(Nat) /\ Len(readB[s][i]) \in Nat
      /\ rcvd[s][i] \in Seq(Nat) /\ Len(rcvd[s][i]) \in Nat
      /\ Peer(s) \in Side /\ writer[Peer(s)][i].n \in Nat
  BY GotType, SideFacts
<1>4. Len(readB[s][i]) > 0 /\ Head(readB[s][i]) = readB[s][i][1]
  BY <1>2, <1>3, TailFacts
<1>5. Counted(s, i)
  BY DEF Order, OrderOf
<1>6. Head(readB[s][i]) = Len(rcvd[s][i]) + 1
  <2>1. 1 \in 1 .. Len(readB[s][i])
    BY <1>3, <1>4
  <2> QED
    BY <1>4, <1>5, <2>1 DEF Counted
<1>7. Len(rcvd[s][i]) < writer[Peer(s)][i].n
  <2>1. \A a, b, c \in Nat : b > 0 /\ a + b <= c => a < c
    OBVIOUS
  <2>2. Len(rcvd[s][i]) + Len(readB[s][i]) <= writer[Peer(s)][i].n
    BY <1>5 DEF Counted, Got
  <2>3. Len(rcvd[s][i]) \in Nat /\ Len(readB[s][i]) \in Nat /\ writer[Peer(s)][i].n \in Nat
    BY <1>3
  <2> QED
    BY <1>4, <2>1, <2>2, <2>3
<1>8. rcvd' = [rcvd EXCEPT ![s][i] = Append(@, Len(@) + 1)]
  <2>1. /\ rcvd \in [Side -> [Id -> Seq(Nat)]]
        /\ rcvd' \in [Side -> [Id -> Seq(Nat)]]
    BY DEF Types
  <2>2. rcvd'[s][i] = Append(rcvd[s][i], Len(rcvd[s][i]) + 1)
    BY <1>2, <1>6
  <2>3. \A r \in Side, j \in Id : r # s \/ j # i => rcvd'[r][j] = rcvd[r][j]
    BY <1>2
  <2>4. ASSUME NEW r \in Side, r # s
        PROVE  rcvd'[r] = rcvd[r]
    <3>1. rcvd[r] \in [Id -> Seq(Nat)] /\ rcvd'[r] \in [Id -> Seq(Nat)]
      BY <2>1
    <3>2. \A j \in Id : rcvd'[r][j] = rcvd[r][j]
      BY <2>3, <2>4
    <3> QED
      BY <3>1, <3>2
  <2>5. rcvd'[s] = [rcvd[s] EXCEPT ![i] = Append(@, Len(@) + 1)]
    <3> DEFINE e == Append(rcvd[s][i], Len(rcvd[s][i]) + 1)
    <3>1. rcvd[s] \in [Id -> Seq(Nat)] /\ rcvd'[s] \in [Id -> Seq(Nat)]
      BY <2>1
    <3>2. rcvd'[s][i] = e /\ \A j \in Id : j # i => rcvd'[s][j] = rcvd[s][j]
      BY <2>2, <2>3
    <3> HIDE DEF e
    <3>3. rcvd'[s] = [rcvd[s] EXCEPT ![i] = e]
      BY <3>1, <3>2
    <3> QED
      BY <3>3 DEF e
  <2> QED
    BY <2>1, <2>4, <2>5
<1>9. Answers' = Answers /\ Sents' = Sents
  BY <1>1 DEF Answers, AnswerTo, Sents
<1>10. Sents[Peer(s)][i] = writer[Peer(s)][i].n
  BY <1>3 DEF Sents
<1>11. Len(rcvd[s][i]) < Sents[Peer(s)][i]
  BY <1>7, <1>10
<1>12. Service!Peer(s) = Peer(s)
  BY ServiceMapping
<1>13. Service!Get(s, i)
  BY <1>1, <1>2, <1>8, <1>9, <1>11, <1>12 DEF Service!Get, Answers, AnswerTo, Sents
<1> QED
  BY <1>13, ServiceSteps

(* acceptDial queues a connection that the peer's program asked for.       *)
LEMMA ServiceQueues ==
  ASSUME Types, Types', Messages, NEW s \in Side, NEW i \in Id, Queues(s, i)
  PROVE  Service!Next
<1>1. dial' = dial /\ writer' = writer /\ held' = held /\ rcvd' = rcvd
  BY DEF Queues
<1>2. Accepting(s, i) /\ accept'[s] = Append(accept[s], i) /\ accept'[Peer(s)] = accept[Peer(s)]
  BY DEF Queues, Accepting
<1>3. accept \in [Side -> Seq(Id)] /\ accept' \in [Side -> Seq(Id)]
  BY DEF Types
<1>4. accept' = [accept EXCEPT ![s] = Append(@, i)]
  <2>1. \A r \in Side : accept'[r] = [accept EXCEPT ![s] = Append(@, i)][r]
    BY <1>2, <1>3, SideFacts
  <2> QED
    BY <1>3, <2>1
<1>5. Unanswered(Peer(s), i)
  <2>1. Accepting(Peer(Peer(s)), i) /\ Peer(s) \in Side
    BY <1>2, SideFacts
  <2> QED
    BY <2>1 DEF Messages, MessagesOf
<1>6. PICK c \in Call : Caller(c) = Peer(s) /\ dial[c].st \in {"wait", "err"}
  BY <1>5 DEF Unanswered
<1>7. Answers[c] \in {"none", "error"}
  BY <1>6, AnswerFacts
<1>8. \A r \in Side : i \notin held[r] \union Queued(r)
  BY <1>5, SideFacts DEF Unanswered, Children
<1>9. Answers' = Answers /\ Sents' = Sents
  BY <1>1 DEF Answers, AnswerTo, Sents
<1>10. /\ \E d \in Call : Caller(d) = Peer(s) /\ Answers[d] \in {"none", "error"}
  BY <1>6, <1>7
<1>11. Service!Enqueue(s, i)
  BY <1>1, <1>4, <1>8, <1>9, <1>10, ServiceMapping
     DEF Service!Enqueue, Answers, AnswerTo, Sents
<1> QED
  BY <1>11, ServiceSteps

(* The answer of the peer, which has queued the connection, arrives.       *)
LEMMA ServiceConnects ==
  ASSUME Types, Types', Calls, Families, Messages,
         NEW s \in Side, NEW i \in Id, NEW C \in SUBSET Call, Connects(s, i, C)
  PROVE  Service!Next
<1>1. /\ accept' = accept /\ rcvd' = rcvd /\ writer' = writer
      /\ held'[s] = held[s] \union {i} /\ held'[Peer(s)] = held[Peer(s)]
  BY DEF Connects
<1>2. /\ C = DialingAs(s, i) /\ C # {}
      /\ \A d \in Call : dial'[d].st = IF d \in C THEN "ok" ELSE dial[d].st
  BY DEF Connects
<1>3. \A d \in C : /\ d \in dialing[s] /\ dial[d].id = i /\ Caller(d) = s
                   /\ dial[d].st \in {"wait", "err"}
  BY <1>2 DEF DialingAs, Calls
<1>4. PICK c \in Call : c \in C
  BY <1>2
<1>5. \A d \in C : d = c
  <2>1. \A d \in C : Numbered(d)
    BY <1>3 DEF Numbered
  <2> QED
    BY <1>3, <1>4, <2>1 DEF Calls
<1>6. Peer(s) \in Side /\ Peer(Peer(s)) = s
  BY SideFacts
<1>7. i \in Children(Peer(s))
  <2>1. Wired(Peer(s), "dialAck", i)
    <3>1. /\ Takes(s, 1, {"none", "dial", "errChild", "close", "payload"})
          /\ wire[Peer(s)][1].t = "dialAck" /\ wire[Peer(s)][1].id = i
      BY DEF Connects
    <3>2. 1 \in 1 .. Len(wire[Peer(s)])
      <4>1. wire[Peer(s)] \in Seq(Message)
        BY <1>6 DEF Types
      <4>2. Len(wire[Peer(s)]) \in Nat
        BY <4>1
      <4>3. Cut(Peer(s), 1)
        BY <3>1 DEF Takes
      <4> QED
        BY <4>2, <4>3 DEF Cut
    <3> QED
      BY <3>1, <3>2 DEF Wired
  <2> QED
    BY <1>6, <2>1 DEF Messages, MessagesOf, Sent
<1>8. dial[c].st = "wait"
  <2>1. c \in dialing[s] /\ dial[c].id = i /\ dial[c].st \in {"wait", "err"}
    BY <1>3, <1>4
  <2>2. dial[c].st # "err"
    BY <1>7, <2>1 DEF Messages, MessagesOf, Refused
  <2> QED
    BY <2>1, <2>2
<1>9. i \notin held[s] /\ i \in held[Peer(s)] \union Queued(Peer(s))
  <2>1. i \notin Children(s)
    BY <1>3, <1>4 DEF Families, FamiliesOf
  <2> QED
    BY <1>7, <2>1 DEF Children
<1>10. held' = [held EXCEPT ![s] = @ \union {i}]
  <2>1. held \in [Side -> SUBSET Id] /\ held' \in [Side -> SUBSET Id]
    BY DEF Types
  <2>2. \A r \in Side : held'[r] = [held EXCEPT ![s] = @ \union {i}][r]
    BY <1>1, <2>1, SideFacts
  <2> QED
    BY <2>1, <2>2
<1>11. Answers' = [Answers EXCEPT ![c] = "conn"] /\ Answers[c] = "none"
  <2>1. dial'[c].st = "ok"
    BY <1>2, <1>4
  <2>2. AnswerTo(c)' = "conn"
    BY <2>1 DEF AnswerTo
  <2>3. \A d \in Call \ {c} : dial'[d].st = dial[d].st
    BY <1>2, <1>5
  <2> QED
    BY <1>8, <2>2, <2>3, OneAnswer, AnswerFacts
<1>12. Sents' = Sents
  BY <1>1 DEF Sents
<1>13. Service!Caller(c) = s /\ Service!Peer(s) = Peer(s) /\ Service!Queued(Peer(s)) = Queued(Peer(s))
  BY <1>3, <1>4, ServiceMapping
<1>14. Service!Connected(c, i)
  BY <1>1, <1>9, <1>10, <1>11, <1>12, <1>13
     DEF Service!Connected, Answers, AnswerTo, Sents
<1> QED
  BY <1>14, ServiceSteps

(* Every step of the Muxes is a step of the service, or none.              *)
LEMMA ServiceStep == IInv /\ [Next]_vars => [Service!Next]_(Service!vars)
<1> SUFFICES ASSUME IInv, Next PROVE Service!Next
  <2>1. ASSUME UNCHANGED vars
        PROVE  UNCHANGED Service!vars
    BY <2>1 DEF vars, Service!vars
  <2> QED
    BY <2>1
<1>1. Types /\ Numbers /\ Writing /\ Calls /\ Families /\ Messages /\ Order
  BY DEF IInv
<1>2. Types'
  <2>1. [Next]_vars
    OBVIOUS
  <2> QED
    BY <1>1, <2>1, TypesStep
<1>3. Moves
  BY <1>1, <1>2, NextMoves
<1>4. CASE \/ WriterMoves \/ ClosedMoves \/ LoopMoves
           \/ \E s \in Side :
                \/ Ends(s) \/ FailsDials(s) \/ Fails(s)
                \/ \E c \in Call : Dials(s, c)
                \/ \E i \in Id :
                     \/ Offers(s, i) \/ Considers(s, i) \/ Delivers(s, i)
                     \/ \E d \in {0, 1} : Unroutes(s, i, d) \/ Replies(s, i, d)
                     \/ \E C \in SUBSET Call : Refuses(s, i, C)
  BY <1>1, <1>2, <1>4, ServiceQuiet
<1>5. CASE DialMoves \/ AcceptMoves
  BY <1>1, <1>2, <1>5, ServiceDial, ServiceAccept
<1>6. ASSUME NEW s \in Side, Writes(s)
      PROVE  Service!Next
  BY <1>1, <1>2, <1>6, ServiceWrites
<1>7. ASSUME NEW s \in Side, NEW i \in Id, Reads(s, i) \/ Queues(s, i)
      PROVE  Service!Next
  BY <1>1, <1>2, <1>7, ServiceReads, ServiceQueues
<1>8. ASSUME NEW s \in Side, NEW i \in Id, NEW C \in SUBSET Call, Connects(s, i, C)
      PROVE  Service!Next
  BY <1>1, <1>2, <1>8, ServiceConnects
<1> QED
  BY <1>3, <1>4, <1>5, <1>6, <1>7, <1>8 DEF Moves

(* Two joined Muxes implement MuxService: a dial is answered once and only *)
(* gets a connection that the peer has queued for AcceptContext, and what  *)
(* is read from a connection is what the peer wrote to it, in order, none  *)
(* twice and none skipped - for any calls, capacities and timeouts.        *)
THEOREM ServiceImplemented == Spec => ImplementsService
<1>1. Init => Service!Init
  <2> SUFFICES ASSUME Init PROVE Service!Init
    OBVIOUS
  <2>1. /\ dial = [c \in Call |-> [st |-> "idle", id |-> 0, expired |-> FALSE]]
        /\ accept = [s \in Side |-> <<>>] /\ held = [s \in Side |-> {}]
        /\ rcvd = [s \in Side |-> [i \in Id |-> <<>>]]
        /\ writer = [s \in Side |-> [i \in Id |-> [st |-> "idle", n |-> 0]]]
    BY DEF Init
  <2>2. Answers = [c \in Call |-> "idle"]
    BY <2>1 DEF Answers, AnswerTo
  <2>3. Sents = [s \in Side |-> [i \in Id |-> 0]]
    BY <2>1 DEF Sents
  <2>4. Service!Call = Call /\ Service!Side = Side
    BY ServiceMapping
  <2> QED
    BY <2>1, <2>2, <2>3, <2>4 DEF Service!Init, Answers, AnswerTo, Sents
<1> QED
  BY <1>1, ServiceStep, Invariant, PTL DEF Spec, ImplementsService, Service!Spec
=============================================================================
