---------------------------- MODULE AttachProofs ----------------------------
(***************************************************************************)
(* Proofs about Attach, for any number of attachments, commands and shells *)
(* and any capacity of the channels.                                       *)
(*                                                                         *)
(* LockHeld is inductive only together with what a goroutine of Attach may *)
(* be: it exists once its Attach has returned, so that the Return that     *)
(* starts it cannot restart a detach that is under way (Started).          *)
(*                                                                         *)
(* NothingInFlight is about acknowledgements that nobody names. While no   *)
(* command was interrupted, an event in a channel is the one of the call   *)
(* that has the lock, and the only one there (Labelled, Carried); so the   *)
(* subscribers it is still to be sent to, those that have it and those     *)
(* that answered are not more than were counted (Tallied), and none waits  *)
(* when the call returns.                                                  *)
(***************************************************************************)
EXTENDS Attach, FiniteSetTheorems, TLAPS

\* The types of the state that decides who holds Ctl.rwMu.
CtlType ==
  /\ lock \in Callers \cup {Nobody}
  /\ current \in Attachments \cup {NoProcess}
  /\ mon \in [Attachments -> {"off", "watch", "sending", "exited", "detached"}]
  /\ pc \in [Threads -> {"idle", "armed", "close", "send", "done"}]

\* The goroutine of Attach runs only when Attach has returned.
Started ==
  \A a \in Attachments : pc[<<"auto", a>>] # "idle" => pc[<<"attach", a>>] = "done"

IInv == CtlType /\ LockHeld /\ Started /\ OnlyCurrentWatched

\* The calls that hold Ctl.rwMu are threads, and a report is none of them.
LEMMA ThreadKinds ==
  /\ Callers \subseteq Threads
  /\ Nobody \notin Threads
  /\ \A a \in Attachments :
       /\ <<"attach", a>> \in Callers
       /\ <<"auto", a>> \in Callers
       /\ <<"exit", a>> \in Threads \ Callers
       /\ <<"attach", a>> # <<"auto", a>>
  /\ \A a, b \in Attachments : <<"auto", a>> = <<"auto", b>> => a = b
  BY NobodyAssumption DEF Callers, Threads, Commands, Detaching

\* Before the first call the invariant holds.
LEMMA InitInv == Init => IInv
<1> SUFFICES ASSUME Init PROVE IInv
  OBVIOUS
<1>1. /\ lock = Nobody /\ current = NoProcess
      /\ mon = [a \in Attachments |-> "off"]
      /\ pc = [t \in Threads |-> "idle"]
  BY DEF Init
<1>2. CtlType
  BY <1>1 DEF CtlType
<1>3. LockHeld
  BY <1>1, ThreadKinds DEF LockHeld
<1>4. Started
  BY <1>1, ThreadKinds DEF Started
<1>5. OnlyCurrentWatched
  BY <1>1 DEF OnlyCurrentWatched
<1> QED
  BY <1>2, <1>3, <1>4, <1>5 DEF IInv

\* Steps that touch none of Ctl and of how far the calls are.
LEMMA QuietSteps == IInv /\ UNCHANGED <<ctlVars, pc>> => IInv'
  BY DEF IInv, CtlType, LockHeld, Started, OnlyCurrentWatched, ctlVars

\* Attach keeps the invariant.
LEMMA AttachInv ==
  ASSUME IInv, NEW a \in Attachments, Attach(a)
  PROVE  IInv'
<1> DEFINE t == <<"attach", a>>
<1>1. /\ t \in Callers /\ t \in Threads
      /\ lock' = t /\ current' = a
      /\ mon' = [mon EXCEPT ![a] = "watch"]
      /\ pc' = [pc EXCEPT ![t] = "send"]
      /\ lock = Nobody /\ pc[t] = "idle"
      /\ current # NoProcess => mon[current] = "exited"
  BY ThreadKinds DEF Attach, MayAttach, Publish
<1>2. CtlType'
  BY <1>1 DEF IInv, CtlType
<1>3. LockHeld'
  BY <1>1, ThreadKinds DEF IInv, CtlType, LockHeld
<1>4. Started'
  BY <1>1, ThreadKinds DEF IInv, CtlType, Started
<1>5. OnlyCurrentWatched'
  BY <1>1, NamesAssumption DEF IInv, CtlType, OnlyCurrentWatched
<1> QED
  BY <1>2, <1>3, <1>4, <1>5 DEF IInv

\* The return of Attach and of Detach keeps the invariant.
LEMMA ReturnInv ==
  ASSUME IInv, NEW t \in Threads, Return(t)
  PROVE  IInv'
<1>1. /\ t \in Callers /\ pc[t] = "send" /\ lock = t
      /\ lock' = Nobody /\ current' = current /\ mon' = mon
  BY DEF Return, IInv, LockHeld
<1>2. CASE t[1] = "attach"
  <2>1. PICK a \in Attachments : t = <<"attach", a>>
    BY <1>1, <1>2 DEF Callers, Commands, Detaching
  <2>2. /\ pc' = [pc EXCEPT ![t] = "done", ![<<"auto", a>>] = "armed"]
        /\ pc[<<"auto", a>>] = "idle"
    BY <1>1, <1>2, <2>1, ThreadKinds DEF Return, IInv, Started
  <2>3. CtlType'
    BY <1>1, <2>2 DEF IInv, CtlType
  <2>4. LockHeld'
    BY <1>1, <2>1, <2>2, ThreadKinds DEF IInv, CtlType, LockHeld
  <2>5. Started'
    BY <1>1, <2>1, <2>2, ThreadKinds DEF IInv, CtlType, Started
  <2>6. OnlyCurrentWatched'
    BY <1>1 DEF IInv, OnlyCurrentWatched
  <2> QED
    BY <2>3, <2>4, <2>5, <2>6 DEF IInv
<1>3. CASE t[1] # "attach"
  <2>1. pc' = [pc EXCEPT ![t] = "done"] /\ \A a \in Attachments : t # <<"attach", a>>
    BY <1>1, <1>3 DEF Return
  <2>2. CtlType'
    BY <1>1, <2>1 DEF IInv, CtlType
  <2>3. LockHeld'
    BY <1>1, <2>1, ThreadKinds DEF IInv, CtlType, LockHeld
  <2>4. Started'
    BY <1>1, <2>1, ThreadKinds DEF IInv, CtlType, Started
  <2>5. OnlyCurrentWatched'
    BY <1>1 DEF IInv, OnlyCurrentWatched
  <2> QED
    BY <2>2, <2>3, <2>4, <2>5 DEF IInv
<1> QED
  BY <1>2, <1>3

\* A detach that takes Ctl.rwMu, or finds nothing attached, keeps the invariant.
LEMMA DetachInv ==
  ASSUME IInv, NEW t \in Detaching, Detach(t)
  PROVE  IInv'
<1>1. /\ t \in Callers /\ t \in Threads
      /\ pc[t] \in {"idle", "armed"} /\ lock = Nobody
      /\ current' = current /\ mon' = mon
      /\ t[1] = "auto" => pc[t] = "armed"
      /\ \A a \in Attachments : t # <<"attach", a>>
  BY ThreadKinds DEF Detach, WantsDetach, Detaching, Callers
<1>2. \/ lock' = Nobody /\ pc' = [pc EXCEPT ![t] = "done"]
      \/ lock' = t /\ pc' = [pc EXCEPT ![t] = "close"]
  BY DEF Detach, Holds
<1>3. CtlType'
  BY <1>1, <1>2 DEF IInv, CtlType
<1>4. LockHeld'
  <2>1. CASE lock' = Nobody /\ pc' = [pc EXCEPT ![t] = "done"]
    BY <1>1, <2>1, ThreadKinds DEF IInv, CtlType, LockHeld
  <2>2. CASE lock' = t /\ pc' = [pc EXCEPT ![t] = "close"]
    BY <1>1, <2>2, ThreadKinds DEF IInv, CtlType, LockHeld
  <2> QED
    BY <1>2, <2>1, <2>2
<1>5. Started'
  <2> SUFFICES ASSUME NEW a \in Attachments, pc'[<<"auto", a>>] # "idle"
               PROVE  pc'[<<"attach", a>>] = "done"
    BY DEF Started
  <2>1. /\ <<"attach", a>> \in Threads /\ <<"auto", a>> \in Threads
        /\ pc'[<<"attach", a>>] = pc[<<"attach", a>>]
    BY <1>1, <1>2, ThreadKinds DEF IInv, CtlType
  <2>2. pc[<<"auto", a>>] # "idle"
    BY <1>1, <1>2, <2>1 DEF IInv, CtlType
  <2> QED
    BY <2>1, <2>2 DEF IInv, Started
<1>6. OnlyCurrentWatched'
  BY <1>1 DEF IInv, OnlyCurrentWatched
<1> QED
  BY <1>3, <1>4, <1>5, <1>6 DEF IInv

\* Closing the attachment keeps the invariant: the monitor is silenced or has
\* reported before Ctl.current is cleared.
LEMMA DetachCloseInv ==
  ASSUME IInv, NEW t \in Detaching, DetachClose(t)
  PROVE  IInv'
<1>1. /\ t \in Callers /\ t \in Threads
      /\ pc[t] = "close" /\ mon[current] # "sending"
      /\ mon' = IF mon[current] = "watch" THEN [mon EXCEPT ![current] = "detached"] ELSE mon
      /\ current' = NoProcess /\ lock' = lock
      /\ pc' = [pc EXCEPT ![t] = "send"]
  BY ThreadKinds DEF DetachClose, Silenced, Publish, Callers
<1>2. CtlType'
  BY <1>1 DEF IInv, CtlType
<1>3. LockHeld'
  BY <1>1, ThreadKinds DEF IInv, CtlType, LockHeld
<1>4. Started'
  BY <1>1, ThreadKinds DEF IInv, CtlType, Started
<1>5. OnlyCurrentWatched'
  BY <1>1 DEF IInv, CtlType, OnlyCurrentWatched
<1> QED
  BY <1>2, <1>3, <1>4, <1>5 DEF IInv

\* The steps of an exit monitor and of its goroutine keep the invariant.
LEMMA MonitorInv ==
  ASSUME IInv, NEW a \in Attachments, AutoEnds(a) \/ SetExited(a) \/ ExitSent(a)
  PROVE  IInv'
<1>1. CASE AutoEnds(a)
  <2>1. /\ pc[<<"auto", a>>] = "armed"
        /\ pc' = [pc EXCEPT ![<<"auto", a>>] = "done"]
        /\ lock' = lock /\ current' = current /\ mon' = mon
    BY <1>1 DEF AutoEnds, ctlVars
  <2> QED
    BY <2>1, ThreadKinds DEF IInv, CtlType, LockHeld, Started, OnlyCurrentWatched
<1>2. CASE SetExited(a) \/ ExitSent(a)
  <2> DEFINE t == <<"exit", a>>
  <2>1. /\ t \in Threads \ Callers
        /\ lock' = lock /\ current' = current
        /\ \/ mon[a] = "watch" /\ mon' = [mon EXCEPT ![a] = "sending"]
           \/ mon' = [mon EXCEPT ![a] = "exited"]
        /\ \/ pc' = [pc EXCEPT ![t] = "send"]
           \/ pc' = [pc EXCEPT ![t] = "done"]
    BY <1>2, ThreadKinds DEF SetExited, ExitSent, Publish
  <2>2. CtlType'
    BY <2>1 DEF IInv, CtlType
  <2>3. LockHeld' /\ Started'
    BY <2>1, ThreadKinds DEF IInv, CtlType, LockHeld, Started
  <2>4. OnlyCurrentWatched'
    BY <2>1 DEF IInv, CtlType, OnlyCurrentWatched
  <2> QED
    BY <2>2, <2>3, <2>4 DEF IInv
<1> QED
  BY <1>1, <1>2

\* No step of Ctl, of a monitor, of a publisher or of a shell breaks it.
LEMMA NextInv == IInv /\ [Next]_vars => IInv'
<1> SUFFICES ASSUME IInv, [Next]_vars PROVE IInv'
  OBVIOUS
<1>1. ASSUME NEW a \in Attachments, Attach(a) PROVE IInv'
  BY <1>1, AttachInv
<1>2. ASSUME NEW a \in Attachments, AutoEnds(a) \/ SetExited(a) \/ ExitSent(a) PROVE IInv'
  BY <1>2, MonitorInv
<1>3. ASSUME NEW t \in Detaching, Detach(t) PROVE IInv'
  BY <1>3, DetachInv
<1>4. ASSUME NEW t \in Detaching, DetachClose(t) PROVE IInv'
  BY <1>4, DetachCloseInv
<1>5. ASSUME NEW t \in Threads, Progress(t) PROVE IInv'
  <2>1. CASE Return(t)
    BY <2>1, ReturnInv
  <2>2. ASSUME NEW s \in Shells, Deliver(t, s) \/ PassOver(t, s) PROVE IInv'
    BY <2>2, QuietSteps DEF Deliver, PassOver, ctlVars
  <2> QED
    BY <1>5, <2>1, <2>2 DEF Progress
<1>6. ASSUME NEW t \in Threads, Cancel(t) PROVE IInv'
  BY <1>6, QuietSteps DEF Cancel, ctlVars
<1>7. CASE ShellNext
  <2>1. UNCHANGED <<ctlVars, pc>>
    BY <1>7 DEF ShellNext, InitPrompt, Leave, CloseSession, StopHandling, Join, EndSub,
       Unsub, Handle, sendVars
  <2> QED
    BY <2>1, QuietSteps
<1>8. CASE UNCHANGED vars
  BY <1>8, QuietSteps DEF vars, ctlVars
<1> QED
  BY <1>1, <1>2, <1>3, <1>4, <1>5, <1>6, <1>7, <1>8 DEF Next, CtlNext

\* The invariant holds in every reachable state.
LEMMA Invariant == Spec => []IInv
<1>1. Init => IInv
  BY InitInv
<1>2. IInv /\ [Next]_vars => IInv'
  BY NextInv
<1> QED
  BY <1>1, <1>2, PTL DEF Spec

\* Ctl.rwMu is held by the one call that has begun and not returned
\* (Ctl.Attach, Ctl.Detach).
THEOREM LockIsHeld == Spec => []LockHeld
<1>1. IInv => LockHeld
  BY DEF IInv
<1> QED
  BY <1>1, Invariant, PTL

\* Only the monitor of the attached process can still report an exit
\* (ExitMonitor.SetDetached, Ctl.Attach).
THEOREM OnlyCurrentIsWatched == Spec => []OnlyCurrentWatched
<1>1. IInv => OnlyCurrentWatched
  BY DEF IInv
<1> QED
  BY <1>1, Invariant, PTL

-----------------------------------------------------------------------------
(* The events.                                                             *)

\* The groups of the threads.
LEMMA GroupFacts ==
  /\ \A t \in Threads : Group(t) \in Groups
  /\ \A t \in Callers : Group(t) \in {"attached", "detached"}
  /\ \A t \in Threads \ Callers : Group(t) = "exited"
  /\ \A t \in Threads : Group(t) = "attached" => t[2] \in Attachments
  /\ \A t \in Detaching : Group(t) = "detached"
  /\ \A a \in Attachments : Group(<<"attach", a>>) = "attached" /\ Group(<<"exit", a>>) = "exited"
  BY DEF Group, Groups, Threads, Callers, Commands, Detaching

\* What TypeOK says beyond Ctl and how far the calls are.
EventType ==
  /\ left \in [Threads -> SUBSET Shells]
  /\ want \in [Threads -> Nat]
  /\ acks \in [Threads -> Nat]
  /\ cancelled \in SUBSET Commands
  /\ subs \in [Groups -> SUBSET Shells]
  /\ ended \in SUBSET (Shells \X Groups)
ShellType ==
  /\ shell \in [Shells -> {"start", "joining", "run", "leaving", "left"}]
  /\ closed \in SUBSET Shells
  /\ stopped \in SUBSET closed
  /\ prompt \in [Shells -> Attachments \cup {NoProcess}]
QueueType ==
  /\ queue \in [Shells -> [Groups -> Seq(Threads)]]
  /\ \A s \in Shells, g \in Groups : Len(queue[s][g]) <= QueueSize
Types == CtlType /\ EventType /\ ShellType /\ QueueType

\* That is, all of it.
LEMMA TypesAreType == Types <=> TypeOK
  BY DEF Types, CtlType, EventType, ShellType, QueueType, TypeOK

\* The subscribers of a group are counted.
LEMMA SubsCounted ==
  ASSUME EventType, NEW g \in Groups
  PROVE  subs[g] \in SUBSET Shells /\ Cardinality(subs[g]) \in Nat
  BY SizesAssumption, FS_Subset, FS_CardinalityType DEF EventType

\* Sending starts with every subscriber of the group.
LEMMA PublishTypes ==
  ASSUME EventType, NEW t \in Threads, NEW newPc, Publish(t, newPc)
  PROVE  EventType'
<1>1. Group(t) \in Groups
  BY GroupFacts
<1>2. subs[Group(t)] \in SUBSET Shells /\ Cardinality(subs[Group(t)]) \in Nat
  BY <1>1, SubsCounted
<1> QED
  BY <1>2 DEF Publish, EventType, groupVars

\* Ctl, the monitors and the calls keep the types.
LEMMA CtlTypes ==
  ASSUME Types, CtlNext
  PROVE  EventType' /\ ShellType' /\ QueueType'
<1> USE DEF Types
<1>1. ASSUME NEW a \in Attachments, Attach(a)
      PROVE  EventType' /\ ShellType' /\ QueueType'
  <2>1. EventType'
    <3>1. <<"attach", a>> \in Threads
      BY ThreadKinds
    <3> QED
      BY <1>1, <3>1, PublishTypes DEF Attach
  <2> QED
    BY <1>1, <2>1 DEF Attach, Publish, ShellType, QueueType, shellVars, groupVars
<1>2. ASSUME NEW a \in Attachments, SetExited(a)
      PROVE  EventType' /\ ShellType' /\ QueueType'
  <2>1. EventType'
    <3>1. <<"exit", a>> \in Threads
      BY ThreadKinds
    <3> QED
      BY <1>2, <3>1, PublishTypes DEF SetExited
  <2> QED
    BY <1>2, <2>1 DEF SetExited, Publish, ShellType, QueueType, shellVars, groupVars
<1>3. ASSUME NEW a \in Attachments, AutoEnds(a) \/ ExitSent(a)
      PROVE  EventType' /\ ShellType' /\ QueueType'
  BY <1>3 DEF AutoEnds, ExitSent, EventType, ShellType, QueueType, shellVars, groupVars
<1>4. ASSUME NEW t \in Detaching, Detach(t)
      PROVE  EventType' /\ ShellType' /\ QueueType'
  BY <1>4 DEF Detach, EventType, ShellType, QueueType, shellVars, groupVars
<1>5. ASSUME NEW t \in Detaching, DetachClose(t)
      PROVE  EventType' /\ ShellType' /\ QueueType'
  <2>1. EventType'
    <3>1. t \in Threads
      BY ThreadKinds DEF Callers
    <3> QED
      BY <1>5, <3>1, PublishTypes DEF DetachClose
  <2> QED
    BY <1>5, <2>1 DEF DetachClose, Publish, ShellType, QueueType, shellVars, groupVars
<1>6. ASSUME NEW t \in Threads, Return(t)
      PROVE  EventType' /\ ShellType' /\ QueueType'
  BY <1>6 DEF Return, EventType, ShellType, QueueType, shellVars, groupVars
<1>7. ASSUME NEW t \in Threads, Cancel(t)
      PROVE  EventType' /\ ShellType' /\ QueueType'
  BY <1>7 DEF Cancel, EventType, ShellType, QueueType, shellVars, groupVars
<1>8. ASSUME NEW t \in Threads, NEW s \in Shells, PassOver(t, s)
      PROVE  EventType' /\ ShellType' /\ QueueType'
  BY <1>8 DEF PassOver, EventType, ShellType, QueueType, shellVars, groupVars
<1>9. ASSUME NEW t \in Threads, NEW s \in Shells, Deliver(t, s)
      PROVE  EventType' /\ ShellType' /\ QueueType'
  <2>1. EventType' /\ ShellType'
    BY <1>9 DEF Deliver, EventType, ShellType, shellVars
  <2>2. QueueType'
    <3> DEFINE g == Group(t)
    <3>1. g \in Groups
      BY GroupFacts
    <3>2. queue' = [queue EXCEPT ![s][g] = Append(@, t)] /\ Len(queue[s][g]) < QueueSize
      BY <1>9 DEF Deliver
    <3> HIDE DEF g
    <3>3. queue[s][g] \in Seq(Threads)
      BY <3>1 DEF QueueType
    <3>4. /\ Append(queue[s][g], t) \in Seq(Threads)
          /\ Len(Append(queue[s][g], t)) = Len(queue[s][g]) + 1 /\ Len(queue[s][g]) \in Nat
      BY <3>3
    <3>5. queue' \in [Shells -> [Groups -> Seq(Threads)]]
      BY <3>1, <3>2, <3>4 DEF QueueType
    <3>6. ASSUME NEW r \in Shells, NEW h \in Groups
          PROVE  Len(queue'[r][h]) <= QueueSize
      <4>1. CASE r = s /\ h = g
        <5>1. queue'[r][h] = Append(queue[s][g], t)
          BY <3>1, <3>2, <4>1 DEF QueueType
        <5> QED
          BY <3>2, <3>4, <5>1, SizesAssumption
      <4>2. CASE r # s \/ h # g
        <5>1. queue'[r][h] = queue[r][h]
          BY <3>1, <3>2, <4>2 DEF QueueType
        <5> QED
          BY <5>1 DEF QueueType
      <4> QED
        BY <4>1, <4>2
    <3> QED
      BY <3>5, <3>6 DEF QueueType
  <2> QED
    BY <2>1, <2>2
<1> QED
  BY <1>1, <1>2, <1>3, <1>4, <1>5, <1>6, <1>7, <1>8, <1>9 DEF CtlNext, Progress

\* The head of a queue and what is left of it.
LEMMA QueueFacts ==
  ASSUME QueueType, NEW s \in Shells, NEW g \in Groups, queue[s][g] # <<>>
  PROVE  /\ queue[s][g] \in Seq(Threads)
         /\ Head(queue[s][g]) = queue[s][g][1] /\ Head(queue[s][g]) \in Threads
         /\ Tail(queue[s][g]) \in Seq(Threads)
         /\ Len(queue[s][g]) \in Nat \ {0} /\ Len(Tail(queue[s][g])) = Len(queue[s][g]) - 1
         /\ \A k \in 1 .. Len(queue[s][g]) - 1 : Tail(queue[s][g])[k] = queue[s][g][k + 1]
<1> DEFINE q == queue[s][g]
<1>1. q \in Seq(Threads) /\ q # <<>>
  BY DEF QueueType
<1> HIDE DEF q
<1>2. /\ Head(q) = q[1] /\ Head(q) \in Threads
      /\ Tail(q) \in Seq(Threads)
      /\ Len(q) \in Nat \ {0} /\ Len(Tail(q)) = Len(q) - 1
      /\ \A k \in 1 .. Len(q) - 1 : Tail(q)[k] = q[k + 1]
  BY <1>1
<1> QED
  BY <1>1, <1>2 DEF q

\* An event is answered at most by counting.
LEMMA AckType ==
  ASSUME CtlType, EventType, NEW t \in Threads
  PROVE  Ack(t) \in [Threads -> Nat]
  BY DEF EventType, Ack

\* The shells keep the types.
LEMMA ShellTypes ==
  ASSUME Types, ShellNext
  PROVE  EventType' /\ ShellType' /\ QueueType'
<1> USE DEF Types
<1>1. ASSUME NEW s \in Shells, InitPrompt(s) \/ Leave(s) \/ CloseSession(s) \/ StopHandling(s)
      PROVE  EventType' /\ ShellType' /\ QueueType'
  <2>1. EventType' /\ QueueType'
    BY <1>1 DEF InitPrompt, Leave, CloseSession, StopHandling, EventType, QueueType,
                ctlVars, sendVars, groupVars
  <2>2. CASE InitPrompt(s)
    <3>1. current \in Attachments \cup {NoProcess}
      BY DEF CtlType
    <3> QED
      BY <2>1, <2>2, <3>1 DEF InitPrompt, ShellType
  <2>3. CASE Leave(s) \/ CloseSession(s)
    BY <2>1, <2>3 DEF Leave, CloseSession, ShellType
  <2>4. CASE StopHandling(s)
    BY <2>1, <2>4 DEF StopHandling, ShellType
  <2> QED
    BY <1>1, <2>2, <2>3, <2>4
<1>2. ASSUME NEW s \in Shells, NEW g \in Groups, Join(s, g) \/ Unsub(s, g)
      PROVE  EventType' /\ ShellType' /\ QueueType'
  <2>1. /\ UNCHANGED <<sendVars, closed, stopped, prompt, ended, queue>>
        /\ subs' \in {[subs EXCEPT ![g] = @ \cup {s}], [subs EXCEPT ![g] = @ \ {s}]}
        /\ \E l \in {"run", "joining", "left", "leaving"} : shell' = [shell EXCEPT ![s] = l]
    BY <1>2 DEF Join, Unsub
  <2>2. EventType'
    BY <2>1 DEF EventType, sendVars
  <2>3. ShellType' /\ QueueType'
    BY <2>1 DEF ShellType, QueueType
  <2> QED
    BY <2>2, <2>3
<1>3. ASSUME NEW s \in Shells, NEW g \in Groups, EndSub(s, g)
      PROVE  EventType' /\ ShellType' /\ QueueType'
  BY <1>3 DEF EndSub, EventType, ShellType, QueueType, sendVars, shellVars
<1>4. ASSUME NEW s \in Shells, NEW g \in Groups, Handle(s, g)
      PROVE  EventType' /\ ShellType' /\ QueueType'
  <2> DEFINE h == Head(queue[s][g])
  <2>1. queue[s][g] # <<>> /\ queue' = [queue EXCEPT ![s][g] = Tail(queue[s][g])]
    BY <1>4 DEF Handle
  <2>2. h \in Threads
    BY <2>1, QueueFacts
  <2>3. /\ prompt' = [prompt EXCEPT ![s] = Shown(h)] /\ acks' = Ack(h)
        /\ UNCHANGED <<left, want, cancelled, shell, closed, stopped, subs, ended>>
    BY <1>4 DEF Handle
  <2> HIDE DEF h
  <2>4. EventType'
    BY <2>2, <2>3, AckType DEF EventType
  <2>5. ShellType'
    <3>1. Shown(h) \in Attachments \cup {NoProcess}
      BY <2>2, GroupFacts DEF Shown
    <3> QED
      BY <2>3, <3>1 DEF ShellType
  <2>6. QueueType'
    <3>1. /\ queue' \in [Shells -> [Groups -> Seq(Threads)]]
      BY <2>1, QueueFacts DEF QueueType
    <3>2. ASSUME NEW r \in Shells, NEW f \in Groups
          PROVE  Len(queue'[r][f]) <= QueueSize
      <4>1. CASE r = s /\ f = g
        <5>1. queue'[r][f] = Tail(queue[s][g])
          BY <2>1, <4>1 DEF QueueType
        <5>2. Len(queue[s][g]) \in Nat /\ Len(Tail(queue[s][g])) = Len(queue[s][g]) - 1
          BY <2>1, QueueFacts
        <5>3. Len(queue[s][g]) <= QueueSize
          BY DEF QueueType
        <5> QED
          BY <5>1, <5>2, <5>3, SizesAssumption
      <4>2. CASE r # s \/ f # g
        <5>1. queue'[r][f] = queue[r][f]
          BY <2>1, <4>2 DEF QueueType
        <5> QED
          BY <5>1 DEF QueueType
      <4> QED
        BY <4>1, <4>2
    <3> QED
      BY <3>1, <3>2 DEF QueueType
  <2> QED
    BY <2>4, <2>5, <2>6
<1> QED
  BY <1>1, <1>2, <1>3, <1>4 DEF ShellNext

\* Before the first call.
LEMMA TypesInit == Init => Types
<1> SUFFICES ASSUME Init PROVE Types
  OBVIOUS
<1>1. CtlType
  BY InitInv DEF IInv
<1>2. EventType /\ ShellType
  BY DEF Init, EventType, ShellType
<1>3. QueueType
  BY SizesAssumption DEF Init, QueueType
<1> QED
  BY <1>1, <1>2, <1>3 DEF Types

\* Every step keeps the types.
LEMMA TypesStep == IInv /\ Types /\ [Next]_vars => Types'
<1> SUFFICES ASSUME IInv, Types, [Next]_vars PROVE Types'
  OBVIOUS
<1>1. CtlType'
  BY NextInv DEF IInv
<1>2. CASE UNCHANGED vars
  BY <1>1, <1>2 DEF Types, EventType, ShellType, QueueType, vars
<1> QED
  BY <1>1, <1>2, CtlTypes, ShellTypes DEF Types, Next

\* A channel carries the events of its own group.
Labelled ==
  \A s \in Shells, g \in Groups :
    \A k \in 1 .. Len(queue[s][g]) : Group(queue[s][g][k]) = g

\* While no command has been interrupted, an event in a channel is the one of
\* the call that holds Ctl.rwMu, and the only one.
Busy(s, g) == queue[s][g] # <<>>
Carried ==
  cancelled = {} =>
    \A s \in Shells, g \in {"attached", "detached"} : Busy(s, g) =>
      \E t \in Callers : /\ queue[s][g] = <<t>> /\ Group(t) = g
                         /\ pc[t] = "send" /\ s \notin left[t]

\* Then the subscribers still to be sent to, those that have the event and
\* those that have answered are not more than were counted.
Waiting(t) == {s \in Shells : Busy(s, Group(t))}
Tally(t) == acks[t] + Cardinality(left[t]) + Cardinality(Waiting(t))
Tallied ==
  cancelled = {} =>
    \A t \in Callers : /\ pc[t] = "send" => Tally(t) <= want[t]
                       /\ pc[t] # "send" => acks[t] = 0

Events == Labelled /\ Carried /\ Tallied

\* The numbers in a tally.
LEMMA TallyType ==
  ASSUME EventType, NEW t \in Threads
  PROVE  /\ IsFiniteSet(left[t]) /\ Cardinality(left[t]) \in Nat
         /\ IsFiniteSet(Waiting(t)) /\ Cardinality(Waiting(t)) \in Nat
         /\ acks[t] \in Nat /\ want[t] \in Nat
<1>1. left[t] \in SUBSET Shells /\ Waiting(t) \in SUBSET Shells
  BY DEF EventType, Waiting
<1>2. acks[t] \in Nat /\ want[t] \in Nat
  BY DEF EventType
<1> QED
  BY <1>1, <1>2, SizesAssumption, FS_Subset, FS_CardinalityType

\* Only the holder of Ctl.rwMu has an event on its way.
LEMMA OnlyHolder ==
  ASSUME LockHeld, Carried, cancelled = {}, NEW s \in Shells,
         NEW g \in {"attached", "detached"}, Busy(s, g)
  PROVE  /\ lock \in Callers /\ queue[s][g] = <<lock>> /\ Group(lock) = g
         /\ pc[lock] = "send" /\ s \notin left[lock]
  BY DEF LockHeld, Carried

\* Steps after which the channels and the calls that are sending are the same,
\* or others wait.
LEMMA EventsStay ==
  ASSUME Events, queue' = queue, cancelled' = cancelled,
         \A t \in Callers : /\ pc[t] = "send" <=> pc'[t] = "send"
                            /\ left'[t] = left[t] /\ want'[t] = want[t] /\ acks'[t] = acks[t]
  PROVE  Events'
<1>1. Labelled'
  BY DEF Events, Labelled
<1>2. Carried'
  BY DEF Events, Carried, Busy
<1>3. Tallied'
  <2> SUFFICES ASSUME cancelled' = {}, NEW t \in Callers
               PROVE  /\ pc'[t] = "send" => Tally(t)' <= want'[t]
                      /\ pc'[t] # "send" => acks'[t] = 0
    BY DEF Tallied
  <2>1. Waiting(t)' = Waiting(t)
    BY DEF Waiting, Busy
  <2>2. Tally(t)' = Tally(t)
    BY <2>1 DEF Tally
  <2> QED
    BY <2>2 DEF Events, Tallied
<1> QED
  BY <1>1, <1>2, <1>3 DEF Events

\* A call that starts to send finds the channels of its events empty.
LEMMA EventsPublish ==
  ASSUME IInv, IInv', Types, Events, NEW t \in Callers, NEW newPc,
         Publish(t, newPc), newPc = pc, lock \in {Nobody, t}, pc[t] # "send"
  PROVE  Events'
<1>1. t \in Threads /\ Group(t) \in Groups
  BY ThreadKinds, GroupFacts
<1>2. /\ pc' = [pc EXCEPT ![t] = "send"] /\ left' = [left EXCEPT ![t] = subs[Group(t)]]
      /\ want' = [want EXCEPT ![t] = Cardinality(subs[Group(t)])]
      /\ acks' = acks /\ cancelled' = cancelled /\ queue' = queue
  BY DEF Publish, groupVars
<1>3. ASSUME cancelled = {}, NEW s \in Shells, NEW g \in {"attached", "detached"}
      PROVE  ~Busy(s, g)
  <2>1. lock \in Callers /\ pc[lock] = "send" => lock = t
    BY ThreadKinds
  <2> QED
    BY <1>3, <2>1, OnlyHolder DEF IInv, Events
<1>4. Labelled'
  BY <1>2 DEF Events, Labelled
<1>5. Carried'
  BY <1>2, <1>3 DEF Carried, Busy
<1>6. Tallied'
  <2> SUFFICES ASSUME cancelled = {}, NEW u \in Callers
               PROVE  /\ pc'[u] = "send" => Tally(u)' <= want'[u]
                      /\ pc'[u] # "send" => acks'[u] = 0
    BY <1>2 DEF Tallied
  <2>1. Waiting(u)' = {}
    <3>1. Group(u) \in {"attached", "detached"}
      BY GroupFacts
    <3> QED
      BY <1>2, <1>3, <3>1 DEF Waiting, Busy
  <2>2. CASE u = t
    <3>1. acks[t] = 0
      BY DEF Events, Tallied
    <3>2. left'[t] = subs[Group(t)] /\ want'[t] = Cardinality(subs[Group(t)])
      BY <1>1, <1>2 DEF Types, EventType
    <3>3. pc'[t] = "send"
      BY <1>1, <1>2 DEF Types, CtlType
    <3>4. Cardinality(subs[Group(t)]) \in Nat
      BY <1>1, SubsCounted DEF Types
    <3>5. Tally(t)' = 0 + Cardinality(subs[Group(t)]) + 0
      BY <1>2, <2>1, <2>2, <3>1, <3>2, FS_EmptySet DEF Tally
    <3> QED
      BY <2>2, <3>2, <3>3, <3>4, <3>5
  <2>3. CASE u # t
    <3>1. u \in Threads /\ pc'[u] = pc[u] /\ acks'[u] = acks[u]
      BY <1>2, <2>3, ThreadKinds DEF Types, CtlType
    <3>2. pc[u] # "send"
      BY <2>3, ThreadKinds DEF IInv, LockHeld
    <3> QED
      BY <3>1, <3>2 DEF Events, Tallied
  <2> QED
    BY <2>2, <2>3
<1> QED
  BY <1>4, <1>5, <1>6 DEF Events

\* An event that a report or a call puts into a channel.
LEMMA EventsDeliver ==
  ASSUME IInv, Types, Types', Events, NEW t \in Threads, NEW s \in Shells, Deliver(t, s)
  PROVE  Events'
<1> DEFINE g == Group(t)
<1>1. g \in Groups
  BY GroupFacts
<1>2. /\ pc[t] = "send" /\ s \in left[t]
      /\ queue' = [queue EXCEPT ![s][g] = Append(queue[s][g], t)]
      /\ left' = [left EXCEPT ![t] = left[t] \ {s}]
      /\ pc' = pc /\ want' = want /\ acks' = acks /\ cancelled' = cancelled
  BY DEF Deliver
<1>3. g = "exited" \/ (t \in Callers /\ g \in {"attached", "detached"})
  BY GroupFacts
<1>4. \A u \in Threads : Group(u) = g <=> Group(u) = Group(t)
  OBVIOUS
<1> HIDE DEF g
<1>5. /\ queue'[s][g] = Append(queue[s][g], t)
      /\ \A r \in Shells, h \in Groups : r # s \/ h # g => queue'[r][h] = queue[r][h]
  BY <1>1, <1>2 DEF Types, QueueType
<1>6. /\ queue[s][g] \in Seq(Threads) /\ Len(queue[s][g]) \in Nat
      /\ Len(Append(queue[s][g], t)) = Len(queue[s][g]) + 1
      /\ \A k \in 1 .. Len(queue[s][g]) : Append(queue[s][g], t)[k] = queue[s][g][k]
      /\ Append(queue[s][g], t)[Len(queue[s][g]) + 1] = t
      /\ Append(queue[s][g], t) # <<>>
      /\ queue[s][g] = <<>> => Append(queue[s][g], t) = <<t>>
  <2>1. queue[s][g] \in Seq(Threads)
    BY <1>1 DEF Types, QueueType
  <2>2. \A q \in Seq(Threads) :
          /\ Len(q) \in Nat /\ Len(Append(q, t)) = Len(q) + 1
          /\ \A k \in 1 .. Len(q) : Append(q, t)[k] = q[k]
          /\ Append(q, t)[Len(q) + 1] = t
    OBVIOUS
  <2>3. \A q \in Seq(Threads) : Append(q, t) # <<>>
    <3>1. Len(<<>>) = 0 /\ \A n \in Nat : n + 1 # 0
      OBVIOUS
    <3> QED
      BY <2>2, <3>1
  <2>4. queue[s][g] = <<>> => Append(queue[s][g], t) = <<t>>
    OBVIOUS
  <2> QED
    BY <2>1, <2>2, <2>3, <2>4
<1>7. Labelled'
  <2> SUFFICES ASSUME NEW r \in Shells, NEW h \in Groups, NEW k \in 1 .. Len(queue'[r][h])
               PROVE  Group(queue'[r][h][k]) = h
    BY DEF Labelled
  <2>1. CASE r = s /\ h = g
    <3>1. k \in 1 .. Len(queue[s][g]) \/ k = Len(queue[s][g]) + 1
      BY <1>5, <1>6, <2>1
    <3>2. CASE k \in 1 .. Len(queue[s][g])
      <4>1. Group(queue[s][g][k]) = g
        BY <1>1, <3>2 DEF Events, Labelled
      <4>2. queue'[r][h][k] = queue[s][g][k]
        BY <1>5, <1>6, <2>1, <3>2
      <4> QED
        BY <2>1, <4>1, <4>2
    <3>3. CASE k = Len(queue[s][g]) + 1
      BY <1>5, <1>6, <2>1, <3>3 DEF g
    <3> QED
      BY <3>1, <3>2, <3>3
  <2>2. CASE r # s \/ h # g
    BY <1>5, <2>2 DEF Events, Labelled
  <2> QED
    BY <2>1, <2>2
<1>8. CASE g = "exited"
  <2>1. t \notin Callers
    BY <1>8, GroupFacts DEF g
  <2>2. \A r \in Shells, h \in {"attached", "detached"} : queue'[r][h] = queue[r][h]
    BY <1>5, <1>8 DEF Groups
  <2>3. \A u \in Callers : left'[u] = left[u]
    BY <1>2, <2>1, ThreadKinds DEF Types, EventType
  <2>4. Carried'
    BY <1>2, <2>2, <2>3 DEF Events, Carried, Busy
  <2>5. Tallied'
    <3> SUFFICES ASSUME cancelled' = {}, NEW u \in Callers
                 PROVE  /\ pc'[u] = "send" => Tally(u)' <= want'[u]
                        /\ pc'[u] # "send" => acks'[u] = 0
      BY DEF Tallied
    <3>1. Waiting(u)' = Waiting(u)
      BY <2>2, GroupFacts DEF Waiting, Busy
    <3>2. Tally(u)' = Tally(u)
      BY <1>2, <2>3, <3>1 DEF Tally
    <3> QED
      BY <1>2, <3>2 DEF Events, Tallied
  <2> QED
    BY <1>7, <2>4, <2>5 DEF Events
<1>9. CASE t \in Callers /\ g \in {"attached", "detached"}
  <2>1. lock = t
    BY <1>2, <1>9 DEF IInv, LockHeld
  <2>2. cancelled = {} => ~Busy(s, g)
    BY <1>2, <1>9, <2>1, OnlyHolder DEF IInv, Events
  <2>3. cancelled = {} => queue'[s][g] = <<t>>
    BY <1>5, <1>6, <2>2 DEF Busy
  <2>4. /\ left'[t] = left[t] \ {s}
        /\ \A u \in Callers \ {t} : left'[u] = left[u]
    BY <1>2, ThreadKinds DEF Types, EventType
  <2>5. Carried'
    <3> SUFFICES ASSUME cancelled = {}, NEW r \in Shells, NEW h \in {"attached", "detached"},
                        queue'[r][h] # <<>>
                 PROVE  \E u \in Callers : /\ queue'[r][h] = <<u>> /\ Group(u) = h
                                           /\ pc[u] = "send" /\ r \notin left'[u]
      BY <1>2 DEF Carried, Busy
    <3>1. CASE r = s /\ h = g
      BY <1>2, <1>9, <2>3, <2>4, <3>1 DEF g
    <3>2. CASE r # s \/ h # g
      <4>1. queue'[r][h] = queue[r][h]
        BY <1>5, <3>2 DEF Groups
      <4>2. Busy(r, h)
        BY <4>1 DEF Busy
      <4>3. queue[r][h] = <<t>> /\ Group(t) = h /\ r \notin left[t]
        BY <2>1, <4>2, OnlyHolder DEF IInv, Events
      <4> QED
        BY <1>2, <1>9, <2>4, <4>1, <4>3
    <3> QED
      BY <3>1, <3>2
  <2>6. Tallied'
    <3> SUFFICES ASSUME cancelled = {}, NEW u \in Callers
                 PROVE  /\ pc[u] = "send" => Tally(u)' <= want[u]
                        /\ pc[u] # "send" => acks[u] = 0
      BY <1>2 DEF Tallied
    <3>1. CASE u = t
      <4>1. Waiting(t)' = Waiting(t) \cup {s}
        <5>1. \A r \in Shells \ {s} : queue'[r][g] = queue[r][g]
          BY <1>1, <1>5
        <5>2. queue'[s][g] # <<>>
          BY <1>5, <1>6
        <5>3. /\ Waiting(t) = {r \in Shells : queue[r][g] # <<>>}
              /\ Waiting(t)' = {r \in Shells : queue'[r][g] # <<>>}
          BY DEF Waiting, Busy, g
        <5> QED
          BY <5>1, <5>2, <5>3
      <4>2. s \notin Waiting(t)
        BY <2>2 DEF Waiting, g
      <4>3. /\ IsFiniteSet(left[t]) /\ Cardinality(left[t]) \in Nat
            /\ IsFiniteSet(Waiting(t)) /\ Cardinality(Waiting(t)) \in Nat
            /\ acks[t] \in Nat /\ want[t] \in Nat
        BY TallyType DEF Types
      <4>4. Cardinality(Waiting(t) \cup {s}) = Cardinality(Waiting(t)) + 1
        BY <4>2, <4>3, FS_AddElement
      <4>5. Cardinality(left[t] \ {s}) = Cardinality(left[t]) - 1
        BY <1>2, <4>3, FS_RemoveElement
      <4>6. Tally(t)' = acks[t] + (Cardinality(left[t]) - 1) + (Cardinality(Waiting(t)) + 1)
        BY <1>2, <2>4, <4>1, <4>4, <4>5 DEF Tally
      <4>7. Tally(t)' = Tally(t)
        <5>1. \A a, b, c \in Nat : a + (b - 1) + (c + 1) = a + b + c
          OBVIOUS
        <5> QED
          BY <4>3, <4>6, <5>1 DEF Tally
      <4> QED
        BY <1>2, <3>1, <4>7 DEF Events, Tallied
    <3>2. CASE u # t
      <4>1. pc[u] # "send"
        BY <2>1, <3>2 DEF IInv, LockHeld
      <4> QED
        BY <4>1 DEF Events, Tallied
    <3> QED
      BY <3>1, <3>2
  <2> QED
    BY <1>7, <2>5, <2>6 DEF Events
<1> QED
  BY <1>3, <1>8, <1>9

\* A subscriber that is passed over.
LEMMA EventsPassOver ==
  ASSUME IInv, Types, Types', Events, NEW t \in Threads, NEW s \in Shells, PassOver(t, s)
  PROVE  Events'
<1>1. /\ s \in left[t] /\ left' = [left EXCEPT ![t] = left[t] \ {s}]
      /\ queue' = queue
      /\ pc' = pc /\ want' = want /\ acks' = acks /\ cancelled' = cancelled
  BY DEF PassOver, groupVars
<1>2. \A u \in Threads : left'[u] = IF u = t THEN left[t] \ {s} ELSE left[u]
  BY <1>1 DEF Types, EventType
<1>3. Labelled'
  BY <1>1 DEF Events, Labelled
<1>4. Carried'
  BY <1>1, <1>2, ThreadKinds DEF Events, Carried, Busy
<1>5. Tallied'
  <2> SUFFICES ASSUME cancelled = {}, NEW u \in Callers
               PROVE  /\ pc[u] = "send" => Tally(u)' <= want[u]
                      /\ pc[u] # "send" => acks[u] = 0
    BY <1>1 DEF Tallied
  <2>1. u \in Threads /\ Waiting(u)' = Waiting(u)
    BY <1>1, ThreadKinds DEF Waiting, Busy
  <2>2. /\ IsFiniteSet(left[u]) /\ Cardinality(left[u]) \in Nat
        /\ Cardinality(Waiting(u)) \in Nat
        /\ acks[u] \in Nat /\ want[u] \in Nat
    BY <2>1, TallyType DEF Types
  <2>3. Cardinality(left'[u]) \in Nat /\ Cardinality(left'[u]) <= Cardinality(left[u])
    <3>1. left'[u] \in SUBSET left[u]
      BY <1>2, <2>1
    <3> QED
      BY <2>2, <3>1, FS_Subset, FS_CardinalityType
  <2>4. Tally(u)' <= Tally(u) /\ Tally(u)' \in Nat /\ Tally(u) \in Nat
    <3>1. /\ Tally(u)' = acks[u] + Cardinality(left'[u]) + Cardinality(Waiting(u))
          /\ Tally(u) = acks[u] + Cardinality(left[u]) + Cardinality(Waiting(u))
      BY <1>1, <2>1 DEF Tally
    <3>2. \A a, b, c, d \in Nat : d <= b => /\ a + d + c <= a + b + c
                                            /\ a + d + c \in Nat /\ a + b + c \in Nat
      OBVIOUS
    <3> QED
      BY <2>2, <2>3, <3>1, <3>2
  <2>5. pc[u] = "send" => Tally(u) <= want[u]
    BY DEF Events, Tallied
  <2>6. pc[u] # "send" => acks[u] = 0
    BY DEF Events, Tallied
  <2> QED
    BY <2>2, <2>4, <2>5, <2>6
<1> QED
  BY <1>3, <1>4, <1>5 DEF Events

\* The holder of Ctl.rwMu returns when all have answered: nothing is left.
LEMMA EventsReturn ==
  ASSUME IInv, Types, Types', Events, NEW t \in Threads, Return(t)
  PROVE  Events'
<1>1. /\ t \in Callers /\ pc[t] = "send" /\ Answered(t)
      /\ queue' = queue /\ cancelled' = cancelled
      /\ acks' = [acks EXCEPT ![t] = 0] /\ left' = [left EXCEPT ![t] = {}]
      /\ want' = [want EXCEPT ![t] = 0]
  BY DEF Return, groupVars
<1>2. lock = t
  BY <1>1 DEF IInv, LockHeld
<1>3. ASSUME cancelled = {}
      PROVE  \A s \in Shells, g \in {"attached", "detached"} : ~Busy(s, g)
  <2>1. left[t] = {} /\ acks[t] = want[t]
    BY <1>1, <1>3 DEF Answered
  <2>2. Tally(t) <= want[t]
    BY <1>1, <1>3 DEF Events, Tallied
  <2>3. Cardinality(left[t]) = 0
    BY <2>1, FS_EmptySet
  <2>4. /\ IsFiniteSet(Waiting(t)) /\ Cardinality(Waiting(t)) \in Nat
        /\ acks[t] \in Nat
    BY TallyType DEF Types
  <2>5. Cardinality(Waiting(t)) = 0
    <3>1. \A a, c \in Nat : a + 0 + c <= a => c = 0
      OBVIOUS
    <3>2. acks[t] + 0 + Cardinality(Waiting(t)) <= acks[t]
      BY <2>1, <2>2, <2>3 DEF Tally
    <3> QED
      BY <2>4, <3>1, <3>2
  <2>6. Waiting(t) = {}
    BY <2>4, <2>5, FS_EmptySet
  <2>7. ASSUME NEW s \in Shells, NEW g \in {"attached", "detached"}, Busy(s, g)
        PROVE  FALSE
    <3>1. Group(t) = g
      BY <1>2, <1>3, <2>7, OnlyHolder DEF IInv, Events
    <3> QED
      BY <2>6, <2>7, <3>1 DEF Waiting
  <2> QED
    BY <2>7
<1>4. Labelled'
  BY <1>1 DEF Events, Labelled
<1>5. Carried'
  BY <1>1, <1>3 DEF Carried, Busy
<1>6. Tallied'
  <2> SUFFICES ASSUME cancelled = {}, NEW u \in Callers
               PROVE  pc'[u] # "send" /\ acks'[u] = 0
    BY <1>1 DEF Tallied
  <2>1. u \in Threads
    BY ThreadKinds
  <2>2. pc'[u] # "send"
    <3>1. lock' = Nobody
      BY DEF Return
    <3>2. LockHeld'
      BY ReturnInv DEF IInv
    <3> QED
      BY <3>1, <3>2, <2>1, ThreadKinds DEF LockHeld
  <2>3. CASE u = t
    BY <1>1, <2>1, <2>2, <2>3 DEF Types, EventType
  <2>4. CASE u # t
    <3>1. pc[u] # "send"
      BY <1>2, <2>4 DEF IInv, LockHeld
    <3>2. acks'[u] = acks[u]
      BY <1>1, <2>1, <2>4 DEF Types, EventType
    <3> QED
      BY <2>2, <3>1, <3>2 DEF Events, Tallied
  <2> QED
    BY <2>3, <2>4
<1> QED
  BY <1>4, <1>5, <1>6 DEF Events

\* A shell takes an event and answers it.
LEMMA EventsHandle ==
  ASSUME IInv, Types, Types', Events, NEW s \in Shells, NEW g \in Groups, Handle(s, g)
  PROVE  Events'
<1> DEFINE q == queue[s][g]
           h == Head(q)
<1>1. /\ q # <<>> /\ queue' = [queue EXCEPT ![s][g] = Tail(q)] /\ acks' = Ack(h)
      /\ pc' = pc /\ left' = left /\ want' = want /\ cancelled' = cancelled
  BY DEF Handle
<1>2. /\ h = q[1] /\ h \in Threads /\ Tail(q) \in Seq(Threads)
      /\ Len(q) \in Nat \ {0} /\ Len(Tail(q)) = Len(q) - 1
      /\ \A k \in 1 .. Len(q) - 1 : Tail(q)[k] = q[k + 1]
  BY <1>1, QueueFacts DEF Types
<1>3. /\ queue'[s][g] = Tail(q)
      /\ \A r \in Shells, f \in Groups : r # s \/ f # g => queue'[r][f] = queue[r][f]
  BY <1>1 DEF Types, QueueType
<1>4. Group(h) = g
  <2>1. 1 \in 1 .. Len(q)
    BY <1>2
  <2> QED
    BY <1>2, <2>1 DEF Events, Labelled
<1>5. q = queue[s][g]
  OBVIOUS
<1> HIDE DEF q, h
<1>6. Labelled'
  <2> SUFFICES ASSUME NEW r \in Shells, NEW f \in Groups, NEW k \in 1 .. Len(queue'[r][f])
               PROVE  Group(queue'[r][f][k]) = f
    BY DEF Labelled
  <2>1. CASE r = s /\ f = g
    <3>1. k \in 1 .. Len(q) - 1 /\ k + 1 \in 1 .. Len(q)
      BY <1>2, <1>3, <2>1
    <3>2. Group(q[k + 1]) = g
      BY <1>5, <3>1 DEF Events, Labelled
    <3>3. queue'[r][f][k] = q[k + 1]
      BY <1>2, <1>3, <2>1, <3>1
    <3> QED
      BY <2>1, <3>2, <3>3
  <2>2. CASE r # s \/ f # g
    BY <1>3, <2>2 DEF Events, Labelled
  <2> QED
    BY <2>1, <2>2
<1>7. CASE g = "exited"
  <2>1. acks' = acks
    BY <1>1, <1>4, <1>7 DEF Ack
  <2>2. \A r \in Shells, f \in {"attached", "detached"} : queue'[r][f] = queue[r][f]
    BY <1>3, <1>7 DEF Groups
  <2>3. Carried'
    BY <1>1, <2>2 DEF Events, Carried, Busy
  <2>4. Tallied'
    <3> SUFFICES ASSUME cancelled' = {}, NEW u \in Callers
                 PROVE  /\ pc'[u] = "send" => Tally(u)' <= want'[u]
                        /\ pc'[u] # "send" => acks'[u] = 0
      BY DEF Tallied
    <3>1. Waiting(u)' = Waiting(u)
      BY <2>2, GroupFacts DEF Waiting, Busy
    <3>2. Tally(u)' = Tally(u)
      BY <1>1, <2>1, <3>1 DEF Tally
    <3> QED
      BY <1>1, <2>1, <3>2 DEF Events, Tallied
  <2> QED
    BY <1>6, <2>3, <2>4 DEF Events
<1>8. CASE cancelled # {}
  <2>1. Carried' /\ Tallied'
    BY <1>1, <1>8 DEF Carried, Tallied
  <2> QED
    BY <1>6, <2>1 DEF Events
<1>9. CASE cancelled = {} /\ g \in {"attached", "detached"}
  <2>1. Busy(s, g)
    BY <1>1, <1>5 DEF Busy
  <2>2. /\ lock \in Callers /\ q = <<lock>> /\ pc[lock] = "send" /\ s \notin left[lock]
        /\ Group(lock) = g
    BY <1>5, <1>9, <2>1, OnlyHolder DEF IInv, Events
  <2>3. h = lock
    BY <1>2, <2>2
  <2>4. Tail(q) = <<>>
    <3>1. Tail(<<lock>>) = <<>>
      OBVIOUS
    <3> QED
      BY <2>2, <3>1
  <2>5. ~Busy(s, g)'
    BY <1>3, <2>4 DEF Busy
  <2>6. Carried'
    <3> SUFFICES ASSUME NEW r \in Shells, NEW f \in {"attached", "detached"},
                        queue'[r][f] # <<>>
                 PROVE  \E u \in Callers : /\ queue'[r][f] = <<u>> /\ Group(u) = f
                                           /\ pc[u] = "send" /\ r \notin left[u]
      BY <1>1 DEF Carried, Busy
    <3>1. r # s \/ f # g
      BY <1>3, <2>4
    <3>2. queue'[r][f] = queue[r][f]
      BY <1>3, <3>1 DEF Groups
    <3>3. Busy(r, f)
      BY <3>2 DEF Busy
    <3> QED
      BY <1>9, <3>2, <3>3 DEF Events, Carried
  <2>7. Tallied'
    <3> SUFFICES ASSUME NEW u \in Callers
                 PROVE  /\ pc[u] = "send" => Tally(u)' <= want[u]
                        /\ pc[u] # "send" => acks'[u] = 0
      BY <1>1 DEF Tallied
    <3>0. u \in Threads
      BY ThreadKinds
    <3>1. CASE u = lock
      <4>1. acks'[u] = acks[u] + 1
        BY <1>1, <1>4, <1>9, <2>2, <2>3, <3>0, <3>1 DEF Ack, Types, EventType
      <4>2. Waiting(u)' = Waiting(u) \ {s}
        <5>1. \A r \in Shells \ {s} : queue'[r][g] = queue[r][g]
          BY <1>3
        <5>2. queue'[s][g] = <<>>
          BY <1>3, <2>4
        <5>3. /\ Waiting(u) = {r \in Shells : queue[r][g] # <<>>}
              /\ Waiting(u)' = {r \in Shells : queue'[r][g] # <<>>}
          BY <2>2, <3>1 DEF Waiting, Busy
        <5> QED
          BY <5>1, <5>2, <5>3
      <4>3. s \in Waiting(u)
        BY <2>1, <2>2, <3>1 DEF Waiting
      <4>4. /\ IsFiniteSet(left[u]) /\ Cardinality(left[u]) \in Nat
            /\ IsFiniteSet(Waiting(u)) /\ Cardinality(Waiting(u)) \in Nat
            /\ acks[u] \in Nat /\ want[u] \in Nat
        BY <3>0, TallyType DEF Types
      <4>5. Cardinality(Waiting(u) \ {s}) = Cardinality(Waiting(u)) - 1
        BY <4>3, <4>4, FS_RemoveElement
      <4>6. Tally(u)' = (acks[u] + 1) + Cardinality(left[u]) + (Cardinality(Waiting(u)) - 1)
        BY <1>1, <4>1, <4>2, <4>5 DEF Tally
      <4>7. Tally(u)' = Tally(u)
        <5>1. \A a, b, c \in Nat : (a + 1) + b + (c - 1) = a + b + c
          OBVIOUS
        <5> QED
          BY <4>4, <4>6, <5>1 DEF Tally
      <4>8. Tally(u) <= want[u]
        BY <1>9, <2>2, <3>1 DEF Events, Tallied
      <4> QED
        BY <2>2, <3>1, <4>7, <4>8
    <3>2. CASE u # lock
      <4>1. pc[u] # "send"
        BY <3>2 DEF IInv, LockHeld
      <4>2. acks'[u] = acks[u]
        BY <1>1, <2>3, <3>0, <3>2 DEF Ack, Types, EventType
      <4> QED
        BY <1>9, <4>1, <4>2 DEF Events, Tallied
    <3> QED
      BY <3>1, <3>2
  <2> QED
    BY <1>6, <2>6, <2>7 DEF Events
<1> QED
  BY <1>7, <1>8, <1>9 DEF Groups

\* Before the first call.
LEMMA EventsInit == Init => Events
<1> SUFFICES ASSUME Init PROVE Events
  OBVIOUS
<1>1. /\ \A s \in Shells, g \in Groups : queue[s][g] = <<>>
      /\ \A t \in Callers : acks[t] = 0 /\ pc[t] = "idle"
  BY ThreadKinds DEF Init
<1>2. Labelled
  BY <1>1 DEF Labelled
<1>3. Carried
  BY <1>1 DEF Carried, Busy, Groups
<1>4. Tallied
  BY <1>1 DEF Tallied
<1> QED
  BY <1>2, <1>3, <1>4 DEF Events

\* Every step keeps what is said of the events.
LEMMA EventsStep == IInv /\ Types /\ Events /\ [Next]_vars => Events'
<1> SUFFICES ASSUME IInv, Types, Events, [Next]_vars PROVE Events'
  OBVIOUS
<1>1. IInv' /\ Types'
  BY NextInv, TypesStep
<1>2. ASSUME NEW a \in Attachments, Attach(a) PROVE Events'
  <2> DEFINE t == <<"attach", a>>
  <2>1. t \in Callers /\ Publish(t, pc) /\ lock = Nobody /\ pc[t] = "idle"
    BY <1>2, ThreadKinds DEF Attach, MayAttach
  <2> HIDE DEF t
  <2> QED
    BY <1>1, <2>1, EventsPublish
<1>3. ASSUME NEW t \in Detaching, DetachClose(t) PROVE Events'
  <2>1. t \in Callers /\ Publish(t, pc) /\ pc[t] = "close"
    BY <1>3 DEF DetachClose, Callers
  <2>2. lock = t
    BY <2>1 DEF IInv, LockHeld
  <2> QED
    BY <1>1, <2>1, <2>2, EventsPublish
<1>4. ASSUME NEW a \in Attachments, SetExited(a) PROVE Events'
  <2> DEFINE x == <<"exit", a>>
  <2>1. x \in Threads \ Callers /\ Publish(x, pc)
    BY <1>4, ThreadKinds DEF SetExited
  <2> HIDE DEF x
  <2>2. \A t \in Callers : /\ pc[t] = "send" <=> pc'[t] = "send"
                           /\ left'[t] = left[t] /\ want'[t] = want[t] /\ acks'[t] = acks[t]
    BY <2>1, ThreadKinds DEF Publish, Types, CtlType, EventType
  <2>3. queue' = queue /\ cancelled' = cancelled
    BY <2>1 DEF Publish, groupVars
  <2> QED
    BY <2>2, <2>3, EventsStay
<1>5. ASSUME NEW a \in Attachments, ExitSent(a) \/ AutoEnds(a) PROVE Events'
  <2>1. /\ queue' = queue /\ cancelled' = cancelled /\ left' = left /\ want' = want
        /\ acks' = acks
    BY <1>5 DEF ExitSent, AutoEnds, groupVars
  <2>2. \A t \in Callers : pc[t] = "send" <=> pc'[t] = "send"
    BY <1>5, ThreadKinds DEF ExitSent, AutoEnds, Types, CtlType
  <2> QED
    BY <2>1, <2>2, EventsStay
<1>6. ASSUME NEW t \in Detaching, Detach(t) PROVE Events'
  <2>1. /\ queue' = queue /\ cancelled' = cancelled /\ left' = left /\ want' = want
        /\ acks' = acks
    BY <1>6 DEF Detach, groupVars
  <2>2. pc[t] # "send" /\ \E l \in {"done", "close"} : pc' = [pc EXCEPT ![t] = l]
    BY <1>6 DEF Detach, WantsDetach
  <2>3. \A u \in Callers : pc[u] = "send" <=> pc'[u] = "send"
    BY <2>2, ThreadKinds DEF Types, CtlType
  <2> QED
    BY <2>1, <2>3, EventsStay
<1>7. ASSUME NEW t \in Threads, Cancel(t) PROVE Events'
  <2>1. cancelled' # {} /\ queue' = queue
    BY <1>7 DEF Cancel, groupVars
  <2> QED
    BY <2>1 DEF Events, Labelled, Carried, Tallied
<1>8. ASSUME NEW t \in Threads, Progress(t) PROVE Events'
  BY <1>1, <1>8, EventsDeliver, EventsPassOver, EventsReturn DEF Progress
<1>9. ASSUME NEW s \in Shells, NEW g \in Groups, Handle(s, g) PROVE Events'
  BY <1>1, <1>9, EventsHandle
<1>10. ASSUME UNCHANGED <<pc, left, want, acks, cancelled, queue>> PROVE Events'
  BY <1>10, EventsStay
<1>11. CASE ShellNext
  <2>1. ASSUME NEW s \in Shells, InitPrompt(s) \/ Leave(s) \/ CloseSession(s) \/ StopHandling(s)
        PROVE  Events'
    BY <1>10, <2>1 DEF InitPrompt, Leave, CloseSession, StopHandling, sendVars, groupVars
  <2>2. ASSUME NEW s \in Shells, NEW g \in Groups, Join(s, g) \/ EndSub(s, g) \/ Unsub(s, g)
        PROVE  Events'
    BY <1>10, <2>2 DEF Join, EndSub, Unsub, sendVars
  <2> QED
    BY <1>9, <1>11, <2>1, <2>2 DEF ShellNext
<1>12. CASE UNCHANGED vars
  BY <1>10, <1>12 DEF vars
<1> QED
  BY <1>2, <1>3, <1>4, <1>5, <1>6, <1>7, <1>8, <1>11, <1>12 DEF Next, CtlNext

\* The types and what is said of the events hold in every reachable state.
LEMMA EventsInvariant == Spec => [](Types /\ Events)
<1>1. Init => IInv /\ Types /\ Events
  BY InitInv, TypesInit, EventsInit
<1>2. (IInv /\ Types /\ Events) /\ [Next]_vars => (IInv /\ Types /\ Events)'
  BY NextInv, TypesStep, EventsStep
<1> QED
  BY <1>1, <1>2, PTL DEF Spec

\* The state of Ctl, of the monitors, of the calls and of the shells has its
\* types, and no subscriber's channel holds more than its capacity.
THEOREM TypeCorrect == Spec => []TypeOK
<1>1. Types => TypeOK
  BY TypesAreType
<1> QED
  BY <1>1, EventsInvariant, PTL

\* Unless a command was interrupted, the events of an attach or of a detach
\* are all handled when Ctl.rwMu is free again (eventGroup.SendAndWait).
THEOREM NothingIsInFlight == Spec => []NothingInFlight
<1>1. IInv /\ Types /\ Events => NothingInFlight
  <2> SUFFICES ASSUME IInv, Types, Events, lock = Nobody, cancelled = {}, NEW s \in Shells
               PROVE  queue[s]["attached"] = <<>> /\ queue[s]["detached"] = <<>>
    BY DEF NothingInFlight
  <2>1. \A g \in {"attached", "detached"} : ~Busy(s, g)
    BY ThreadKinds, OnlyHolder DEF IInv, Events
  <2> QED
    BY <2>1 DEF Busy
<1> QED
  BY <1>1, Invariant, EventsInvariant, PTL
=============================================================================
