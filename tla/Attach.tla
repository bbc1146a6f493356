------------------------------- MODULE Attach -------------------------------
(***************************************************************************)
(* Attaching to a process and detaching from it: progctl.Ctl, its exit     *)
(* monitors, the event groups, and the shells that subscribe to them.      *)
(*                                                                         *)
(* Ctl.Attach and Ctl.Detach hold Ctl.rwMu until every subscribed shell    *)
(* has acknowledged the event.  An exit monitor reports the exit of its    *)
(* process to the shells, and a goroutine that Attach leaves behind then   *)
(* detaches.  A shell reads the state of Ctl once for its first prompt,    *)
(* subscribes to one event group after the other, and handles the events   *)
(* on a goroutine of its own until its session ends.                       *)
(*                                                                         *)
(* A call that runs is a thread: <<"attach", a>> makes attachment a,       *)
(* <<"auto", a>> is the goroutine it leaves behind, <<"exit", a>> is the   *)
(* report of the monitor of a, and <<"detach", d>> is a user's command.    *)
(***************************************************************************)
EXTENDS Naturals, Sequences, FiniteSets

CONSTANTS
  Attachments,  \* one per successful call of Attach, each a process of its own
  Detaches,     \* the detach commands
  Shells,
  QueueSize,    \* the capacity of a subscriber's channel: 10 in the code
  NoProcess,    \* Ctl.current = nil, and the prompt without a PID
  Nobody        \* Ctl.rwMu is not held for writing

ASSUME NamesAssumption == NoProcess \notin Attachments

ASSUME SizesAssumption == IsFiniteSet(Shells) /\ QueueSize \in Nat

Groups == {"attached", "detached", "exited"}

\* A shell subscribes in this order and unsubscribes in the opposite one.
Rank == [attached |-> 1, detached |-> 2, exited |-> 3]

Commands == ({"attach"} \X Attachments) \cup ({"detach"} \X Detaches)
Detaching == ({"auto"} \X Attachments) \cup ({"detach"} \X Detaches)
Callers == Commands \cup Detaching
Threads == Callers \cup ({"exit"} \X Attachments)

ASSUME NobodyAssumption == Nobody \notin Threads

Group(t) == CASE t[1] = "attach" -> "attached"
              [] t[1] = "exit" -> "exited"
              [] OTHER -> "detached"

VARIABLES
  lock,       \* who holds Ctl.rwMu for writing
  current,    \* Ctl.current
  mon,        \* the exit monitor of an attachment
  pc,         \* how far a thread is
  left,       \* subscribers a thread has not sent its event to yet
  want,       \* EventAcker.numReceivers
  acks,       \* EventAcker.acked
  cancelled,  \* commands whose context is cancelled
  shell,      \* how far Shell.Run is
  closed,     \* shells whose session is closed: the context is cancelled
  stopped,    \* shells whose handleEvents has returned
  prompt,     \* Shell.prompt
  subs,       \* eventGroup.subs
  ended,      \* closed Sub.done channels: pairs of a shell and a group
  queue       \* Sub.ch, the events as the threads that sent them

ctlVars == <<lock, current, mon>>
sendVars == <<pc, left, want, acks, cancelled>>
shellVars == <<shell, closed, stopped, prompt>>
groupVars == <<subs, ended, queue>>
vars == <<lock, current, mon, pc, left, want, acks, cancelled,
          shell, closed, stopped, prompt, subs, ended, queue>>

TypeOK ==
  /\ lock \in Callers \cup {Nobody}
  /\ current \in Attachments \cup {NoProcess}
  /\ mon \in [Attachments -> {"off", "watch", "sending", "exited", "detached"}]
  /\ pc \in [Threads -> {"idle", "armed", "close", "send", "done"}]
  /\ left \in [Threads -> SUBSET Shells]
  /\ want \in [Threads -> Nat]
  /\ acks \in [Threads -> Nat]
  /\ cancelled \in SUBSET Commands
  /\ shell \in [Shells -> {"start", "joining", "run", "leaving", "left"}]
  /\ closed \in SUBSET Shells
  /\ stopped \in SUBSET closed
  /\ prompt \in [Shells -> Attachments \cup {NoProcess}]
  /\ subs \in [Groups -> SUBSET Shells]
  /\ ended \in SUBSET (Shells \X Groups)
  /\ queue \in [Shells -> [Groups -> Seq(Threads)]]
  /\ \A s \in Shells, g \in Groups : Len(queue[s][g]) <= QueueSize

Init ==
  /\ lock = Nobody
  /\ current = NoProcess
  /\ mon = [a \in Attachments |-> "off"]
  /\ pc = [t \in Threads |-> "idle"]
  /\ left = [t \in Threads |-> {}]
  /\ want = [t \in Threads |-> 0]
  /\ acks = [t \in Threads |-> 0]
  /\ cancelled = {}
  /\ shell = [s \in Shells |-> "start"]
  /\ closed = {}
  /\ stopped = {}
  /\ prompt = [s \in Shells |-> NoProcess]
  /\ subs = [g \in Groups |-> {}]
  /\ ended = {}
  /\ queue = [s \in Shells |-> [g \in Groups |-> <<>>]]

-----------------------------------------------------------------------------
(* events: sending to a group.                                             *)

\* eventGroup.rwMu is held for reading.
Reading(g) == \E t \in Threads : Group(t) = g /\ pc[t] = "send"

\* Send and SendAndWait take eventGroup.rwMu and count the subscribers.
Publish(t, newPc) ==
  /\ pc' = [newPc EXCEPT ![t] = "send"]
  /\ left' = [left EXCEPT ![t] = subs[Group(t)]]
  /\ want' = [want EXCEPT ![t] = Cardinality(subs[Group(t)])]
  /\ UNCHANGED <<acks, cancelled, groupVars>>

\* The event is in the subscriber's channel.
Deliver(t, s) ==
  /\ pc[t] = "send"
  /\ s \in left[t]
  /\ Len(queue[s][Group(t)]) < QueueSize
  /\ queue' = [queue EXCEPT ![s][Group(t)] = Append(@, t)]
  /\ left' = [left EXCEPT ![t] = @ \ {s}]
  /\ UNCHANGED <<ctlVars, pc, want, acks, cancelled, shellVars, subs, ended>>

\* case <-o.done, or the channel stays full for a second: no event, no error.
PassOver(t, s) ==
  /\ pc[t] = "send"
  /\ s \in left[t]
  /\ <<s, Group(t)>> \in ended \/ Len(queue[s][Group(t)]) = QueueSize
  /\ left' = [left EXCEPT ![t] = @ \ {s}]
  /\ UNCHANGED <<ctlVars, pc, want, acks, cancelled, shellVars, groupVars>>

\* Fault: Send in place of SendAndWait.
AnsweredSent(t) == left[t] = {}

\* SendAndWait returns: all have acknowledged, or the context is cancelled.
Answered(t) ==
  \/ left[t] = {} /\ acks[t] = want[t]
  \/ t \in cancelled

\* Attach and Detach release Ctl.rwMu; Attach has started its goroutine.
\* Nobody looks at the EventAcker again: its counters start over at zero.
Return(t) ==
  /\ t \in Callers
  /\ pc[t] = "send"
  /\ Answered(t)
  /\ lock' = Nobody
  /\ pc' = IF t[1] = "attach"
           THEN [pc EXCEPT ![t] = "done", ![<<"auto", t[2]>>] = "armed"]
           ELSE [pc EXCEPT ![t] = "done"]
  /\ left' = [left EXCEPT ![t] = {}]
  /\ want' = [want EXCEPT ![t] = 0]
  /\ acks' = [acks EXCEPT ![t] = 0]
  /\ UNCHANGED <<current, mon, cancelled, shellVars, groupVars>>

\* The user interrupts the command, or the session ends.
Cancel(t) ==
  /\ t \in Commands
  /\ pc[t] = "send"
  /\ t \notin cancelled
  /\ cancelled' = cancelled \cup {t}
  /\ UNCHANGED <<ctlVars, pc, left, want, acks, shellVars, groupVars>>

-----------------------------------------------------------------------------
(* progctl: Attach, Detach and the exit monitor.                           *)

\* Nothing is attached, or the monitor of what is has reported its exit.
MayAttach ==
  /\ lock = Nobody
  /\ current # NoProcess => mon[current] = "exited"

\* A call that fails (ErrAlreadyAttached, no such process, or the operating
\* system refuses) changes nothing and is left out.
Attach(a) ==
  /\ pc[<<"attach", a>>] = "idle"
  /\ MayAttach
  /\ lock' = <<"attach", a>>
  /\ current' = a
  /\ mon' = [mon EXCEPT ![a] = "watch"]
  /\ Publish(<<"attach", a>>, pc)
  /\ UNCHANGED shellVars

\* Fault: the goroutine of Attach looks for a detach, not for an exit.
WantsDetachSwapped(t) ==
  IF t[1] = "auto" THEN pc[t] = "armed" /\ mon[t[2]] = "detached" ELSE pc[t] = "idle"

\* A command, or the goroutine of Attach once its monitor has reported an exit.
WantsDetach(t) ==
  IF t[1] = "auto" THEN pc[t] = "armed" /\ mon[t[2]] = "exited" ELSE pc[t] = "idle"

Holds(t) == IF current = NoProcess THEN Nobody ELSE t

\* Detach takes Ctl.rwMu, and returns at once if nothing is attached.
Detach(t) ==
  /\ WantsDetach(t)
  /\ lock = Nobody
  /\ lock' = Holds(t)
  /\ pc' = [pc EXCEPT ![t] = IF current = NoProcess THEN "done" ELSE "close"]
  /\ UNCHANGED <<current, mon, left, want, acks, cancelled, shellVars, groupVars>>

\* Fault: Detach leaves the exit monitor alone.
SilencedNot == mon

\* SetDetached: the Once lets only the first of an exit and a detach through.
Silenced == IF mon[current] = "watch" THEN [mon EXCEPT ![current] = "detached"] ELSE mon

\* attachedProcess.Close waits in the Once for a report that is being sent.
DetachClose(t) ==
  /\ pc[t] = "close"
  /\ mon[current] # "sending"
  /\ mon' = Silenced
  /\ current' = NoProcess
  /\ Publish(t, pc)
  /\ UNCHANGED <<lock, shellVars>>

\* The goroutine of Attach: the monitor is done because of a detach.
AutoEnds(a) ==
  /\ pc[<<"auto", a>>] = "armed"
  /\ mon[a] = "detached"
  /\ pc' = [pc EXCEPT ![<<"auto", a>>] = "done"]
  /\ UNCHANGED <<ctlVars, left, want, acks, cancelled, shellVars, groupVars>>

\* SetExited: the process has exited, or the poll for its exit has failed.
SetExited(a) ==
  /\ mon[a] = "watch"
  /\ mon' = [mon EXCEPT ![a] = "sending"]
  /\ Publish(<<"exit", a>>, pc)
  /\ UNCHANGED <<lock, current, shellVars>>

\* The report is sent; SetExited closes the channel of the monitor.
ExitSent(a) ==
  /\ pc[<<"exit", a>>] = "send"
  /\ left[<<"exit", a>>] = {}
  /\ mon' = [mon EXCEPT ![a] = "exited"]
  /\ pc' = [pc EXCEPT ![<<"exit", a>>] = "done"]
  /\ UNCHANGED <<lock, current, left, want, acks, cancelled, shellVars, groupVars>>

-----------------------------------------------------------------------------
(* shell: Run and handleEvents.                                            *)

\* initPrompt asks Ctl, which takes Ctl.rwMu for reading.
InitPrompt(s) ==
  /\ shell[s] = "start"
  /\ lock = Nobody
  /\ prompt' = [prompt EXCEPT ![s] = current]
  /\ shell' = [shell EXCEPT ![s] = "joining"]
  /\ UNCHANGED <<ctlVars, sendVars, closed, stopped, groupVars>>

\* NewSubscriber for the next group; after the last one handleEvents starts.
Join(s, g) ==
  /\ shell[s] = "joining"
  /\ s \notin subs[g]
  /\ \A h \in Groups : Rank[h] < Rank[g] => s \in subs[h]
  /\ ~Reading(g)
  /\ subs' = [subs EXCEPT ![g] = @ \cup {s}]
  /\ shell' = [shell EXCEPT ![s] = IF g = "exited" THEN "run" ELSE "joining"]
  /\ UNCHANGED <<ctlVars, sendVars, closed, stopped, prompt, ended, queue>>

\* Run returns: exit, end of input, or the session is closed.
Leave(s) ==
  /\ shell[s] = "run"
  /\ shell' = [shell EXCEPT ![s] = "leaving"]
  /\ UNCHANGED <<ctlVars, sendVars, closed, stopped, prompt, groupVars>>

\* Unsubscribe closes Sub.done before it takes the lock of the group.
EndSub(s, g) ==
  /\ shell[s] = "leaving"
  /\ s \in subs[g]
  /\ \A h \in Groups : Rank[h] > Rank[g] => s \notin subs[h]
  /\ <<s, g>> \notin ended
  /\ ended' = ended \cup {<<s, g>>}
  /\ UNCHANGED <<ctlVars, sendVars, shellVars, subs, queue>>

Unsub(s, g) ==
  /\ s \in subs[g]
  /\ <<s, g>> \in ended
  /\ ~Reading(g)
  /\ subs' = [subs EXCEPT ![g] = @ \ {s}]
  /\ shell' = [shell EXCEPT ![s] = IF g = "attached" THEN "left" ELSE "leaving"]
  /\ UNCHANGED <<ctlVars, sendVars, closed, stopped, prompt, ended, queue>>

\* Session.Close cancels the context of the shell, at any time.
CloseSession(s) ==
  /\ shell[s] # "start"
  /\ s \notin closed
  /\ closed' = closed \cup {s}
  /\ UNCHANGED <<ctlVars, sendVars, shell, stopped, prompt, groupVars>>

Handling(s) == shell[s] \in {"run", "leaving", "left"} /\ s \notin stopped

\* handleEvents: case <-ctx.Done().
StopHandling(s) ==
  /\ Handling(s)
  /\ s \in closed
  /\ stopped' = stopped \cup {s}
  /\ UNCHANGED <<ctlVars, sendVars, shell, closed, prompt, groupVars>>

\* Fault: the handler of detach events does not acknowledge.
AckAttached(t) ==
  IF pc[t] = "send" /\ Group(t) = "attached" THEN [acks EXCEPT ![t] = @ + 1] ELSE acks

\* Exit events have no EventAcker; an answer that comes late is not read.
Ack(t) ==
  IF pc[t] = "send" /\ Group(t) # "exited" THEN [acks EXCEPT ![t] = @ + 1] ELSE acks

Shown(t) == IF Group(t) = "attached" THEN t[2] ELSE NoProcess

\* handleEvents takes an event of any group that has one.
Handle(s, g) ==
  /\ Handling(s)
  /\ queue[s][g] # <<>>
  /\ queue' = [queue EXCEPT ![s][g] = Tail(@)]
  /\ prompt' = [prompt EXCEPT ![s] = Shown(Head(queue[s][g]))]
  /\ acks' = Ack(Head(queue[s][g]))
  /\ UNCHANGED <<ctlVars, pc, left, want, cancelled, shell, closed, stopped, subs, ended>>

-----------------------------------------------------------------------------

Progress(t) ==
  \/ \E s \in Shells : Deliver(t, s) \/ PassOver(t, s)
  \/ Return(t)

CtlNext ==
  \/ \E a \in Attachments :
       Attach(a) \/ AutoEnds(a) \/ SetExited(a) \/ ExitSent(a)
  \/ \E t \in Detaching : Detach(t) \/ DetachClose(t)
  \/ \E t \in Threads : Progress(t) \/ Cancel(t)

ShellNext ==
  \E s \in Shells :
    \/ InitPrompt(s) \/ Leave(s) \/ CloseSession(s) \/ StopHandling(s)
    \/ \E g \in Groups : Join(s, g) \/ EndSub(s, g) \/ Unsub(s, g) \/ Handle(s, g)

Next == CtlNext \/ ShellNext

Spec == Init /\ [][Next]_vars

\* Goroutines that can run do, and Run returns once its session is closed.
\* Users need not attach, detach, interrupt or leave, and processes need not
\* exit.
Fairness ==
  /\ \A t \in Threads : WF_vars(Progress(t))
  /\ \A t \in Detaching : WF_vars(DetachClose(t))
  /\ \A a \in Attachments :
       WF_vars(Detach(<<"auto", a>>)) /\ WF_vars(AutoEnds(a)) /\ WF_vars(ExitSent(a))
  /\ \A s \in Shells : WF_vars(s \in closed /\ Leave(s))
  /\ \A s \in Shells, g \in Groups :
       WF_vars(Join(s, g)) /\ WF_vars(EndSub(s, g)) /\ WF_vars(Unsub(s, g)) /\ WF_vars(Handle(s, g))

FairSpec == Spec /\ Fairness

-----------------------------------------------------------------------------
(* Properties.                                                             *)

\* Only the monitor of the attached process can still report an exit: a
\* detach silences it, and an attach replaces only what has exited
\* (Ctl.Attach, ExitMonitor.SetDetached).
OnlyCurrentWatched ==
  \A a \in Attachments : mon[a] \in {"watch", "sending"} => current = a

\* Ctl.rwMu is held by the one call that has begun and not returned, through
\* every early return and cancellation (Ctl.Attach, Ctl.Detach).
LockHeld ==
  \A t \in Callers : (pc[t] \in {"close", "send"}) <=> (lock = t)

\* Events of an attach and of a detach are never in flight together, although
\* they go through separate channels: unless a call was interrupted, all are
\* handled before Ctl.rwMu is free again (eventGroup.SendAndWait).
NothingInFlight ==
  lock = Nobody /\ cancelled = {} =>
    \A s \in Shells : queue[s]["attached"] = <<>> /\ queue[s]["detached"] = <<>>

\* No shell has left or lost its session, and no command was interrupted.
Undisturbed ==
  /\ cancelled = {}
  /\ closed = {}
  /\ \A s \in Shells : shell[s] \notin {"leaving", "left"}

\* A call that holds Ctl.rwMu returns, as long as the shells stay.
CallsReturn ==
  \A t \in Callers : (pc[t] \in {"close", "send"}) ~> (pc[t] = "done" \/ ~Undisturbed)

\* An attachment does not outlive its process, as long as the shells stay
\* (the goroutine of Ctl.Attach).
ExitDetaches ==
  \A a \in Attachments : (mon[a] \in {"sending", "exited"}) ~> (current # a \/ ~Undisturbed)

\* The goroutine of Attach detaches the process whose exit it waited for and
\* no other.  The code does not keep this: Attach may have replaced it.
AutoDetachesOwn ==
  [][\A t \in {"auto"} \X Attachments :
       (pc[t] = "close" /\ pc'[t] = "send") => current = t[2]]_vars

\* A detach that nobody interrupts returns.  The code does not keep this: a
\* shell that leaves is waited for.
DetachReturns ==
  \A t \in Detaching : (pc[t] \in {"close", "send"}) ~> (pc[t] = "done")
=============================================================================
