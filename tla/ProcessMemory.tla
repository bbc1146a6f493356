--------------------------- MODULE ProcessMemory ---------------------------
(***************************************************************************)
(* One attached process on Unix: reading, writing, suspending, resuming,   *)
(* watching and detaching through progctl.Ctl, the memory mode of process, *)
(* the tracer with its stopped flag, the locked thread that alone may call *)
(* it (threadlock.Thread), and the loop that polls watched memory.         *)
(*                                                                         *)
(* The clients are the sessions' commands. A command holds Ctl.rwMu, for   *)
(* reading or for writing, from its first to its last step; the loop of    *)
(* the watchers holds nothing. One cell of the process' memory is kept.    *)
(* How a process is found and attached is in module Attach.                *)
(***************************************************************************)
EXTENDS Naturals, Sequences, FiniteSets

CONSTANTS
    Clients,       \* the sessions that run commands
    Loop,          \* the goroutine of watcherCtl.loop
    Nobody,
    Operating,     \* the clients that read, write, suspend, resume, set the mode and detach
    Watching,      \* the clients that watch
    Unknown,       \* a []byte that is nil
    DefaultMode,   \* the memory mode of the Ctl when it attached
    QueueCap,      \* capacity of Watcher.reads (10 in the code)
    MaxCalls,      \* bound: commands issued in a behaviour
    MaxChanges     \* bound: values the cell takes after its first

ASSUME ProcessMemoryAssumption ==
    /\ Operating \subseteq Clients /\ Watching \subseteq Clients
    /\ Loop \notin Clients /\ Nobody \notin Clients \cup {Loop}
    /\ Unknown \notin Nat
    /\ DefaultMode \in {"procfs", "ptrace"}
    /\ QueueCap \in Nat \ {0} /\ MaxCalls \in Nat /\ MaxChanges \in Nat

Callers == Clients \cup {Loop}

VARIABLES
    alive, traced, halted,     \* the kernel's view of the process
    mem,                       \* its memory
    stopped,                   \* Tracer.stopped
    waitFailed,                \* the last attach did not see the process stop
    attached,                  \* Ctl.current # nil
    mode, file, thread,        \* process.memMode, optProcFsMem, optPtrace
    serving, step, resume,     \* the call the thread executes, and where it is
    readers, writer, waiting,  \* Ctl.rwMu
    pc, op, result,            \* of a caller
    suspended,                 \* a Suspend succeeded and nothing resumed since
    loopDone, todo,            \* watcherCtl: ctx done; watchers left in this tick
    watcher,                   \* the Watcher of each client
    seen, dropped,             \* what its owner saw last; a change was dropped
    calls

kernelVars == <<alive, traced, halted, mem>>
tracerVars == <<stopped, waitFailed, suspended>>
procVars   == <<attached, mode, file, thread>>
serveVars  == <<serving, step, resume>>
lockVars   == <<readers, writer, waiting>>
watchVars  == <<loopDone, todo, watcher, seen, dropped>>
vars == <<kernelVars, tracerVars, procVars, serveVars, lockVars, watchVars, pc, op, result, calls>>

ReadOps  == {"read", "write", "watch"}
WriteOps == {"suspend", "resume", "procfs", "ptrace", "detach"}

Values == 0 .. MaxChanges

NewWatcher == [state |-> "none", cancelled |-> FALSE, lastRead |-> Unknown,
               reads |-> <<>>]

Goto(c, where) == pc' = [pc EXCEPT ![c] = where]
Answer(c, r) == result' = [result EXCEPT ![c] = r]

Init ==
    /\ alive = TRUE /\ traced = FALSE /\ halted = FALSE
    /\ mem = 0
    /\ stopped = FALSE /\ waitFailed = FALSE /\ suspended = FALSE
    /\ attached = TRUE
    /\ mode = DefaultMode
    /\ file = IF DefaultMode = "procfs" THEN "open" ELSE "none"
    /\ thread = IF DefaultMode = "ptrace" THEN "live" ELSE "none"
    /\ serving = Nobody /\ step = "begin" /\ resume = FALSE
    /\ readers = {} /\ writer = Nobody /\ waiting = {}
    /\ pc = [c \in Callers |-> "idle"]
    /\ op = [c \in Callers |-> IF c = Loop THEN "read" ELSE "none"]
    /\ result = [c \in Callers |-> "none"]
    /\ loopDone = FALSE /\ todo = {}
    /\ watcher = [c \in Clients |-> NewWatcher]
    /\ seen = [c \in Clients |-> Unknown]
    /\ dropped = [c \in Clients |-> FALSE]
    /\ calls = 0
-----------------------------------------------------------------------------
(* The lock of Ctl, and the start and the end of a command. *)

Start(c) ==
    /\ pc[c] = "idle" /\ calls < MaxCalls
    /\ \E k \in ReadOps \cup WriteOps :
          /\ IF k = "watch" THEN c \in Watching /\ watcher[c].state = "none" ELSE c \in Operating
          /\ op' = [op EXCEPT ![c] = k]
          /\ waiting' = IF k \in WriteOps THEN waiting \cup {c} ELSE waiting
    /\ calls' = calls + 1
    /\ Goto(c, "lock")
    /\ UNCHANGED <<kernelVars, tracerVars, procVars, serveVars, watchVars, readers, writer, result>>

Unlock(c) ==
    /\ readers' = readers \ {c} /\ writer' = (IF writer = c THEN Nobody ELSE writer)
    /\ op' = [op EXCEPT ![c] = "none"]
    /\ Answer(c, "none")

(* A writer that waits keeps new readers out. With nothing attached a      *)
(* command ends at once, with ErrNotAttached or with nothing to do.        *)
Enter(c) ==
    /\ pc[c] = "lock"
    /\ IF op[c] \in ReadOps
       THEN writer = Nobody /\ waiting = {}
       ELSE writer = Nobody /\ readers = {}
    /\ IF ~attached
       THEN Goto(c, "idle") /\ Unlock(c)
       ELSE /\ Goto(c, "in") /\ UNCHANGED <<op, result>>
            /\ readers' = IF op[c] \in ReadOps THEN readers \cup {c} ELSE readers
            /\ writer' = IF op[c] \in WriteOps THEN c ELSE writer
    /\ waiting' = waiting \ {c}
    /\ UNCHANGED <<kernelVars, tracerVars, procVars, serveVars, watchVars, calls>>

Return(c) ==
    /\ c \in Clients /\ pc[c] = "answered" /\ op[c] # "detach"
    /\ Goto(c, "idle") /\ Unlock(c)
    /\ UNCHANGED <<kernelVars, tracerVars, procVars, serveVars, watchVars, waiting, calls>>
-----------------------------------------------------------------------------
(* process.ReadBytes and WriteBytes. The mode says which backend is used;  *)
(* a procfs mode without a file is what the code calls impossible.         *)
AccessProcfs(c) ==
    /\ pc[c] = "in" /\ op[c] \in {"read", "write"} /\ mode = "procfs"
    /\ Answer(c, CASE file = "none" -> "nofile" [] file = "closed" -> "error"
                   [] file = "open" -> IF op[c] = "write" /\ ~alive THEN "error" ELSE "ok")
    /\ IF op[c] = "write" /\ file = "open" /\ alive THEN mem' \in {mem, mem + 1} \cap Values ELSE mem' = mem
    /\ Goto(c, "answered")
    /\ UNCHANGED <<alive, traced, halted, tracerVars, procVars, serveVars, lockVars, watchVars, op, calls>>

AskTracer(c) ==
    /\ pc[c] = "in"
    /\ \/ op[c] \in {"read", "write"} /\ mode = "ptrace"
       \/ op[c] \in {"suspend", "resume"}
    /\ IF thread = "none" THEN Goto(c, "answered") /\ Answer(c, "error")
                          ELSE Goto(c, "ask") /\ UNCHANGED result
    /\ UNCHANGED <<kernelVars, tracerVars, procVars, serveVars, lockVars, watchVars, op, calls>>

(* SetMemoryMode stores the mode, then opens what it needs; it opens       *)
(* nothing twice. Opening /proc/<pid>/mem fails when the process is gone,  *)
(* and can fail when it is not.                                            *)
SetMemoryMode(c) ==
    /\ pc[c] = "in" /\ op[c] \in {"procfs", "ptrace"}
    /\ mode' = op[c]
    /\ \/ /\ op[c] = "ptrace" \/ file # "none" \/ alive
          /\ file' = IF op[c] = "procfs" /\ file = "none" THEN "open" ELSE file
          /\ thread' = IF op[c] = "ptrace" /\ thread = "none" THEN "live" ELSE thread
          /\ Answer(c, "ok")
       \/ /\ op[c] = "procfs" /\ file = "none"
          /\ Answer(c, "error") /\ UNCHANGED <<file, thread>>
    /\ Goto(c, "answered")
    /\ UNCHANGED <<kernelVars, tracerVars, attached, serveVars, lockVars, watchVars, op, calls>>

(* Detach: the watchers' context is cancelled, nobody waits for their      *)
(* loop; the file is closed; the tracer, if there is one, is asked to      *)
(* detach and its thread is then told to end.                              *)
CloseProcess(c) ==
    /\ pc[c] = "in" /\ op[c] = "detach"
    /\ loopDone' = TRUE
    /\ file' = IF file = "open" THEN "closed" ELSE file
    /\ Goto(c, IF thread = "none" THEN "answered" ELSE "ask")
    /\ UNCHANGED <<kernelVars, tracerVars, attached, mode, thread, serveVars, lockVars,
                   todo, watcher, seen, dropped, op, result, calls>>

FinishDetach(c) ==
    /\ pc[c] = "answered" /\ op[c] = "detach"
    /\ thread' = IF thread = "live" THEN "cancelled" ELSE thread
    /\ attached' = FALSE
    /\ Goto(c, "idle") /\ Unlock(c)
    /\ UNCHANGED <<kernelVars, tracerVars, mode, file, serveVars, waiting, watchVars, calls>>
-----------------------------------------------------------------------------
(* threadlock.Thread: Do hands the call over, or sees that the thread has  *)
(* ended. The thread picks a call or its own end as it likes.              *)

Hand(c) ==
    /\ pc[c] = "ask" /\ thread \in {"live", "cancelled"} /\ serving = Nobody
    /\ serving' = c /\ step' = "begin" /\ resume' = FALSE
    /\ Goto(c, "handed")
    /\ UNCHANGED <<kernelVars, tracerVars, procVars, lockVars, watchVars, op, result, calls>>

(* The mutant has Do wait for the thread only. *)
RefuseNever(c) == FALSE /\ UNCHANGED vars
Refuse(c) ==
    /\ pc[c] = "ask" /\ thread = "exited"
    /\ Goto(c, "answered") /\ Answer(c, "error")
    /\ UNCHANGED <<kernelVars, tracerVars, procVars, serveVars, lockVars, watchVars, op, calls>>

ThreadExits ==
    /\ thread = "cancelled" /\ serving = Nobody
    /\ thread' = "exited"
    /\ UNCHANGED <<kernelVars, tracerVars, attached, mode, file, serveVars, lockVars, watchVars, pc, op, result, calls>>

Finish(c) == serving' = Nobody /\ step' = "begin" /\ resume' = FALSE /\ Goto(c, "answered")

(* Tracer.AttachAndWaitStopped. The kernel refuses a process that is dead  *)
(* or traced already; the wait can fail, and the process then stops all    *)
(* the same, traced, while the flag says it runs.                          *)
AttachAndWaitStopped(ok) ==
    \/ /\ ~ok /\ (~alive \/ traced)
       /\ UNCHANGED <<traced, halted, stopped, waitFailed>>
    \/ /\ alive /\ ~traced
       /\ traced' = TRUE /\ halted' = TRUE
       /\ stopped' = ok /\ waitFailed' = ~ok

Stopped == alive /\ traced /\ halted

(* PeekData, PokeData: attach unless the tracer has the process stopped.   *)
Begin(c) ==
    /\ serving = c /\ step = "begin" /\ op[c] \in {"read", "write"}
    /\ \/ stopped /\ step' = "access" /\ UNCHANGED <<resume, serving, pc, result, traced, halted, stopped, waitFailed>>
       \/ /\ ~stopped
          /\ \E ok \in BOOLEAN :
                /\ AttachAndWaitStopped(ok)
                /\ IF ok THEN step' = "access" /\ resume' = TRUE /\ UNCHANGED <<serving, pc, result>>
                         ELSE Finish(c) /\ Answer(c, "error")
    /\ UNCHANGED <<alive, mem, suspended, procVars, lockVars, watchVars, op, calls>>

(* The access itself fails for an address that is not mapped. *)
Transfer(c, good) ==
    /\ good => Stopped
    /\ IF op[c] = "write" /\ good THEN mem' \in {mem, mem + 1} \cap Values ELSE mem' = mem
    /\ Answer(c, IF good THEN "ok" ELSE "error")
    /\ UNCHANGED <<alive, traced, halted, tracerVars, procVars, lockVars, watchVars, op, calls>>

(* The mutants return on an error of the access before they detach, and    *)
(* detach whether or not the process was stopped before.                   *)
AccessReturnsEarly(c) ==
    /\ serving = c /\ step = "access"
    /\ \E good \in BOOLEAN :
          /\ Transfer(c, good)
          /\ IF resume /\ good THEN step' = "detach" /\ UNCHANGED <<serving, resume, pc>> ELSE Finish(c)
AccessDetaches(c) ==
    /\ serving = c /\ step = "access"
    /\ \E good \in BOOLEAN : Transfer(c, good) /\ step' = "detach" /\ UNCHANGED <<serving, resume, pc>>
Access(c) ==
    /\ serving = c /\ step = "access"
    /\ \E good \in BOOLEAN :
          /\ Transfer(c, good)
          /\ IF resume THEN step' = "detach" /\ UNCHANGED <<serving, resume, pc>> ELSE Finish(c)

Suspend(c) ==
    /\ serving = c /\ op[c] = "suspend"
    /\ \E ok \in BOOLEAN :
          /\ AttachAndWaitStopped(ok)
          /\ Answer(c, IF ok THEN "ok" ELSE "error")
          /\ suspended' = (suspended \/ ok)
    /\ Finish(c)
    /\ UNCHANGED <<alive, mem, procVars, lockVars, watchVars, op, calls>>

(* Detach, called for itself: stop the process first if it is not stopped. *)
(* What that attach answers is not looked at.                              *)
StopToDetach(c) ==
    /\ serving = c /\ step = "begin" /\ op[c] \in {"resume", "detach"}
    /\ \/ stopped /\ UNCHANGED <<traced, halted, stopped, waitFailed>>
       \/ ~stopped /\ \E ok \in BOOLEAN : AttachAndWaitStopped(ok)
    /\ step' = "detach"
    /\ UNCHANGED <<alive, mem, suspended, serving, resume, procVars, lockVars, watchVars, pc, op, result, calls>>

(* The rest of Detach: the flag is cleared whatever the kernel answers.    *)
Detach(c) ==
    /\ serving = c /\ step = "detach"
    /\ stopped' = FALSE
    /\ traced' = (traced /\ ~Stopped) /\ halted' = (halted /\ ~Stopped)
    /\ waitFailed' = (waitFailed /\ ~Stopped)
    /\ suspended' = (suspended /\ op[c] \notin {"resume", "detach"})
    /\ IF op[c] \in {"resume", "detach"} THEN Answer(c, IF Stopped THEN "ok" ELSE "error")
                                         ELSE UNCHANGED result
    /\ Finish(c)
    /\ UNCHANGED <<alive, mem, procVars, lockVars, watchVars, op, calls>>
-----------------------------------------------------------------------------
(* Watching. WatchLookup makes the Watcher and hands it to the loop, or    *)
(* finds the loop's context or its own done. *)

NewWatch(c) ==
    /\ pc[c] = "in" /\ op[c] = "watch"
    /\ watcher' = [watcher EXCEPT ![c].state = "offered"]
    /\ Goto(c, "adding")
    /\ UNCHANGED <<kernelVars, tracerVars, procVars, serveVars, lockVars, loopDone, todo, seen, dropped, op, result, calls>>

AddWatcher(c) ==
    /\ pc[c] = "adding"
    /\ \/ pc[Loop] = "idle" /\ watcher' = [watcher EXCEPT ![c].state = "listed"] /\ Goto(c, "watching")
       \/ /\ loopDone \/ watcher[c].cancelled
          /\ watcher' = [watcher EXCEPT ![c].state = "refused"] /\ Goto(c, "idle")
    /\ Unlock(c)
    /\ UNCHANGED <<kernelVars, tracerVars, procVars, serveVars, waiting, loopDone, todo, seen, dropped, calls>>

(* The user interrupts `watch`; the command returns and its context, which *)
(* is the Watcher's, is done.                                              *)
Interrupt(c) ==
    /\ pc[c] \in {"adding", "watching"} /\ ~watcher[c].cancelled
    /\ watcher' = [watcher EXCEPT ![c].cancelled = TRUE, ![c].reads = <<>>]
    /\ IF pc[c] = "watching" THEN Goto(c, "idle") ELSE UNCHANGED pc
    /\ seen' = [seen EXCEPT ![c] = Unknown]
    /\ UNCHANGED <<kernelVars, tracerVars, procVars, serveVars, lockVars, loopDone, todo, dropped, op, result, calls>>

(* The command's goroutine for a row shows what the Watcher reported.      *)
Show(c) ==
    /\ pc[c] = "watching" /\ watcher[c].reads # <<>>
    /\ seen' = [seen EXCEPT ![c] = Head(watcher[c].reads)]
    /\ watcher' = [watcher EXCEPT ![c].reads = Tail(@)]
    /\ UNCHANGED <<kernelVars, tracerVars, procVars, serveVars, lockVars, loopDone, todo, dropped, pc, op, result, calls>>

Listed == {c \in Clients : watcher[c].state = "listed"}

(* The ticker runs while there are watchers. *)
Tick ==
    /\ pc[Loop] = "idle" /\ Listed # {}
    /\ todo' = Listed
    /\ Goto(Loop, "pick")
    /\ UNCHANGED <<kernelVars, tracerVars, procVars, serveVars, lockVars, loopDone, watcher, seen, dropped, op, result, calls>>

(* The loop goes over the map in any order. *)
NextWatcher(c) ==
    /\ todo' = todo \ {c}
    /\ Goto(Loop, IF todo = {c} THEN "idle" ELSE "pick")
    /\ Answer(Loop, "none")

(* Watcher.run: a cancelled Watcher stops, another one reads. *)
RunCancelled(c) ==
    /\ pc[Loop] = "pick" /\ c \in todo /\ watcher[c].cancelled
    /\ watcher' = [watcher EXCEPT ![c].state = "stopped"]
    /\ NextWatcher(c)
    /\ UNCHANGED <<kernelVars, tracerVars, procVars, serveVars, lockVars, loopDone, seen, dropped, op, calls>>

RunReads(c) ==
    /\ pc[Loop] = "pick" /\ c \in todo /\ ~watcher[c].cancelled
    /\ watcher' = [watcher EXCEPT ![c].state = "running"]
    /\ Goto(Loop, "in")
    /\ UNCHANGED <<kernelVars, tracerVars, procVars, serveVars, lockVars, loopDone, todo, seen, dropped, op, result, calls>>

(* What the read returned: the cell, or zeros from the memory of a process *)
(* that is gone, since the number of bytes read is not looked at.          *)
Bytes == IF alive THEN mem ELSE 0

Running(c) == pc[Loop] = "answered" /\ watcher[c].state = "running"
(* Watcher.run after its read: an error stops it, the same bytes are not   *)
(* reported, other bytes are remembered and then offered. The channel may  *)
(* be full, and a cancelled Watcher may still offer.                       *)
ReadFailed(c) ==
    /\ Running(c) /\ result[Loop] # "ok"
    /\ watcher' = [watcher EXCEPT ![c].state = "stopped"]
    /\ NextWatcher(c)
    /\ UNCHANGED <<kernelVars, tracerVars, procVars, serveVars, lockVars, loopDone, seen, dropped, op, calls>>

ReadSame(c) ==
    /\ Running(c) /\ result[Loop] = "ok" /\ Bytes = watcher[c].lastRead
    /\ watcher' = [watcher EXCEPT ![c].state = "listed"]
    /\ NextWatcher(c)
    /\ UNCHANGED <<kernelVars, tracerVars, procVars, serveVars, lockVars, loopDone, seen, dropped, op, calls>>

(* The mutant remembers the bytes and does not offer them when there were  *)
(* some before. *)
OfferFirst(c) ==
    /\ Running(c) /\ result[Loop] = "ok" /\ Bytes # watcher[c].lastRead
    /\ watcher' = [watcher EXCEPT ![c].state = "listed", ![c].lastRead = Bytes,
                                  ![c].reads = IF watcher[c].lastRead = Unknown THEN <<Bytes>> ELSE @]
    /\ NextWatcher(c)
    /\ UNCHANGED <<kernelVars, tracerVars, procVars, serveVars, lockVars, loopDone, seen, dropped, op, calls>>
Offer(c) ==
    /\ Running(c) /\ result[Loop] = "ok" /\ Bytes # watcher[c].lastRead
    /\ \/ /\ watcher[c].cancelled
          /\ watcher' = [watcher EXCEPT ![c].state = "stopped", ![c].lastRead = Bytes]
          /\ UNCHANGED dropped
       \/ LET full == Len(watcher[c].reads) = QueueCap
          IN /\ ~(full /\ watcher[c].cancelled)
             /\ watcher' = [watcher EXCEPT ![c].state = "listed", ![c].lastRead = Bytes,
                                           ![c].reads = IF full THEN @ ELSE Append(@, Bytes)]
             /\ dropped' = [dropped EXCEPT ![c] = full]
    /\ NextWatcher(c)
    /\ UNCHANGED <<kernelVars, tracerVars, procVars, serveVars, lockVars, loopDone, seen, op, calls>>

(* The loop sees its context done and closes the channel of every Watcher  *)
(* it has.                                                                 *)
LoopEnds ==
    /\ pc[Loop] = "idle" /\ loopDone
    /\ watcher' = [c \in Clients |-> IF c \in Listed THEN [watcher[c] EXCEPT !.state = "stopped"] ELSE watcher[c]]
    /\ Goto(Loop, "ended")
    /\ UNCHANGED <<kernelVars, tracerVars, procVars, serveVars, lockVars, loopDone, todo, seen, dropped, op, result, calls>>
-----------------------------------------------------------------------------
(* The process: it runs and changes its memory unless it is stopped, and   *)
(* it may die at any time. The cell is followed while somebody watches.    *)
Change ==
    /\ alive /\ ~halted /\ \E c \in Clients : pc[c] = "watching"
    /\ mem < MaxChanges /\ mem' = mem + 1
    /\ UNCHANGED <<alive, traced, halted, tracerVars, procVars, serveVars, lockVars, watchVars, pc, op, result, calls>>

Die ==
    /\ alive
    /\ alive' = FALSE /\ traced' = FALSE /\ halted' = FALSE
    /\ UNCHANGED <<mem, tracerVars, procVars, serveVars, lockVars, watchVars, pc, op, result, calls>>

ClientStep(c) ==
    \/ Enter(c) \/ Return(c) \/ SetMemoryMode(c) \/ CloseProcess(c) \/ FinishDetach(c)
    \/ NewWatch(c) \/ AddWatcher(c) \/ Show(c)
AccessStep(c) == AccessProcfs(c) \/ AskTracer(c) \/ Hand(c) \/ Refuse(c)
ThreadStep(c) == Begin(c) \/ Access(c) \/ Suspend(c) \/ StopToDetach(c) \/ Detach(c)
LoopStep == \/ Tick \/ LoopEnds
            \/ \E c \in Clients : RunCancelled(c) \/ RunReads(c) \/ ReadFailed(c) \/ ReadSame(c) \/ Offer(c)

Next ==
    \/ \E c \in Clients : Start(c) \/ Interrupt(c) \/ ClientStep(c)
    \/ \E c \in Callers : AccessStep(c) \/ ThreadStep(c)
    \/ ThreadExits \/ LoopStep \/ Change \/ Die

(* Goroutines that can run do. A send on a channel is served in the order  *)
(* of arrival and a select picks at random among what is ready, so a call  *)
(* is handed over, and the loop sees its end, if they can again and again. *)
Fairness ==
    /\ \A c \in Clients : WF_vars(ClientStep(c) \/ AccessStep(c)) /\ SF_vars(Hand(c))
    /\ WF_vars(ThreadExits \/ \E c \in Callers : ThreadStep(c))
    /\ WF_vars(LoopStep \/ AccessStep(Loop)) /\ SF_vars(LoopEnds)

Spec == Init /\ [][Next]_vars /\ Fairness
-----------------------------------------------------------------------------
(* TypeOK: the state stays within its types. *)
TypeOK ==
    /\ <<alive, traced, halted, stopped, waitFailed, suspended, attached, resume, loopDone>> \in
           BOOLEAN \X BOOLEAN \X BOOLEAN \X BOOLEAN \X BOOLEAN \X BOOLEAN \X BOOLEAN \X BOOLEAN \X BOOLEAN
    /\ mem \in Values /\ calls \in 0 .. MaxCalls
    /\ mode \in {"procfs", "ptrace"} /\ file \in {"none", "open", "closed"}
    /\ thread \in {"none", "live", "cancelled", "exited"}
    /\ serving \in Callers \cup {Nobody} /\ step \in {"begin", "access", "detach"}
    /\ readers \subseteq Clients /\ writer \in Clients \cup {Nobody} /\ waiting \subseteq Clients
    /\ pc \in [Callers -> {"idle", "lock", "in", "ask", "handed", "answered", "adding", "watching", "pick", "ended"}]
    /\ op \in [Callers -> ReadOps \cup WriteOps \cup {"none"}]
    /\ todo \subseteq Clients
    /\ \A c \in Clients : Len(watcher[c].reads) <= QueueCap

(* SuspendHolds: once `suspend` has succeeded the process stays stopped,   *)
(* whatever reads, writes and watchers do with the tracer, until a resume  *)
(* or a detach; and the tracer knows that it is (ptrace.Tracer).           *)
SuspendHolds == suspended /\ alive => traced /\ halted /\ stopped

(* LeftRunning: between calls a living process is stopped only if someone  *)
(* suspended it or an attach failed half way: no read or write through the *)
(* tracer leaves it stopped.                                               *)
LeftRunning == serving = Nobody /\ alive /\ ~suspended /\ ~waitFailed => ~traced /\ ~halted

(* CallsAnswered: every command returns, also one that is handed to the    *)
(* tracer's thread while the thread ends.                                  *)
InCall(c) == pc[c] \in {"lock", "in", "ask", "handed", "answered", "adding"}
CallsAnswered == \A c \in Callers : InCall(c) ~> ~InCall(c)

(* WatchEnds: a Watcher that was accepted is stopped when its command is   *)
(* interrupted or the process is detached.                                 *)
WatchEnds ==
    \A c \in Clients : watcher[c].state \in {"listed", "running"} /\ (watcher[c].cancelled \/ loopDone)
                          ~> watcher[c].state = "stopped"

(* CommandsReturn: both, whoever detaches, suspends or is interrupted.      *)
CommandsReturn == CallsAnswered /\ WatchEnds

(* SettledIsShown: when the memory keeps one value, who watches it ends up *)
(* seeing that value, unless the last change met a full channel.           *)
SettledIsShown ==
    \A c \in Clients, v \in Values :
        <>[](mem = v /\ alive /\ pc[c] = "watching" /\ watcher[c].state \in {"listed", "running"} /\ ~dropped[c])
            => <>[](seen[c] = v)

(* ModeHasBackend: what process.readBytesProcfs says should never happen,  *)
(* an access through a file that was never opened, does not. The code does *)
(* not keep this: SetMemoryMode stores the mode before it opens the file.  *)
ModeHasBackend == \A c \in Callers : result[c] # "nofile"
=============================================================================
