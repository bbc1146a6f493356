------------------------- MODULE ProcessMemoryProofs -------------------------
(***************************************************************************)
(* Proofs about ProcessMemory, for any clients and any queue.              *)
(*                                                                         *)
(* The tracer acts on its flag stopped, and the flag, the kernel and what  *)
(* the user asked for go apart for the time of one call of the tracer's    *)
(* thread. The invariant says how far apart they are at each step of that  *)
(* call.                                                                   *)
(***************************************************************************)
EXTENDS ProcessMemory, TLAPS

(* A Watcher as Ctl.WatchLookup makes it and its loop leaves it, what its  *)
(* owner sees of it, and what a command answers.                           *)
WatcherType == [state : {"none", "offered", "listed", "running", "stopped", "refused"},
                cancelled : BOOLEAN, lastRead : Values \cup {Unknown}, reads : Seq(Values)]
Watchers ==
    /\ watcher \in [Clients -> WatcherType]
    /\ seen \in [Clients -> Values \cup {Unknown}]
    /\ dropped \in [Clients -> BOOLEAN]
Results == result \in [Callers -> {"none", "ok", "error", "nofile"}]

(* The caller that the thread serves waits for it.                         *)
Served ==
    /\ serving # Nobody => serving \in Callers /\ pc[serving] = "handed"
    /\ serving = Nobody => step = "begin"
    /\ step = "begin" => ~resume

(* A step of a call that a read or a write came to because the process ran *)
(* before it.                                                              *)
Borrows == \/ step = "access" /\ resume
           \/ step = "detach" /\ op[serving] \in {"read", "write"}

(* The flag says stopped only of a process that the kernel has stopped.    *)
(* One that is stopped was suspended, or its wait failed, or a call that   *)
(* is under way will let it go; and no such call runs against a suspended  *)
(* process.                                                                *)
Tracing ==
    /\ traced <=> halted
    /\ traced => alive
    /\ stopped /\ alive => traced
    /\ suspended /\ alive => traced /\ stopped
    /\ traced => suspended \/ waitFailed \/ Borrows \/ step = "detach"
    /\ Borrows /\ alive => ~suspended
    /\ step = "access" => op[serving] \in {"read", "write"}
    /\ step = "detach" => op[serving] \in {"read", "write", "resume", "detach"}

IInv == TypeOK /\ Watchers /\ Results /\ Served /\ Tracing
-----------------------------------------------------------------------------
(* What an attach can do to the kernel's view and to the tracer's: all, or *)
(* nothing, or all but that the tracer takes note of it.                   *)
AttachSees == /\ alive /\ ~traced /\ traced' = TRUE /\ halted' = TRUE
              /\ stopped' = TRUE /\ waitFailed' = FALSE
AttachMisses == /\ alive /\ ~traced /\ traced' = TRUE /\ halted' = TRUE
                /\ stopped' = FALSE /\ waitFailed' = TRUE
AttachRefused == UNCHANGED <<traced, halted, stopped, waitFailed>>

(* AttachAndWaitStopped attaches and sees the stop exactly when it succeeds. *)
LEMMA AttachOutcome ==
    ASSUME NEW ok \in BOOLEAN, AttachAndWaitStopped(ok)
    PROVE  IF ok THEN AttachSees ELSE AttachMisses \/ AttachRefused
<1>1. CASE ok = TRUE
    BY <1>1 DEF AttachAndWaitStopped, AttachSees
<1>2. CASE ok = FALSE
    BY <1>2 DEF AttachAndWaitStopped, AttachMisses, AttachRefused
<1> QED
    BY <1>1, <1>2

(* Begin: the process is stopped already, or it is stopped now to be let   *)
(* go again, or the call fails.                                            *)
BeginDoes(c) ==
    /\ serving = c /\ step = "begin" /\ op[c] \in {"read", "write"}
    /\ UNCHANGED <<alive, mem, suspended, procVars, lockVars, watchVars, op, calls>>
    /\ \/ /\ stopped /\ step' = "access" /\ AttachRefused
          /\ UNCHANGED <<resume, serving, pc, result>>
       \/ /\ ~stopped /\ step' = "access" /\ resume' = TRUE /\ AttachSees
          /\ UNCHANGED <<serving, pc, result>>
       \/ /\ ~stopped /\ Finish(c) /\ Answer(c, "error")
          /\ AttachMisses \/ AttachRefused

(* Begin does no more than BeginDoes allows. *)
LEMMA BeginEffect ==
    ASSUME NEW c \in Callers, Begin(c)
    PROVE  BeginDoes(c)
<1>1. /\ serving = c /\ step = "begin" /\ op[c] \in {"read", "write"}
      /\ UNCHANGED <<alive, mem, suspended, procVars, lockVars, watchVars, op, calls>>
    BY DEF Begin
<1>2. CASE stopped
    BY <1>1, <1>2 DEF Begin, BeginDoes, AttachRefused
<1>3. CASE ~stopped
    <2>1. PICK ok \in BOOLEAN :
            /\ AttachAndWaitStopped(ok)
            /\ IF ok THEN step' = "access" /\ resume' = TRUE /\ UNCHANGED <<serving, pc, result>>
                     ELSE Finish(c) /\ Answer(c, "error")
        BY <1>3 DEF Begin
    <2>2. IF ok THEN AttachSees ELSE AttachMisses \/ AttachRefused
        BY <2>1, AttachOutcome
    <2> QED
        BY <1>1, <1>3, <2>1, <2>2 DEF BeginDoes
<1> QED
    BY <1>2, <1>3

(* Suspend: only an attach that sees the process stop counts as one.       *)
SuspendDoes(c) ==
    /\ serving = c /\ op[c] = "suspend" /\ Finish(c)
    /\ UNCHANGED <<alive, mem, procVars, lockVars, watchVars, op, calls>>
    /\ \/ AttachSees /\ suspended' = TRUE /\ Answer(c, "ok")
       \/ (AttachMisses \/ AttachRefused) /\ suspended' = suspended /\ Answer(c, "error")

(* Suspend does no more than SuspendDoes allows. *)
LEMMA SuspendEffect ==
    ASSUME NEW c \in Callers, suspended \in BOOLEAN, Suspend(c)
    PROVE  SuspendDoes(c)
<1>1. PICK ok \in BOOLEAN :
        /\ AttachAndWaitStopped(ok)
        /\ Answer(c, IF ok THEN "ok" ELSE "error")
        /\ suspended' = (suspended \/ ok)
    BY DEF Suspend
<1>2. IF ok THEN AttachSees ELSE AttachMisses \/ AttachRefused
    BY <1>1, AttachOutcome
<1>3. /\ serving = c /\ op[c] = "suspend" /\ Finish(c)
      /\ UNCHANGED <<alive, mem, procVars, lockVars, watchVars, op, calls>>
    BY DEF Suspend
<1>4. CASE ok
    BY <1>1, <1>2, <1>3, <1>4 DEF SuspendDoes
<1>5. CASE ~ok
    BY <1>1, <1>2, <1>3, <1>5 DEF SuspendDoes
<1> QED
    BY <1>4, <1>5

(* Detach called for itself goes on whatever the attach does.              *)
StopToDetachDoes(c) ==
    /\ serving = c /\ step = "begin" /\ op[c] \in {"resume", "detach"} /\ step' = "detach"
    /\ UNCHANGED <<alive, mem, suspended, serving, resume, procVars, lockVars, watchVars, pc, op,
                   result, calls>>
    /\ AttachRefused \/ (~stopped /\ (AttachSees \/ AttachMisses))

(* The stop before a detach does no more than StopToDetachDoes allows. *)
LEMMA StopToDetachEffect ==
    ASSUME NEW c \in Callers, StopToDetach(c)
    PROVE  StopToDetachDoes(c)
<1>1. /\ serving = c /\ step = "begin" /\ op[c] \in {"resume", "detach"} /\ step' = "detach"
      /\ UNCHANGED <<alive, mem, suspended, serving, resume, procVars, lockVars, watchVars, pc, op,
                     result, calls>>
    BY DEF StopToDetach
<1>2. CASE stopped /\ UNCHANGED <<traced, halted, stopped, waitFailed>>
    BY <1>1, <1>2 DEF StopToDetachDoes, AttachRefused
<1>3. CASE ~stopped /\ \E ok \in BOOLEAN : AttachAndWaitStopped(ok)
    <2>1. PICK ok \in BOOLEAN : AttachAndWaitStopped(ok)
        BY <1>3
    <2>2. IF ok THEN AttachSees ELSE AttachMisses \/ AttachRefused
        BY <2>1, AttachOutcome
    <2>3. AttachSees \/ AttachMisses \/ AttachRefused
        BY <2>2
    <2> QED
        BY <1>1, <1>3, <2>3 DEF StopToDetachDoes
<1> QED
    BY <1>2, <1>3 DEF StopToDetach

(* The type invariant in three parts.                                      *)
Flags == /\ alive \in BOOLEAN /\ traced \in BOOLEAN /\ halted \in BOOLEAN
         /\ stopped \in BOOLEAN /\ waitFailed \in BOOLEAN /\ suspended \in BOOLEAN
         /\ attached \in BOOLEAN /\ resume \in BOOLEAN /\ loopDone \in BOOLEAN

Cells ==
    /\ mem \in Values /\ calls \in 0 .. MaxCalls
    /\ mode \in {"procfs", "ptrace"} /\ file \in {"none", "open", "closed"}
    /\ thread \in {"none", "live", "cancelled", "exited"}
    /\ serving \in Callers \cup {Nobody} /\ step \in {"begin", "access", "detach"}
    /\ readers \subseteq Clients /\ writer \in Clients \cup {Nobody} /\ waiting \subseteq Clients
    /\ pc \in [Callers -> {"idle", "lock", "in", "ask", "handed", "answered",
                         "adding", "watching", "pick", "ended"}]
    /\ op \in [Callers -> ReadOps \cup WriteOps \cup {"none"}]
    /\ todo \subseteq Clients

Queues == \A c \in Clients : Len(watcher[c].reads) <= QueueCap

(* The types, by the variables that a step is likely to change. *)
LEMMA TypeParts ==
    /\ TypeOK <=> Flags /\ Cells /\ Queues
    /\ TypeOK' <=> Flags' /\ Cells' /\ Queues'
    BY DEF TypeOK, Flags, Cells, Queues

-----------------------------------------------------------------------------
(* Each part of the invariant is kept by every step.                       *)

(* Every step keeps the types. *)
LEMMA TypeStep ==
    ASSUME IInv, [Next]_vars
    PROVE  TypeOK'
<1>0. /\ IInv
      /\ TypeOK
      /\ Watchers
      /\ Clients \subseteq Callers
      /\ Loop \in Callers
    BY DEF IInv, TypeOK, Callers
<1>1. ASSUME NEW c \in Clients, Start(c) PROVE TypeOK'
    BY <1>1, <1>0, ProcessMemoryAssumption DEF Start, Goto, TypeOK, Values,
        kernelVars, tracerVars, procVars, serveVars, lockVars, watchVars
<1>2. ASSUME NEW c \in Clients, Interrupt(c) PROVE TypeOK'
    <2>1. Flags'
        BY <1>2, <1>0, TypeParts DEF Flags, Interrupt, Goto,
            kernelVars, tracerVars, procVars, serveVars, lockVars, watchVars
    <2>2. Cells'
        BY <1>2, <1>0, TypeParts, ProcessMemoryAssumption DEF Cells, Values, Interrupt, Goto,
            kernelVars, tracerVars, procVars, serveVars, lockVars, watchVars
    <2>3. Queues'
        BY <1>2, <1>0, TypeParts, ProcessMemoryAssumption DEF Queues, Watchers, WatcherType,
            Interrupt, Goto,
            kernelVars, tracerVars, procVars, serveVars, lockVars, watchVars
    <2> QED
        BY <2>1, <2>2, <2>3, TypeParts
<1>3. ASSUME NEW c \in Clients, Enter(c) PROVE TypeOK'
    BY <1>3, <1>0, ProcessMemoryAssumption DEF Enter, Goto, Unlock, Answer, TypeOK, Values,
        kernelVars, tracerVars, procVars, serveVars, lockVars, watchVars
<1>4. ASSUME NEW c \in Clients, Return(c) PROVE TypeOK'
    BY <1>4, <1>0, ProcessMemoryAssumption DEF Return, Goto, Unlock, Answer, TypeOK, Values,
        kernelVars, tracerVars, procVars, serveVars, lockVars, watchVars
<1>5. ASSUME NEW c \in Clients, SetMemoryMode(c) PROVE TypeOK'
    BY <1>5, <1>0, ProcessMemoryAssumption DEF SetMemoryMode, Goto, Answer, TypeOK, Values,
        kernelVars, tracerVars, procVars, serveVars, lockVars, watchVars
<1>6. ASSUME NEW c \in Clients, CloseProcess(c) PROVE TypeOK'
    <2>1. Flags'
        BY <1>6, <1>0, TypeParts DEF Flags, CloseProcess, Goto,
            kernelVars, tracerVars, procVars, serveVars, lockVars, watchVars
    <2>2. Cells'
        BY <1>6, <1>0, TypeParts, ProcessMemoryAssumption DEF Cells, Values, CloseProcess, Goto,
            kernelVars, tracerVars, procVars, serveVars, lockVars, watchVars
    <2>3. Queues'
        BY <1>6, <1>0, TypeParts, ProcessMemoryAssumption DEF Queues, Watchers, WatcherType,
            CloseProcess, Goto,
            kernelVars, tracerVars, procVars, serveVars, lockVars, watchVars
    <2> QED
        BY <2>1, <2>2, <2>3, TypeParts
<1>7. ASSUME NEW c \in Clients, FinishDetach(c) PROVE TypeOK'
    <2>1. Flags'
        BY <1>7, <1>0, TypeParts DEF Flags, FinishDetach, Goto, Unlock, Answer,
            kernelVars, tracerVars, procVars, serveVars, lockVars, watchVars
    <2>2. Cells'
        BY <1>7, <1>0, TypeParts, ProcessMemoryAssumption DEF Cells, Values, FinishDetach,
            Goto, Unlock, Answer,
            kernelVars, tracerVars, procVars, serveVars, lockVars, watchVars
    <2>3. Queues'
        BY <1>7, <1>0, TypeParts, ProcessMemoryAssumption DEF Queues, Watchers, WatcherType,
            FinishDetach, Goto, Unlock, Answer,
            kernelVars, tracerVars, procVars, serveVars, lockVars, watchVars
    <2> QED
        BY <2>1, <2>2, <2>3, TypeParts
<1>8. ASSUME NEW c \in Clients, NewWatch(c) PROVE TypeOK'
    BY <1>8, <1>0, ProcessMemoryAssumption DEF NewWatch, Goto, TypeOK, Values,
        kernelVars, tracerVars, procVars, serveVars, lockVars, watchVars
<1>9. ASSUME NEW c \in Clients, AddWatcher(c) PROVE TypeOK'
    <2>1. Flags'
        BY <1>9, <1>0, TypeParts DEF Flags, AddWatcher, Goto, Unlock, Answer,
            kernelVars, tracerVars, procVars, serveVars, lockVars, watchVars
    <2>2. Cells'
        BY <1>9, <1>0, TypeParts, ProcessMemoryAssumption DEF Cells, Values, AddWatcher, Goto,
            Unlock, Answer,
            kernelVars, tracerVars, procVars, serveVars, lockVars, watchVars
    <2>3. Queues'
        <3>1. \A d \in Clients : watcher'[d].reads = watcher[d].reads
            <4>1. watcher \in [Clients -> WatcherType] /\ watcher[c] \in WatcherType
                BY <1>0 DEF IInv, Watchers
            <4>2. \/ watcher' = [watcher EXCEPT ![c] = [watcher[c] EXCEPT !.state = "listed"]]
                  \/ watcher' = [watcher EXCEPT ![c] = [watcher[c] EXCEPT !.state = "refused"]]
                BY <1>9 DEF AddWatcher
            <4>3. watcher'[c].reads = watcher[c].reads
                BY <4>1, <4>2 DEF WatcherType
            <4> QED
                BY <4>1, <4>2, <4>3
        <3> QED
            BY <3>1, <1>0, TypeParts DEF Queues
    <2> QED
        BY <2>1, <2>2, <2>3, TypeParts
<1>10. ASSUME NEW c \in Clients, Show(c) PROVE TypeOK'
    BY <1>10, <1>0, ProcessMemoryAssumption DEF Show, Goto, TypeOK, Values,
        kernelVars, tracerVars, procVars, serveVars, lockVars, watchVars
<1>11. ASSUME NEW c \in Callers, AccessProcfs(c) PROVE TypeOK'
    BY <1>11, <1>0, ProcessMemoryAssumption DEF AccessProcfs, Goto, Answer, TypeOK, Values,
        kernelVars, tracerVars, procVars, serveVars, lockVars, watchVars
<1>12. ASSUME NEW c \in Callers, AskTracer(c) PROVE TypeOK'
    BY <1>12, <1>0, ProcessMemoryAssumption DEF AskTracer, Goto, Answer, TypeOK, Values,
        kernelVars, tracerVars, procVars, serveVars, lockVars, watchVars
<1>13. ASSUME NEW c \in Callers, Hand(c) PROVE TypeOK'
    <2>1. Flags'
        BY <1>13, <1>0, TypeParts DEF Flags, Hand, Goto,
            kernelVars, tracerVars, procVars, serveVars, lockVars, watchVars
    <2>2. Cells'
        BY <1>13, <1>0, TypeParts, ProcessMemoryAssumption DEF Cells, Values, Hand, Goto,
            kernelVars, tracerVars, procVars, serveVars, lockVars, watchVars
    <2>3. Queues'
        BY <1>13, <1>0, TypeParts, ProcessMemoryAssumption DEF Queues, Watchers, WatcherType,
            Hand, Goto,
            kernelVars, tracerVars, procVars, serveVars, lockVars, watchVars
    <2> QED
        BY <2>1, <2>2, <2>3, TypeParts
<1>14. ASSUME NEW c \in Callers, Refuse(c) PROVE TypeOK'
    BY <1>14, <1>0, ProcessMemoryAssumption DEF Refuse, Goto, Answer, TypeOK, Values,
        kernelVars, tracerVars, procVars, serveVars, lockVars, watchVars
<1>15. ASSUME NEW c \in Callers, Begin(c) PROVE TypeOK'
    <2>0. BeginDoes(c)
        BY <1>15, BeginEffect, TypeParts, <1>0 DEF Flags
    <2>1. Flags'
        BY <2>0, <1>0, TypeParts DEF Flags, BeginDoes, AttachSees, AttachMisses,
            AttachRefused, Finish, Answer, Goto,
            kernelVars, tracerVars, procVars, serveVars, lockVars, watchVars
    <2>2. Cells'
        BY <2>0, <1>0, TypeParts, ProcessMemoryAssumption DEF Cells, Values, BeginDoes,
            AttachSees, AttachMisses, AttachRefused, Finish, Answer, Goto,
            kernelVars, tracerVars, procVars, serveVars, lockVars, watchVars
    <2>3. Queues'
        BY <2>0, <1>0, TypeParts, ProcessMemoryAssumption DEF Queues, Watchers, WatcherType,
            BeginDoes, AttachSees, AttachMisses, AttachRefused, Finish, Answer, Goto,
            kernelVars, tracerVars, procVars, serveVars, lockVars, watchVars
    <2> QED
        BY <2>1, <2>2, <2>3, TypeParts
<1>16. ASSUME NEW c \in Callers, Access(c) PROVE TypeOK'
    <2>1. Flags'
        BY <1>16, <1>0, TypeParts DEF Flags, Access, Goto, Answer, Finish, Transfer, Stopped,
            kernelVars, tracerVars, procVars, serveVars, lockVars, watchVars
    <2>2. Cells'
        BY <1>16, <1>0, TypeParts, ProcessMemoryAssumption DEF Cells, Values, Access, Goto,
            Answer, Finish, Transfer, Stopped,
            kernelVars, tracerVars, procVars, serveVars, lockVars, watchVars
    <2>3. Queues'
        BY <1>16, <1>0, TypeParts, ProcessMemoryAssumption DEF Queues, Watchers, WatcherType,
            Access, Goto, Answer, Finish, Transfer, Stopped,
            kernelVars, tracerVars, procVars, serveVars, lockVars, watchVars
    <2> QED
        BY <2>1, <2>2, <2>3, TypeParts
<1>17. ASSUME NEW c \in Callers, Suspend(c) PROVE TypeOK'
    BY <1>17, <1>0, ProcessMemoryAssumption DEF Suspend, Goto, Answer, Finish,
        AttachAndWaitStopped, TypeOK, Values,
        kernelVars, tracerVars, procVars, serveVars, lockVars, watchVars
<1>18. ASSUME NEW c \in Callers, StopToDetach(c) PROVE TypeOK'
    <2>0. StopToDetachDoes(c)
        BY <1>18, StopToDetachEffect, TypeParts, <1>0 DEF Flags
    <2>1. Flags'
        BY <2>0, <1>0, TypeParts DEF Flags, StopToDetachDoes, AttachSees, AttachMisses,
            AttachRefused, Finish, Answer, Goto,
            kernelVars, tracerVars, procVars, serveVars, lockVars, watchVars
    <2>2. Cells'
        BY <2>0, <1>0, TypeParts, ProcessMemoryAssumption DEF Cells, Values, StopToDetachDoes,
            AttachSees, AttachMisses, AttachRefused, Finish, Answer, Goto,
            kernelVars, tracerVars, procVars, serveVars, lockVars, watchVars
    <2>3. Queues'
        BY <2>0, <1>0, TypeParts, ProcessMemoryAssumption DEF Queues, Watchers, WatcherType,
            StopToDetachDoes, AttachSees, AttachMisses, AttachRefused, Finish, Answer, Goto,
            kernelVars, tracerVars, procVars, serveVars, lockVars, watchVars
    <2> QED
        BY <2>1, <2>2, <2>3, TypeParts
<1>19. ASSUME NEW c \in Callers, Detach(c) PROVE TypeOK'
    BY <1>19, <1>0, ProcessMemoryAssumption DEF Detach, Goto, Answer, Finish, Stopped, TypeOK,
        Values,
        kernelVars, tracerVars, procVars, serveVars, lockVars, watchVars
<1>20. CASE ThreadExits
    BY <1>20, <1>0, ProcessMemoryAssumption DEF ThreadExits, Goto, TypeOK, Values,
        kernelVars, tracerVars, procVars, serveVars, lockVars, watchVars
<1>21. CASE Tick
    BY <1>21, <1>0, ProcessMemoryAssumption DEF Tick, Goto, Listed, TypeOK, Values,
        kernelVars, tracerVars, procVars, serveVars, lockVars, watchVars
<1>22. CASE LoopEnds
    BY <1>22, <1>0, ProcessMemoryAssumption DEF LoopEnds, Goto, Listed, TypeOK, Values,
        kernelVars, tracerVars, procVars, serveVars, lockVars, watchVars
<1>23. ASSUME NEW c \in Clients, RunCancelled(c) PROVE TypeOK'
    BY <1>23, <1>0, ProcessMemoryAssumption DEF RunCancelled, Goto, NextWatcher, Answer,
        TypeOK, Values,
        kernelVars, tracerVars, procVars, serveVars, lockVars, watchVars
<1>24. ASSUME NEW c \in Clients, RunReads(c) PROVE TypeOK'
    BY <1>24, <1>0, ProcessMemoryAssumption DEF RunReads, Goto, TypeOK, Values,
        kernelVars, tracerVars, procVars, serveVars, lockVars, watchVars
<1>25. ASSUME NEW c \in Clients, ReadFailed(c) PROVE TypeOK'
    BY <1>25, <1>0, ProcessMemoryAssumption DEF ReadFailed, Goto, NextWatcher, Answer,
        Running, TypeOK, Values,
        kernelVars, tracerVars, procVars, serveVars, lockVars, watchVars
<1>26. ASSUME NEW c \in Clients, ReadSame(c) PROVE TypeOK'
    BY <1>26, <1>0, ProcessMemoryAssumption DEF ReadSame, Goto, NextWatcher, Answer, Running,
        Bytes, TypeOK, Values,
        kernelVars, tracerVars, procVars, serveVars, lockVars, watchVars
<1>27. ASSUME NEW c \in Clients, Offer(c) PROVE TypeOK'
    <2>1. Flags'
        BY <1>27, <1>0, TypeParts DEF Flags, Offer, Goto, NextWatcher, Answer, Running, Bytes,
            kernelVars, tracerVars, procVars, serveVars, lockVars, watchVars
    <2>2. Cells'
        BY <1>27, <1>0, TypeParts, ProcessMemoryAssumption DEF Cells, Values, Offer, Goto,
            NextWatcher, Answer, Running, Bytes,
            kernelVars, tracerVars, procVars, serveVars, lockVars, watchVars
    <2>3. Queues'
        BY <1>27, <1>0, TypeParts, ProcessMemoryAssumption DEF Queues, Watchers, WatcherType,
            Offer, Goto, NextWatcher, Answer, Running, Bytes,
            kernelVars, tracerVars, procVars, serveVars, lockVars, watchVars
    <2> QED
        BY <2>1, <2>2, <2>3, TypeParts
<1>28. CASE Change
    BY <1>28, <1>0, ProcessMemoryAssumption DEF Change, Goto, TypeOK, Values,
        kernelVars, tracerVars, procVars, serveVars, lockVars, watchVars
<1>29. CASE Die
    <2>1. Flags'
        BY <1>29, <1>0, TypeParts DEF Flags, Die, Goto,
            kernelVars, tracerVars, procVars, serveVars, lockVars, watchVars
    <2>2. Cells'
        BY <1>29, <1>0, TypeParts, ProcessMemoryAssumption DEF Cells, Values, Die, Goto,
            kernelVars, tracerVars, procVars, serveVars, lockVars, watchVars
    <2>3. Queues'
        BY <1>29, <1>0, TypeParts, ProcessMemoryAssumption DEF Queues, Watchers, WatcherType,
            Die, Goto,
            kernelVars, tracerVars, procVars, serveVars, lockVars, watchVars
    <2> QED
        BY <2>1, <2>2, <2>3, TypeParts
<1>30. CASE UNCHANGED vars
    BY <1>30, <1>0 DEF TypeOK, Values, vars, kernelVars, tracerVars, procVars, serveVars,
        lockVars, watchVars
<1> QED
    BY <1>1, <1>2, <1>3, <1>4, <1>5, <1>6, <1>7, <1>8, <1>9, <1>10, <1>11, <1>12, <1>13,
        <1>14, <1>15, <1>16, <1>17, <1>18, <1>19, <1>20, <1>21, <1>22, <1>23, <1>24, <1>25,
        <1>26, <1>27, <1>28, <1>29, <1>30
    DEF Next, ClientStep, AccessStep, ThreadStep, LoopStep

(* Every step keeps the types of the watchers. *)
LEMMA WatchersStep ==
    ASSUME IInv, [Next]_vars
    PROVE  Watchers'
<1>0. /\ TypeOK
      /\ Watchers
      /\ Clients \subseteq Callers
      /\ Loop \in Callers
    BY DEF IInv, TypeOK, Callers
<1>1. ASSUME NEW c \in Clients, Start(c) PROVE Watchers'
    BY <1>1, <1>0, ProcessMemoryAssumption DEF Start, Goto, Watchers, WatcherType, Values,
        NewWatcher,
        kernelVars, tracerVars, procVars, serveVars, lockVars, watchVars
<1>2. ASSUME NEW c \in Clients, Interrupt(c) PROVE Watchers'
    <2>1. watcher[c] \in WatcherType
        BY <1>0 DEF Watchers
    <2>2. [watcher[c] EXCEPT !.cancelled = TRUE, !.reads = <<>>] \in WatcherType
        <3>1. <<>> \in Seq(Values)
            OBVIOUS
        <3> DEFINE empty == <<>>
        <3>2. empty \in Seq(Values)
            BY <3>1
        <3> HIDE DEF empty
        <3>3. [watcher[c] EXCEPT !.cancelled = TRUE, !.reads = empty] \in WatcherType
            BY <2>1, <3>2 DEF WatcherType
        <3> QED
            BY <3>3 DEF empty
    <2>3. /\ watcher' = [watcher EXCEPT ![c] = [watcher[c] EXCEPT !.cancelled = TRUE, !.reads = <<>>]]
          /\ seen' = [seen EXCEPT ![c] = Unknown] /\ dropped' = dropped
        BY <1>2 DEF Interrupt
    <2> QED
        BY <2>2, <2>3, <1>0 DEF Watchers
<1>3. ASSUME NEW c \in Clients, Enter(c) PROVE Watchers'
    BY <1>3, <1>0, ProcessMemoryAssumption DEF Enter, Goto, Unlock, Answer, Watchers,
        WatcherType, Values, NewWatcher,
        kernelVars, tracerVars, procVars, serveVars, lockVars, watchVars
<1>4. ASSUME NEW c \in Clients, Return(c) PROVE Watchers'
    BY <1>4, <1>0, ProcessMemoryAssumption DEF Return, Goto, Unlock, Answer, Watchers,
        WatcherType, Values, NewWatcher,
        kernelVars, tracerVars, procVars, serveVars, lockVars, watchVars
<1>5. ASSUME NEW c \in Clients, SetMemoryMode(c) PROVE Watchers'
    BY <1>5, <1>0, ProcessMemoryAssumption DEF SetMemoryMode, Goto, Answer, Watchers,
        WatcherType, Values, NewWatcher,
        kernelVars, tracerVars, procVars, serveVars, lockVars, watchVars
<1>6. ASSUME NEW c \in Clients, CloseProcess(c) PROVE Watchers'
    BY <1>6, <1>0, ProcessMemoryAssumption DEF CloseProcess, Goto, Watchers, WatcherType,
        Values, NewWatcher,
        kernelVars, tracerVars, procVars, serveVars, lockVars, watchVars
<1>7. ASSUME NEW c \in Clients, FinishDetach(c) PROVE Watchers'
    BY <1>7, <1>0, ProcessMemoryAssumption DEF FinishDetach, Goto, Unlock, Answer, Watchers,
        WatcherType, Values, NewWatcher,
        kernelVars, tracerVars, procVars, serveVars, lockVars, watchVars
<1>8. ASSUME NEW c \in Clients, NewWatch(c) PROVE Watchers'
    BY <1>8, <1>0, ProcessMemoryAssumption DEF NewWatch, Goto, Watchers, WatcherType, Values,
        NewWatcher,
        kernelVars, tracerVars, procVars, serveVars, lockVars, watchVars
<1>9. ASSUME NEW c \in Clients, AddWatcher(c) PROVE Watchers'
    <2>1. watcher[c] \in WatcherType
        BY <1>0 DEF Watchers
    <2>2. /\ [watcher[c] EXCEPT !.state = "listed"] \in WatcherType
          /\ [watcher[c] EXCEPT !.state = "refused"] \in WatcherType
        BY <2>1 DEF WatcherType
    <2>3. /\ \/ watcher' = [watcher EXCEPT ![c] = [watcher[c] EXCEPT !.state = "listed"]]
             \/ watcher' = [watcher EXCEPT ![c] = [watcher[c] EXCEPT !.state = "refused"]]
          /\ seen' = seen /\ dropped' = dropped
        BY <1>9 DEF AddWatcher
    <2> QED
        BY <2>2, <2>3, <1>0 DEF Watchers
<1>10. ASSUME NEW c \in Clients, Show(c) PROVE Watchers'
    <2>1. watcher[c] \in WatcherType
        BY <1>0 DEF Watchers
    <2>2. /\ watcher[c].reads \in Seq(Values) /\ watcher[c].reads # <<>>
        BY <1>10, <2>1 DEF Show, WatcherType
    <2>3. Head(watcher[c].reads) \in Values /\ Tail(watcher[c].reads) \in Seq(Values)
        BY <2>2
    <2>4. [watcher[c] EXCEPT !.reads = Tail(watcher[c].reads)] \in WatcherType
        BY <2>1, <2>3 DEF WatcherType
    <2>5. /\ watcher' = [watcher EXCEPT ![c] = [watcher[c] EXCEPT !.reads = Tail(watcher[c].reads)]]
          /\ seen' = [seen EXCEPT ![c] = Head(watcher[c].reads)] /\ dropped' = dropped
        BY <1>10 DEF Show
    <2> QED
        BY <2>3, <2>4, <2>5, <1>0 DEF Watchers
<1>11. ASSUME NEW c \in Callers, AccessProcfs(c) PROVE Watchers'
    BY <1>11, <1>0, ProcessMemoryAssumption DEF AccessProcfs, Goto, Answer, Watchers,
        WatcherType, Values, NewWatcher,
        kernelVars, tracerVars, procVars, serveVars, lockVars, watchVars
<1>12. ASSUME NEW c \in Callers, AskTracer(c) PROVE Watchers'
    BY <1>12, <1>0, ProcessMemoryAssumption DEF AskTracer, Goto, Answer, Watchers,
        WatcherType, Values, NewWatcher,
        kernelVars, tracerVars, procVars, serveVars, lockVars, watchVars
<1>13. ASSUME NEW c \in Callers, Hand(c) PROVE Watchers'
    BY <1>13, <1>0, ProcessMemoryAssumption DEF Hand, Goto, Watchers, WatcherType, Values,
        NewWatcher,
        kernelVars, tracerVars, procVars, serveVars, lockVars, watchVars
<1>14. ASSUME NEW c \in Callers, Refuse(c) PROVE Watchers'
    BY <1>14, <1>0, ProcessMemoryAssumption DEF Refuse, Goto, Answer, Watchers, WatcherType,
        Values, NewWatcher,
        kernelVars, tracerVars, procVars, serveVars, lockVars, watchVars
<1>15. ASSUME NEW c \in Callers, Begin(c) PROVE Watchers'
    BY <1>15, <1>0, ProcessMemoryAssumption DEF Begin, Goto, Answer, Finish,
        AttachAndWaitStopped, Watchers, WatcherType, Values, NewWatcher,
        kernelVars, tracerVars, procVars, serveVars, lockVars, watchVars
<1>16. ASSUME NEW c \in Callers, Access(c) PROVE Watchers'
    BY <1>16, <1>0, ProcessMemoryAssumption DEF Access, Goto, Answer, Finish, Transfer,
        Stopped, Watchers, WatcherType, Values, NewWatcher,
        kernelVars, tracerVars, procVars, serveVars, lockVars, watchVars
<1>17. ASSUME NEW c \in Callers, Suspend(c) PROVE Watchers'
    BY <1>17, <1>0, ProcessMemoryAssumption DEF Suspend, Goto, Answer, Finish,
        AttachAndWaitStopped, Watchers, WatcherType, Values, NewWatcher,
        kernelVars, tracerVars, procVars, serveVars, lockVars, watchVars
<1>18. ASSUME NEW c \in Callers, StopToDetach(c) PROVE Watchers'
    BY <1>18, <1>0, ProcessMemoryAssumption DEF StopToDetach, Goto, AttachAndWaitStopped,
        Watchers, WatcherType, Values, NewWatcher,
        kernelVars, tracerVars, procVars, serveVars, lockVars, watchVars
<1>19. ASSUME NEW c \in Callers, Detach(c) PROVE Watchers'
    BY <1>19, <1>0, ProcessMemoryAssumption DEF Detach, Goto, Answer, Finish, Stopped,
        Watchers, WatcherType, Values, NewWatcher,
        kernelVars, tracerVars, procVars, serveVars, lockVars, watchVars
<1>20. CASE ThreadExits
    BY <1>20, <1>0, ProcessMemoryAssumption DEF ThreadExits, Goto, Watchers, WatcherType,
        Values, NewWatcher,
        kernelVars, tracerVars, procVars, serveVars, lockVars, watchVars
<1>21. CASE Tick
    BY <1>21, <1>0, ProcessMemoryAssumption DEF Tick, Goto, Listed, Watchers, WatcherType,
        Values, NewWatcher,
        kernelVars, tracerVars, procVars, serveVars, lockVars, watchVars
<1>22. CASE LoopEnds
    BY <1>22, <1>0, ProcessMemoryAssumption DEF LoopEnds, Goto, Listed, Watchers, WatcherType,
        Values, NewWatcher,
        kernelVars, tracerVars, procVars, serveVars, lockVars, watchVars
<1>23. ASSUME NEW c \in Clients, RunCancelled(c) PROVE Watchers'
    BY <1>23, <1>0, ProcessMemoryAssumption DEF RunCancelled, Goto, NextWatcher, Answer,
        Watchers, WatcherType, Values, NewWatcher,
        kernelVars, tracerVars, procVars, serveVars, lockVars, watchVars
<1>24. ASSUME NEW c \in Clients, RunReads(c) PROVE Watchers'
    BY <1>24, <1>0, ProcessMemoryAssumption DEF RunReads, Goto, Watchers, WatcherType, Values,
        NewWatcher,
        kernelVars, tracerVars, procVars, serveVars, lockVars, watchVars
<1>25. ASSUME NEW c \in Clients, ReadFailed(c) PROVE Watchers'
    BY <1>25, <1>0, ProcessMemoryAssumption DEF ReadFailed, Goto, NextWatcher, Answer,
        Running, Watchers, WatcherType, Values, NewWatcher,
        kernelVars, tracerVars, procVars, serveVars, lockVars, watchVars
<1>26. ASSUME NEW c \in Clients, ReadSame(c) PROVE Watchers'
    BY <1>26, <1>0, ProcessMemoryAssumption DEF ReadSame, Goto, NextWatcher, Answer, Running,
        Bytes, Watchers, WatcherType, Values, NewWatcher,
        kernelVars, tracerVars, procVars, serveVars, lockVars, watchVars
<1>27. ASSUME NEW c \in Clients, Offer(c) PROVE Watchers'
    BY <1>27, <1>0, ProcessMemoryAssumption DEF Offer, Goto, NextWatcher, Answer, Running,
        Bytes, Watchers, WatcherType, Values, NewWatcher,
        kernelVars, tracerVars, procVars, serveVars, lockVars, watchVars
<1>28. CASE Change
    BY <1>28, <1>0, ProcessMemoryAssumption DEF Change, Goto, Watchers, WatcherType, Values,
        NewWatcher,
        kernelVars, tracerVars, procVars, serveVars, lockVars, watchVars
<1>29. CASE Die
    BY <1>29, <1>0, ProcessMemoryAssumption DEF Die, Goto, Watchers, WatcherType, Values,
        NewWatcher,
        kernelVars, tracerVars, procVars, serveVars, lockVars, watchVars
<1>30. CASE UNCHANGED vars
    BY <1>30, <1>0 DEF Watchers, WatcherType, Values, NewWatcher, vars, kernelVars,
        tracerVars, procVars, serveVars, lockVars, watchVars
<1> QED
    BY <1>1, <1>2, <1>3, <1>4, <1>5, <1>6, <1>7, <1>8, <1>9, <1>10, <1>11, <1>12, <1>13,
        <1>14, <1>15, <1>16, <1>17, <1>18, <1>19, <1>20, <1>21, <1>22, <1>23, <1>24, <1>25,
        <1>26, <1>27, <1>28, <1>29, <1>30
    DEF Next, ClientStep, AccessStep, ThreadStep, LoopStep

(* Every step keeps the type of the answers. *)
LEMMA ResultsStep ==
    ASSUME IInv, [Next]_vars
    PROVE  Results'
<1>0. /\ TypeOK
      /\ Results
      /\ Clients \subseteq Callers
      /\ Loop \in Callers
    BY DEF IInv, TypeOK, Callers
<1>1. ASSUME NEW c \in Clients, Start(c) PROVE Results'
    BY <1>1, <1>0, ProcessMemoryAssumption DEF Start, Goto, Results,
        kernelVars, tracerVars, procVars, serveVars, lockVars, watchVars
<1>2. ASSUME NEW c \in Clients, Interrupt(c) PROVE Results'
    BY <1>2, <1>0, ProcessMemoryAssumption DEF Interrupt, Goto, Results,
        kernelVars, tracerVars, procVars, serveVars, lockVars, watchVars
<1>3. ASSUME NEW c \in Clients, Enter(c) PROVE Results'
    BY <1>3, <1>0, ProcessMemoryAssumption DEF Enter, Goto, Unlock, Answer, Results,
        kernelVars, tracerVars, procVars, serveVars, lockVars, watchVars
<1>4. ASSUME NEW c \in Clients, Return(c) PROVE Results'
    BY <1>4, <1>0, ProcessMemoryAssumption DEF Return, Goto, Unlock, Answer, Results,
        kernelVars, tracerVars, procVars, serveVars, lockVars, watchVars
<1>5. ASSUME NEW c \in Clients, SetMemoryMode(c) PROVE Results'
    BY <1>5, <1>0, ProcessMemoryAssumption DEF SetMemoryMode, Goto, Answer, Results,
        kernelVars, tracerVars, procVars, serveVars, lockVars, watchVars
<1>6. ASSUME NEW c \in Clients, CloseProcess(c) PROVE Results'
    BY <1>6, <1>0, ProcessMemoryAssumption DEF CloseProcess, Goto, Results,
        kernelVars, tracerVars, procVars, serveVars, lockVars, watchVars
<1>7. ASSUME NEW c \in Clients, FinishDetach(c) PROVE Results'
    BY <1>7, <1>0, ProcessMemoryAssumption DEF FinishDetach, Goto, Unlock, Answer, Results,
        kernelVars, tracerVars, procVars, serveVars, lockVars, watchVars
<1>8. ASSUME NEW c \in Clients, NewWatch(c) PROVE Results'
    BY <1>8, <1>0, ProcessMemoryAssumption DEF NewWatch, Goto, Results,
        kernelVars, tracerVars, procVars, serveVars, lockVars, watchVars
<1>9. ASSUME NEW c \in Clients, AddWatcher(c) PROVE Results'
    BY <1>9, <1>0, ProcessMemoryAssumption DEF AddWatcher, Goto, Unlock, Answer, Results,
        kernelVars, tracerVars, procVars, serveVars, lockVars, watchVars
<1>10. ASSUME NEW c \in Clients, Show(c) PROVE Results'
    BY <1>10, <1>0, ProcessMemoryAssumption DEF Show, Goto, Results,
        kernelVars, tracerVars, procVars, serveVars, lockVars, watchVars
<1>11. ASSUME NEW c \in Callers, AccessProcfs(c) PROVE Results'
    <2>1. file \in {"none", "open", "closed"}
        BY <1>0, TypeParts DEF Cells
    <2> DEFINE r == CASE file = "none" -> "nofile" [] file = "closed" -> "error"
                      [] file = "open" -> IF op[c] = "write" /\ ~alive THEN "error" ELSE "ok"
    <2>2. r \in {"nofile", "error", "ok"}
        <3>1. CASE file = "none"
            BY <3>1
        <3>2. CASE file = "closed"
            BY <3>2
        <3>3. CASE file = "open"
            BY <3>3
        <3> QED
            BY <2>1, <3>1, <3>2, <3>3
    <2>3. result' = [result EXCEPT ![c] = r]
        BY <1>11 DEF AccessProcfs, Answer
    <2> HIDE DEF r
    <2> QED
        BY <2>2, <2>3, <1>0 DEF Results
<1>12. ASSUME NEW c \in Callers, AskTracer(c) PROVE Results'
    BY <1>12, <1>0, ProcessMemoryAssumption DEF AskTracer, Goto, Answer, Results,
        kernelVars, tracerVars, procVars, serveVars, lockVars, watchVars
<1>13. ASSUME NEW c \in Callers, Hand(c) PROVE Results'
    BY <1>13, <1>0, ProcessMemoryAssumption DEF Hand, Goto, Results,
        kernelVars, tracerVars, procVars, serveVars, lockVars, watchVars
<1>14. ASSUME NEW c \in Callers, Refuse(c) PROVE Results'
    BY <1>14, <1>0, ProcessMemoryAssumption DEF Refuse, Goto, Answer, Results,
        kernelVars, tracerVars, procVars, serveVars, lockVars, watchVars
<1>15. ASSUME NEW c \in Callers, Begin(c) PROVE Results'
    <2>1. BeginDoes(c)
        BY <1>15, BeginEffect, TypeParts, <1>0 DEF Flags
    <2> QED
        BY <2>1, <1>0, ProcessMemoryAssumption
        DEF BeginDoes, AttachSees, AttachMisses, AttachRefused, Finish, Goto, Answer, Results
<1>16. ASSUME NEW c \in Callers, Access(c) PROVE Results'
    BY <1>16, <1>0, ProcessMemoryAssumption DEF Access, Goto, Answer, Finish, Transfer,
        Stopped, Results,
        kernelVars, tracerVars, procVars, serveVars, lockVars, watchVars
<1>17. ASSUME NEW c \in Callers, Suspend(c) PROVE Results'
    <2>1. SuspendDoes(c)
        BY <1>17, SuspendEffect, TypeParts, <1>0 DEF Flags
    <2> QED
        BY <2>1, <1>0, ProcessMemoryAssumption
        DEF SuspendDoes, AttachSees, AttachMisses, AttachRefused, Finish, Goto, Answer, Results
<1>18. ASSUME NEW c \in Callers, StopToDetach(c) PROVE Results'
    <2>1. StopToDetachDoes(c)
        BY <1>18, StopToDetachEffect, TypeParts, <1>0 DEF Flags
    <2> QED
        BY <2>1, <1>0, ProcessMemoryAssumption
        DEF StopToDetachDoes, AttachSees, AttachMisses, AttachRefused, Finish, Goto, Answer,
            Results
<1>19. ASSUME NEW c \in Callers, Detach(c) PROVE Results'
    BY <1>19, <1>0, ProcessMemoryAssumption DEF Detach, Goto, Answer, Finish, Stopped, Results,
        kernelVars, tracerVars, procVars, serveVars, lockVars, watchVars
<1>20. CASE ThreadExits
    BY <1>20, <1>0, ProcessMemoryAssumption DEF ThreadExits, Goto, Results,
        kernelVars, tracerVars, procVars, serveVars, lockVars, watchVars
<1>21. CASE Tick
    BY <1>21, <1>0, ProcessMemoryAssumption DEF Tick, Goto, Listed, Results,
        kernelVars, tracerVars, procVars, serveVars, lockVars, watchVars
<1>22. CASE LoopEnds
    BY <1>22, <1>0, ProcessMemoryAssumption DEF LoopEnds, Goto, Listed, Results,
        kernelVars, tracerVars, procVars, serveVars, lockVars, watchVars
<1>23. ASSUME NEW c \in Clients, RunCancelled(c) PROVE Results'
    BY <1>23, <1>0, ProcessMemoryAssumption DEF RunCancelled, Goto, NextWatcher, Answer,
        Results,
        kernelVars, tracerVars, procVars, serveVars, lockVars, watchVars
<1>24. ASSUME NEW c \in Clients, RunReads(c) PROVE Results'
    BY <1>24, <1>0, ProcessMemoryAssumption DEF RunReads, Goto, Results,
        kernelVars, tracerVars, procVars, serveVars, lockVars, watchVars
<1>25. ASSUME NEW c \in Clients, ReadFailed(c) PROVE Results'
    BY <1>25, <1>0, ProcessMemoryAssumption DEF ReadFailed, Goto, NextWatcher, Answer,
        Running, Results,
        kernelVars, tracerVars, procVars, serveVars, lockVars, watchVars
<1>26. ASSUME NEW c \in Clients, ReadSame(c) PROVE Results'
    BY <1>26, <1>0, ProcessMemoryAssumption DEF ReadSame, Goto, NextWatcher, Answer, Running,
        Bytes, Results,
        kernelVars, tracerVars, procVars, serveVars, lockVars, watchVars
<1>27. ASSUME NEW c \in Clients, Offer(c) PROVE Results'
    BY <1>27, <1>0, ProcessMemoryAssumption DEF Offer, Goto, NextWatcher, Answer, Running,
        Bytes, Results,
        kernelVars, tracerVars, procVars, serveVars, lockVars, watchVars
<1>28. CASE Change
    BY <1>28, <1>0, ProcessMemoryAssumption DEF Change, Goto, Results,
        kernelVars, tracerVars, procVars, serveVars, lockVars, watchVars
<1>29. CASE Die
    BY <1>29, <1>0, ProcessMemoryAssumption DEF Die, Goto, Results,
        kernelVars, tracerVars, procVars, serveVars, lockVars, watchVars
<1>30. CASE UNCHANGED vars
    BY <1>30, <1>0 DEF Results, vars, kernelVars, tracerVars, procVars, serveVars, lockVars,
        watchVars
<1> QED
    BY <1>1, <1>2, <1>3, <1>4, <1>5, <1>6, <1>7, <1>8, <1>9, <1>10, <1>11, <1>12, <1>13,
        <1>14, <1>15, <1>16, <1>17, <1>18, <1>19, <1>20, <1>21, <1>22, <1>23, <1>24, <1>25,
        <1>26, <1>27, <1>28, <1>29, <1>30
    DEF Next, ClientStep, AccessStep, ThreadStep, LoopStep

(* The thread serves a caller that waits. *)
LEMMA ServedStep ==
    ASSUME IInv, [Next]_vars
    PROVE  Served'
<1>0. /\ TypeOK
      /\ Served
      /\ pc \in [Callers -> {"idle", "lock", "in", "ask", "handed", "answered",
                         "adding", "watching", "pick", "ended"}]
      /\ Clients \subseteq Callers
      /\ Loop \in Callers
    BY DEF IInv, TypeOK, Callers
<1>1. ASSUME NEW c \in Clients, Start(c) PROVE Served'
    BY <1>1, <1>0, ProcessMemoryAssumption DEF Start, Goto, Served,
        kernelVars, tracerVars, procVars, serveVars, lockVars, watchVars
<1>2. ASSUME NEW c \in Clients, Interrupt(c) PROVE Served'
    BY <1>2, <1>0, ProcessMemoryAssumption DEF Interrupt, Goto, Served,
        kernelVars, tracerVars, procVars, serveVars, lockVars, watchVars
<1>3. ASSUME NEW c \in Clients, Enter(c) PROVE Served'
    BY <1>3, <1>0, ProcessMemoryAssumption DEF Enter, Goto, Unlock, Answer, Served,
        kernelVars, tracerVars, procVars, serveVars, lockVars, watchVars
<1>4. ASSUME NEW c \in Clients, Return(c) PROVE Served'
    BY <1>4, <1>0, ProcessMemoryAssumption DEF Return, Goto, Unlock, Answer, Served,
        kernelVars, tracerVars, procVars, serveVars, lockVars, watchVars
<1>5. ASSUME NEW c \in Clients, SetMemoryMode(c) PROVE Served'
    BY <1>5, <1>0, ProcessMemoryAssumption DEF SetMemoryMode, Goto, Answer, Served,
        kernelVars, tracerVars, procVars, serveVars, lockVars, watchVars
<1>6. ASSUME NEW c \in Clients, CloseProcess(c) PROVE Served'
    BY <1>6, <1>0, ProcessMemoryAssumption DEF CloseProcess, Goto, Served,
        kernelVars, tracerVars, procVars, serveVars, lockVars, watchVars
<1>7. ASSUME NEW c \in Clients, FinishDetach(c) PROVE Served'
    BY <1>7, <1>0, ProcessMemoryAssumption DEF FinishDetach, Goto, Unlock, Answer, Served,
        kernelVars, tracerVars, procVars, serveVars, lockVars, watchVars
<1>8. ASSUME NEW c \in Clients, NewWatch(c) PROVE Served'
    BY <1>8, <1>0, ProcessMemoryAssumption DEF NewWatch, Goto, Served,
        kernelVars, tracerVars, procVars, serveVars, lockVars, watchVars
<1>9. ASSUME NEW c \in Clients, AddWatcher(c) PROVE Served'
    BY <1>9, <1>0, ProcessMemoryAssumption DEF AddWatcher, Goto, Unlock, Answer, Served,
        kernelVars, tracerVars, procVars, serveVars, lockVars, watchVars
<1>10. ASSUME NEW c \in Clients, Show(c) PROVE Served'
    BY <1>10, <1>0, ProcessMemoryAssumption DEF Show, Goto, Served,
        kernelVars, tracerVars, procVars, serveVars, lockVars, watchVars
<1>11. ASSUME NEW c \in Callers, AccessProcfs(c) PROVE Served'
    BY <1>11, <1>0, ProcessMemoryAssumption DEF AccessProcfs, Goto, Answer, Served,
        kernelVars, tracerVars, procVars, serveVars, lockVars, watchVars
<1>12. ASSUME NEW c \in Callers, AskTracer(c) PROVE Served'
    BY <1>12, <1>0, ProcessMemoryAssumption DEF AskTracer, Goto, Answer, Served,
        kernelVars, tracerVars, procVars, serveVars, lockVars, watchVars
<1>13. ASSUME NEW c \in Callers, Hand(c) PROVE Served'
    BY <1>13, <1>0, ProcessMemoryAssumption DEF Hand, Goto, Served,
        kernelVars, tracerVars, procVars, serveVars, lockVars, watchVars
<1>14. ASSUME NEW c \in Callers, Refuse(c) PROVE Served'
    BY <1>14, <1>0, ProcessMemoryAssumption DEF Refuse, Goto, Answer, Served,
        kernelVars, tracerVars, procVars, serveVars, lockVars, watchVars
<1>15. ASSUME NEW c \in Callers, Begin(c) PROVE Served'
    <2>1. BeginDoes(c)
        BY <1>15, BeginEffect
    <2>2. CASE Finish(c)
        BY <2>2 DEF Finish, Served
    <2>3. CASE step' = "access" /\ serving' = serving /\ pc' = pc
        BY <2>3, <1>0, <2>1, ProcessMemoryAssumption DEF BeginDoes, Served, Callers
    <2> QED
        BY <2>1, <2>2, <2>3 DEF BeginDoes
<1>16. ASSUME NEW c \in Callers, Access(c) PROVE Served'
    BY <1>16, <1>0, ProcessMemoryAssumption DEF Access, Goto, Answer, Finish, Transfer,
        Stopped, Served,
        kernelVars, tracerVars, procVars, serveVars, lockVars, watchVars
<1>17. ASSUME NEW c \in Callers, Suspend(c) PROVE Served'
    <2>1. SuspendDoes(c)
        BY <1>17, SuspendEffect, TypeParts, <1>0 DEF Flags
    <2> QED
        BY <2>1, <1>0, ProcessMemoryAssumption
        DEF SuspendDoes, AttachSees, AttachMisses, AttachRefused, Finish, Goto, Served
<1>18. ASSUME NEW c \in Callers, StopToDetach(c) PROVE Served'
    <2>1. serving = c /\ step' = "detach" /\ serving' = serving /\ pc' = pc
        BY <1>18 DEF StopToDetach
    <2> QED
        BY <2>1, <1>0, ProcessMemoryAssumption DEF Served, Callers
<1>19. ASSUME NEW c \in Callers, Detach(c) PROVE Served'
    BY <1>19, <1>0, ProcessMemoryAssumption DEF Detach, Goto, Answer, Finish, Stopped, Served,
        kernelVars, tracerVars, procVars, serveVars, lockVars, watchVars
<1>20. CASE ThreadExits
    BY <1>20, <1>0, ProcessMemoryAssumption DEF ThreadExits, Goto, Served,
        kernelVars, tracerVars, procVars, serveVars, lockVars, watchVars
<1>21. CASE Tick
    BY <1>21, <1>0, ProcessMemoryAssumption DEF Tick, Goto, Listed, Served,
        kernelVars, tracerVars, procVars, serveVars, lockVars, watchVars
<1>22. CASE LoopEnds
    BY <1>22, <1>0, ProcessMemoryAssumption DEF LoopEnds, Goto, Listed, Served,
        kernelVars, tracerVars, procVars, serveVars, lockVars, watchVars
<1>23. ASSUME NEW c \in Clients, RunCancelled(c) PROVE Served'
    BY <1>23, <1>0, ProcessMemoryAssumption DEF RunCancelled, Goto, NextWatcher, Answer, Served,
        kernelVars, tracerVars, procVars, serveVars, lockVars, watchVars
<1>24. ASSUME NEW c \in Clients, RunReads(c) PROVE Served'
    BY <1>24, <1>0, ProcessMemoryAssumption DEF RunReads, Goto, Served,
        kernelVars, tracerVars, procVars, serveVars, lockVars, watchVars
<1>25. ASSUME NEW c \in Clients, ReadFailed(c) PROVE Served'
    BY <1>25, <1>0, ProcessMemoryAssumption DEF ReadFailed, Goto, NextWatcher, Answer,
        Running, Served,
        kernelVars, tracerVars, procVars, serveVars, lockVars, watchVars
<1>26. ASSUME NEW c \in Clients, ReadSame(c) PROVE Served'
    BY <1>26, <1>0, ProcessMemoryAssumption DEF ReadSame, Goto, NextWatcher, Answer, Running,
        Bytes, Served,
        kernelVars, tracerVars, procVars, serveVars, lockVars, watchVars
<1>27. ASSUME NEW c \in Clients, Offer(c) PROVE Served'
    BY <1>27, <1>0, ProcessMemoryAssumption DEF Offer, Goto, NextWatcher, Answer, Running,
        Bytes, Served,
        kernelVars, tracerVars, procVars, serveVars, lockVars, watchVars
<1>28. CASE Change
    BY <1>28, <1>0, ProcessMemoryAssumption DEF Change, Goto, Served,
        kernelVars, tracerVars, procVars, serveVars, lockVars, watchVars
<1>29. CASE Die
    BY <1>29, <1>0, ProcessMemoryAssumption DEF Die, Goto, Served,
        kernelVars, tracerVars, procVars, serveVars, lockVars, watchVars
<1>30. CASE UNCHANGED vars
    BY <1>30, <1>0 DEF Served, vars, kernelVars, tracerVars, procVars, serveVars, lockVars,
        watchVars
<1> QED
    BY <1>1, <1>2, <1>3, <1>4, <1>5, <1>6, <1>7, <1>8, <1>9, <1>10, <1>11, <1>12, <1>13,
        <1>14, <1>15, <1>16, <1>17, <1>18, <1>19, <1>20, <1>21, <1>22, <1>23, <1>24, <1>25,
        <1>26, <1>27, <1>28, <1>29, <1>30
    DEF Next, ClientStep, AccessStep, ThreadStep, LoopStep

(* The flag, the kernel and the user's wish. *)
LEMMA TracingStep ==
    ASSUME IInv, [Next]_vars
    PROVE  Tracing'
<1>0. /\ TypeOK
      /\ Served
      /\ Tracing
      /\ pc \in [Callers -> {"idle", "lock", "in", "ask", "handed", "answered",
                         "adding", "watching", "pick", "ended"}]
      /\ op \in [Callers -> ReadOps \cup WriteOps \cup {"none"}]
      /\ Clients \subseteq Callers
      /\ Loop \in Callers
    BY DEF IInv, TypeOK, Callers
<1>1. ASSUME NEW c \in Clients, Start(c) PROVE Tracing'
    BY <1>1, <1>0, ProcessMemoryAssumption DEF Start, Goto, Tracing, Borrows, Served,
        kernelVars, tracerVars, procVars, serveVars, lockVars, watchVars
<1>2. ASSUME NEW c \in Clients, Interrupt(c) PROVE Tracing'
    BY <1>2, <1>0, ProcessMemoryAssumption DEF Interrupt, Goto, Tracing, Borrows, Served,
        kernelVars, tracerVars, procVars, serveVars, lockVars, watchVars
<1>3. ASSUME NEW c \in Clients, Enter(c) PROVE Tracing'
    BY <1>3, <1>0, ProcessMemoryAssumption DEF Enter, Goto, Unlock, Answer, Tracing, Borrows,
        Served,
        kernelVars, tracerVars, procVars, serveVars, lockVars, watchVars
<1>4. ASSUME NEW c \in Clients, Return(c) PROVE Tracing'
    BY <1>4, <1>0, ProcessMemoryAssumption DEF Return, Goto, Unlock, Answer, Tracing, Borrows,
        Served,
        kernelVars, tracerVars, procVars, serveVars, lockVars, watchVars
<1>5. ASSUME NEW c \in Clients, SetMemoryMode(c) PROVE Tracing'
    BY <1>5, <1>0, ProcessMemoryAssumption DEF SetMemoryMode, Goto, Answer, Tracing, Borrows,
        Served,
        kernelVars, tracerVars, procVars, serveVars, lockVars, watchVars
<1>6. ASSUME NEW c \in Clients, CloseProcess(c) PROVE Tracing'
    BY <1>6, <1>0, ProcessMemoryAssumption DEF CloseProcess, Goto, Tracing, Borrows, Served,
        kernelVars, tracerVars, procVars, serveVars, lockVars, watchVars
<1>7. ASSUME NEW c \in Clients, FinishDetach(c) PROVE Tracing'
    BY <1>7, <1>0, ProcessMemoryAssumption DEF FinishDetach, Goto, Unlock, Answer, Tracing,
        Borrows, Served,
        kernelVars, tracerVars, procVars, serveVars, lockVars, watchVars
<1>8. ASSUME NEW c \in Clients, NewWatch(c) PROVE Tracing'
    BY <1>8, <1>0, ProcessMemoryAssumption DEF NewWatch, Goto, Tracing, Borrows, Served,
        kernelVars, tracerVars, procVars, serveVars, lockVars, watchVars
<1>9. ASSUME NEW c \in Clients, AddWatcher(c) PROVE Tracing'
    BY <1>9, <1>0, ProcessMemoryAssumption DEF AddWatcher, Goto, Unlock, Answer, Tracing,
        Borrows, Served,
        kernelVars, tracerVars, procVars, serveVars, lockVars, watchVars
<1>10. ASSUME NEW c \in Clients, Show(c) PROVE Tracing'
    BY <1>10, <1>0, ProcessMemoryAssumption DEF Show, Goto, Tracing, Borrows, Served,
        kernelVars, tracerVars, procVars, serveVars, lockVars, watchVars
<1>11. ASSUME NEW c \in Callers, AccessProcfs(c) PROVE Tracing'
    BY <1>11, <1>0, ProcessMemoryAssumption DEF AccessProcfs, Goto, Answer, Tracing, Borrows,
        Served,
        kernelVars, tracerVars, procVars, serveVars, lockVars, watchVars
<1>12. ASSUME NEW c \in Callers, AskTracer(c) PROVE Tracing'
    BY <1>12, <1>0, ProcessMemoryAssumption DEF AskTracer, Goto, Answer, Tracing, Borrows,
        Served,
        kernelVars, tracerVars, procVars, serveVars, lockVars, watchVars
<1>13. ASSUME NEW c \in Callers, Hand(c) PROVE Tracing'
    BY <1>13, <1>0, ProcessMemoryAssumption DEF Hand, Goto, Tracing, Borrows, Served,
        kernelVars, tracerVars, procVars, serveVars, lockVars, watchVars
<1>14. ASSUME NEW c \in Callers, Refuse(c) PROVE Tracing'
    BY <1>14, <1>0, ProcessMemoryAssumption DEF Refuse, Goto, Answer, Tracing, Borrows, Served,
        kernelVars, tracerVars, procVars, serveVars, lockVars, watchVars
<1>15. ASSUME NEW c \in Callers, Begin(c) PROVE Tracing'
    <2>1. BeginDoes(c)
        BY <1>15, BeginEffect, TypeParts, <1>0 DEF Flags
    <2> QED
        BY <2>1, <1>0, ProcessMemoryAssumption
        DEF BeginDoes, AttachSees, AttachMisses, AttachRefused, Finish, Goto, Served, Tracing,
            Borrows
<1>16. ASSUME NEW c \in Callers, Access(c) PROVE Tracing'
    BY <1>16, <1>0, ProcessMemoryAssumption DEF Access, Goto, Answer, Finish, Transfer,
        Stopped, Tracing, Borrows, Served,
        kernelVars, tracerVars, procVars, serveVars, lockVars, watchVars
<1>17. ASSUME NEW c \in Callers, Suspend(c) PROVE Tracing'
    <2>1. SuspendDoes(c)
        BY <1>17, SuspendEffect, TypeParts, <1>0 DEF Flags
    <2> QED
        BY <2>1, <1>0, ProcessMemoryAssumption
        DEF SuspendDoes, AttachSees, AttachMisses, AttachRefused, Finish, Goto, Served,
            Tracing, Borrows
<1>18. ASSUME NEW c \in Callers, StopToDetach(c) PROVE Tracing'
    <2>1. StopToDetachDoes(c)
        BY <1>18, StopToDetachEffect, TypeParts, <1>0 DEF Flags
    <2> QED
        BY <2>1, <1>0, ProcessMemoryAssumption
        DEF StopToDetachDoes, AttachSees, AttachMisses, AttachRefused, Finish, Goto, Served,
            Tracing, Borrows
<1>19. ASSUME NEW c \in Callers, Detach(c) PROVE Tracing'
    BY <1>19, <1>0, ProcessMemoryAssumption DEF Detach, Goto, Answer, Finish, Stopped,
        Tracing, Borrows, Served,
        kernelVars, tracerVars, procVars, serveVars, lockVars, watchVars
<1>20. CASE ThreadExits
    BY <1>20, <1>0, ProcessMemoryAssumption DEF ThreadExits, Goto, Tracing, Borrows, Served,
        kernelVars, tracerVars, procVars, serveVars, lockVars, watchVars
<1>21. CASE Tick
    BY <1>21, <1>0, ProcessMemoryAssumption DEF Tick, Goto, Listed, Tracing, Borrows, Served,
        kernelVars, tracerVars, procVars, serveVars, lockVars, watchVars
<1>22. CASE LoopEnds
    BY <1>22, <1>0, ProcessMemoryAssumption DEF LoopEnds, Goto, Listed, Tracing, Borrows,
        Served,
        kernelVars, tracerVars, procVars, serveVars, lockVars, watchVars
<1>23. ASSUME NEW c \in Clients, RunCancelled(c) PROVE Tracing'
    BY <1>23, <1>0, ProcessMemoryAssumption DEF RunCancelled, Goto, NextWatcher, Answer,
        Tracing, Borrows, Served,
        kernelVars, tracerVars, procVars, serveVars, lockVars, watchVars
<1>24. ASSUME NEW c \in Clients, RunReads(c) PROVE Tracing'
    BY <1>24, <1>0, ProcessMemoryAssumption DEF RunReads, Goto, Tracing, Borrows, Served,
        kernelVars, tracerVars, procVars, serveVars, lockVars, watchVars
<1>25. ASSUME NEW c \in Clients, ReadFailed(c) PROVE Tracing'
    BY <1>25, <1>0, ProcessMemoryAssumption DEF ReadFailed, Goto, NextWatcher, Answer,
        Running, Tracing, Borrows, Served,
        kernelVars, tracerVars, procVars, serveVars, lockVars, watchVars
<1>26. ASSUME NEW c \in Clients, ReadSame(c) PROVE Tracing'
    BY <1>26, <1>0, ProcessMemoryAssumption DEF ReadSame, Goto, NextWatcher, Answer, Running,
        Bytes, Tracing, Borrows, Served,
        kernelVars, tracerVars, procVars, serveVars, lockVars, watchVars
<1>27. ASSUME NEW c \in Clients, Offer(c) PROVE Tracing'
    BY <1>27, <1>0, ProcessMemoryAssumption DEF Offer, Goto, NextWatcher, Answer, Running,
        Bytes, Tracing, Borrows, Served,
        kernelVars, tracerVars, procVars, serveVars, lockVars, watchVars
<1>28. CASE Change
    BY <1>28, <1>0, ProcessMemoryAssumption DEF Change, Goto, Tracing, Borrows, Served,
        kernelVars, tracerVars, procVars, serveVars, lockVars, watchVars
<1>29. CASE Die
    BY <1>29, <1>0, ProcessMemoryAssumption DEF Die, Goto, Tracing, Borrows, Served,
        kernelVars, tracerVars, procVars, serveVars, lockVars, watchVars
<1>30. CASE UNCHANGED vars
    BY <1>30, <1>0 DEF Tracing, Borrows, Served, vars, kernelVars, tracerVars, procVars,
        serveVars, lockVars, watchVars
<1> QED
    BY <1>1, <1>2, <1>3, <1>4, <1>5, <1>6, <1>7, <1>8, <1>9, <1>10, <1>11, <1>12, <1>13,
        <1>14, <1>15, <1>16, <1>17, <1>18, <1>19, <1>20, <1>21, <1>22, <1>23, <1>24, <1>25,
        <1>26, <1>27, <1>28, <1>29, <1>30
    DEF Next, ClientStep, AccessStep, ThreadStep, LoopStep

(* The invariant holds when the process has just been attached.            *)
LEMMA InitIInv == Init => IInv
<1> SUFFICES ASSUME Init PROVE IInv
    OBVIOUS
<1>1. TypeOK
    <2>1. Flags
        BY DEF Init, Flags
    <2>2. Cells
        BY ProcessMemoryAssumption DEF Init, Cells, Values, Callers, ReadOps
    <2>3. Queues
        BY ProcessMemoryAssumption DEF Init, Queues, NewWatcher
    <2> QED
        BY <2>1, <2>2, <2>3, TypeParts
<1>2. Watchers /\ Results
    BY ProcessMemoryAssumption DEF Init, Watchers, WatcherType, Results, NewWatcher, Values
<1>3. Served /\ Tracing
    BY ProcessMemoryAssumption DEF Init, Served, Tracing, Borrows
<1> QED
    BY <1>1, <1>2, <1>3 DEF IInv

(* Every step keeps the invariant.                                         *)
LEMMA NextIInv == IInv /\ [Next]_vars => IInv'
    BY TypeStep, WatchersStep, ResultsStep, ServedStep, TracingStep DEF IInv

(* The inductive invariant of ProcessMemory.                               *)
THEOREM Invariant == Spec => []IInv
    BY InitIInv, NextIInv, PTL DEF Spec
-----------------------------------------------------------------------------
(* The types, for any clients, and no Watcher's channel over its capacity. *)
THEOREM TypeCorrect == Spec => []TypeOK
<1>1. IInv => TypeOK
    BY DEF IInv
<1> QED
    BY <1>1, Invariant, PTL

(* A process that the user suspended stays stopped, and the tracer knows   *)
(* it, whatever reads, writes and watchers do until a resume or a detach.  *)
THEOREM SuspendedStays == Spec => []SuspendHolds
<1>1. IInv => SuspendHolds
    BY DEF IInv, Tracing, SuspendHolds
<1> QED
    BY <1>1, Invariant, PTL

(* No read or write through the tracer leaves a process stopped that ran   *)
(* before it: between calls only a suspend or a failed wait accounts for a *)
(* stopped process.                                                        *)
THEOREM AccessLeavesRunning == Spec => []LeftRunning
<1>1. IInv => LeftRunning
    <2> SUFFICES ASSUME IInv, serving = Nobody, ~suspended, ~waitFailed
                 PROVE  ~traced /\ ~halted
        BY DEF LeftRunning
    <2>1. step = "begin" /\ ~Borrows
        BY DEF IInv, Served, Borrows
    <2> QED
        BY <2>1 DEF IInv, Tracing
<1> QED
    BY <1>1, Invariant, PTL
=============================================================================
