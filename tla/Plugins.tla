------------------------------- MODULE Plugins -------------------------------
(***************************************************************************)
(* Native plugins: the controller that loads, reloads and unloads shared   *)
(* libraries (libplugin.Ctl), the plugin object with its unload lock       *)
(* (libplugin.Plugin), the reusable callback slots a library calls back    *)
(* through (goCallbacksList), the command registry that every session      *)
(* looks its commands up in, and the commands of package commands that     *)
(* drive them.                                                             *)
(*                                                                         *)
(* Every user command is one process and does one thing: it runs a         *)
(* plugin's command or parser, or loads, reloads or unloads a plugin. The  *)
(* locks are Go RWMutexes: once a writer has asked for the lock, no new    *)
(* reader gets it, whether or not that reader's own thread holds it.       *)
(***************************************************************************)
EXTENDS Naturals, Sequences, FiniteSets

CONSTANTS
    Runs,         \* the user commands that run a plugin's command or parser
    Edits,        \* the user commands that load, reload or unload a plugin
    Names,        \* the names of the plugins that exist on disk
    Unloadable,   \* those whose library exports unload (Plugin.optUnloadFn # nil)
    WithCtx,      \* those whose library exports new_ctx_v0 (Plugin.optNewCtxFn # nil)
    BootName,     \* the plugin the daemon loads when it starts
    Boot,         \* that plugin's object
    None          \* nobody, nothing

ASSUME PluginsAssumption ==
    /\ BootName \in Names
    /\ Unloadable \subseteq Names /\ WithCtx \subseteq Names
    /\ Runs \cap Edits = {}
    /\ Boot \notin Runs \cup Edits
    /\ None \notin Runs \cup Edits \cup {Boot}

Ops == Runs \cup Edits

(***************************************************************************)
(* A plugin object is made once by the operation that loads it, so that    *)
(* operation names it.                                                     *)
(***************************************************************************)
Objects == Ops \cup {Boot}

VARIABLES
    plugins,      \* Ctl.plugins: the objects the controller knows
    ctlLock,      \* holder of Ctl.rwMu for writing
    lib,          \* lib[i]: "none", "open", "released", or "stuck" if the
                  \* release failed, after which nobody tries it again
    unloaded,     \* Plugin.unloaded
    readers,      \* read holds of Plugin.unloadRwMu, as <<op, where>>
    writer,       \* the operation that waits for or holds it for writing
    slots,        \* goCallbacksList.list, each with its inUseBy
    slotOf,       \* the slot whose pointers the library was given
    byName,       \* CommandRegistry.byName
    names,        \* CommandRegistry.names
    nameOf,       \* Plugin.name
    pc, kind, target, obj,   \* of an operation: where it is, and on what
    ctx,          \* the goroutine of maybeNewCtx for a run
    cancelled,    \* the operation's context is done
    told,         \* the library was told of it (optCanCtxFn)
    slow          \* the library returns only when told

ctlVars == <<plugins, ctlLock>>
libVars == <<lib, unloaded, nameOf>>
lockVars == <<readers, writer>>
slotVars == <<slots, slotOf>>
regVars == <<byName, names>>
runVars == <<ctx, cancelled, told, slow>>
vars == <<ctlVars, libVars, lockVars, slotVars, regVars, runVars, pc, kind, target, obj>>

Kinds == {"run", "load", "reload", "unload"}

(* The objects that the code knows under a name: isLoaded. *)
isLoaded(n) == {i \in plugins : nameOf[i] = n}

(* RLock of a plugin succeeds at once unless a writer has asked for the    *)
(* lock. A plugin that cannot be unloaded is never locked.                 *)
CanRLock(i) == nameOf[i] \in Unloadable => writer[i] = None
RLock(i, who) == readers' = [readers EXCEPT ![i] = IF nameOf[i] \in Unloadable THEN @ \cup {who} ELSE @]
RUnlock(i, who) == readers' = [readers EXCEPT ![i] = @ \ {who}]

(* The first slot nobody uses, else a new one. The mutant hands out the    *)
(* first slot whether or not it is in use.                                 *)
FreeSlotsAny == DOMAIN slots
FreeSlots == {s \in DOMAIN slots : slots[s] = None}
TargetSlot == IF FreeSlots = {} THEN Len(slots) + 1
              ELSE CHOOSE s \in FreeSlots : \A t \in FreeSlots : s <= t
-----------------------------------------------------------------------------
(* The daemon starts, loads the project's plugins and registers their      *)
(* commands before it serves sessions.                                     *)
Init ==
    /\ plugins = {Boot}
    /\ ctlLock = None
    /\ lib = [i \in Objects |-> IF i = Boot THEN "open" ELSE "none"]
    /\ unloaded = [i \in Objects |-> FALSE]
    /\ nameOf = [i \in Objects |-> BootName]
    /\ readers = [i \in Objects |-> {}]
    /\ writer = [i \in Objects |-> None]
    /\ slots = <<Boot>>
    /\ slotOf = [i \in Objects |-> 1]
    /\ byName = [n \in Names |-> IF n = BootName THEN Boot ELSE None]
    /\ names = <<BootName>>
    /\ pc = [o \in Ops |-> "idle"]
    /\ kind \in [Ops -> Kinds]
    /\ \A o \in Ops : o \in Runs <=> kind[o] = "run"
    /\ target \in [Ops -> Names]
    /\ obj = [o \in Ops |-> None]
    /\ ctx = [o \in Ops |-> "none"]
    /\ cancelled = [o \in Ops |-> FALSE]
    /\ told = [o \in Ops |-> FALSE]
    /\ slow = [o \in Ops |-> FALSE]

Goto(o, where) == pc' = [pc EXCEPT ![o] = where]
Same == UNCHANGED <<kind, target>>
-----------------------------------------------------------------------------
(* Running a command or a parser of a plugin. *)

(* runInternalCommand looks the command up; the factory it finds was made  *)
(* by RegisterPlugin and holds the plugin object. *)
Lookup(o) ==
    /\ pc[o] = "idle" /\ kind[o] = "run"
    /\ obj' = [obj EXCEPT ![o] = byName[target[o]]]
    /\ Goto(o, IF byName[target[o]] = None THEN "done" ELSE "iterate")
    /\ Same /\ UNCHANGED <<ctlVars, libVars, lockVars, slotVars, regVars, runVars>>

(* The factory builds the subcommands: IterCommands and IterParsers hold   *)
(* the lock for the time they take, and find none in an unloaded plugin.   *)
Iterate(o) ==
    /\ pc[o] = "iterate" /\ CanRLock(obj[o])
    /\ Goto(o, IF unloaded[obj[o]] THEN "done" ELSE "enter")
    /\ Same /\ UNCHANGED <<ctlVars, libVars, lockVars, slotVars, regVars, runVars, obj>>

(* Mutant of RunEnter: the object that was looked up is taken as it is,    *)
(* whatever became of it meanwhile.                                        *)
RunEnterBlind(o) ==
    /\ pc[o] = "enter" /\ CanRLock(obj[o]) /\ RLock(obj[o], <<o, "run">>)
    /\ Goto(o, "inlib")
    /\ Same /\ UNCHANGED <<ctlVars, libVars, writer, slotVars, regVars, runVars, obj>>

(* parser.Run and command.Run up to the call into the library. *)
RunEnter(o) ==
    LET i == obj[o] IN
    /\ pc[o] = "enter" /\ CanRLock(i)
    /\ IF unloaded[i]
       THEN Goto(o, "done") /\ UNCHANGED <<readers, runVars>>
       ELSE /\ RLock(i, <<o, "run">>)
            /\ Goto(o, "inlib")
            /\ ctx' = [ctx EXCEPT ![o] = IF nameOf[i] \in WithCtx THEN "wait" ELSE "none"]
            /\ \E s \in BOOLEAN : slow' = [slow EXCEPT ![o] = s /\ nameOf[i] \in WithCtx]
            /\ UNCHANGED <<cancelled, told>>
    /\ Same /\ UNCHANGED <<ctlVars, libVars, writer, slotVars, regVars, obj>>

(* A callback of the library into readFromProc or writeToProc that fails   *)
(* answers with a string it allocates in the library: Plugin.Alloc.        *)
CallbackFails(o) ==
    /\ pc[o] = "inlib" /\ Goto(o, "alloc")
    /\ Same /\ UNCHANGED <<ctlVars, libVars, lockVars, slotVars, regVars, runVars, obj>>

(* Plugin.Alloc of the slot's owner, which takes the lock once more. *)
CallbackAllocs(o) ==
    /\ pc[o] = "alloc" /\ CanRLock(slots[slotOf[obj[o]]])
    /\ Goto(o, "inlib")
    /\ Same /\ UNCHANGED <<ctlVars, libVars, lockVars, slotVars, regVars, runVars, obj>>

(* The library's function returns, with a buffer to free or without. *)
LibReturns(o) ==
    /\ pc[o] = "inlib" /\ (slow[o] => told[o])
    /\ \E where \in {"free", "leave"} : Goto(o, where)
    /\ Same /\ UNCHANGED <<ctlVars, libVars, lockVars, slotVars, regVars, runVars, obj>>

(* bytesFromSharedBufRef copies the buffer and frees it with Plugin.Free,  *)
(* which takes the lock for reading while Run still holds it.              *)
Free(o) ==
    /\ pc[o] = "free" /\ CanRLock(obj[o])
    /\ Goto(o, "leave")
    /\ Same /\ UNCHANGED <<ctlVars, libVars, lockVars, slotVars, regVars, runVars, obj>>

(* Run's deferred calls: the context goroutine is told to give up, and the *)
(* lock is released. *)
RunLeave(o) ==
    /\ pc[o] = "leave"
    /\ RUnlock(obj[o], <<o, "run">>)
    /\ ctx' = [ctx EXCEPT ![o] = IF @ = "wait" THEN "woken" ELSE @]
    /\ Goto(o, "done")
    /\ Same
    /\ UNCHANGED <<ctlVars, libVars, writer, slotVars, regVars, obj, cancelled, told, slow>>

(* The user interrupts the command. *)
Cancel(o) ==
    /\ pc[o] \in {"inlib", "alloc", "free"} /\ ~cancelled[o]
    /\ cancelled' = [cancelled EXCEPT ![o] = TRUE]
    /\ Same
    /\ UNCHANGED <<ctlVars, libVars, lockVars, slotVars, regVars, obj, pc, ctx, told, slow>>

(* Mutant of CtxWake: the goroutine wakes only when Run gives up. *)
CtxWakeNever(o) == ctx[o] = "wait" /\ pc[o] = "idle" /\ UNCHANGED vars

(* The goroutine of maybeNewCtx: it wakes when the context is done or Run  *)
(* gives up, takes the lock, and calls into the library unless the plugin  *)
(* is gone. *)
CtxWake(o) ==
    /\ ctx[o] = "wait" /\ cancelled[o]
    /\ ctx' = [ctx EXCEPT ![o] = "woken"]
    /\ Same
    /\ UNCHANGED <<ctlVars, libVars, lockVars, slotVars, regVars, obj, pc, cancelled, told, slow>>

CtxEnter(o) ==
    /\ ctx[o] = "woken" /\ CanRLock(obj[o])
    /\ IF unloaded[obj[o]]
       THEN ctx' = [ctx EXCEPT ![o] = "none"] /\ UNCHANGED readers
       ELSE ctx' = [ctx EXCEPT ![o] = "inlib"] /\ RLock(obj[o], <<o, "ctx">>)
    /\ Same
    /\ UNCHANGED <<ctlVars, libVars, writer, slotVars, regVars, obj, pc, cancelled, told, slow>>

CtxLeave(o) ==
    /\ ctx[o] = "inlib"
    /\ told' = [told EXCEPT ![o] = TRUE]
    /\ ctx' = [ctx EXCEPT ![o] = "none"]
    /\ RUnlock(obj[o], <<o, "ctx">>)
    /\ Same
    /\ UNCHANGED <<ctlVars, libVars, writer, slotVars, regVars, obj, pc, cancelled, slow>>
-----------------------------------------------------------------------------
(* The registry. *)

(* CommandRegistry.Register. *)
Register(n, i) ==
    /\ byName' = [byName EXCEPT ![n] = i]
    /\ names' = Append(names, n)

(* CommandRegistry.Unregister: the first occurrence of the name goes. *)
Unregister(n) ==
    IF byName[n] = None
    THEN UNCHANGED regVars
    ELSE /\ byName' = [byName EXCEPT ![n] = None]
         /\ LET at == {k \in DOMAIN names : names[k] = n} IN
            names' = IF at = {} THEN names
                     ELSE LET k == CHOOSE x \in at : \A y \in at : x <= y
                          IN SubSeq(names, 1, k - 1) \o SubSeq(names, k + 1, Len(names))
-----------------------------------------------------------------------------
(* Loading, unloading and reloading. *)

(* The commands unload and reload take the plugin's commands away first;   *)
(* unload only once the controller has found the plugin.                   *)
Withdraw(o) ==
    /\ pc[o] = "idle" /\ kind[o] \in {"unload", "reload"}
    /\ kind[o] = "unload" => ctlLock = None
    /\ IF kind[o] = "unload" /\ isLoaded(target[o]) = {}
       THEN Goto(o, "done") /\ UNCHANGED regVars
       ELSE Goto(o, "lock") /\ Unregister(target[o])
    /\ Same /\ UNCHANGED <<ctlVars, libVars, lockVars, slotVars, runVars, obj>>

StartLoad(o) ==
    /\ pc[o] = "idle" /\ kind[o] = "load"
    /\ Goto(o, "lock")
    /\ Same /\ UNCHANGED <<ctlVars, libVars, lockVars, slotVars, regVars, runVars, obj>>

(* Load, Unload and Reload take the controller's lock for their whole      *)
(* length. *)
LockCtl(o) ==
    /\ pc[o] = "lock" /\ ctlLock = None
    /\ ctlLock' = o
    /\ Goto(o, IF kind[o] = "load" THEN "open" ELSE "find")
    /\ Same /\ UNCHANGED <<plugins, libVars, lockVars, slotVars, regVars, runVars, obj>>

(* The operation fails: its deferred unlock runs and the command ends. *)
Fail(o) == ctlLock' = None /\ Goto(o, "done")

(* Ctl.unload finds the plugin and Plugin.Unload asks for its lock. *)
FindToUnload(o) ==
    /\ pc[o] = "find"
    /\ IF isLoaded(target[o]) = {}
       THEN Fail(o) /\ UNCHANGED <<writer, obj>>
       ELSE \E i \in isLoaded(target[o]) :
               /\ obj' = [obj EXCEPT ![o] = i]
               /\ IF nameOf[i] \in Unloadable
                  THEN /\ writer' = [writer EXCEPT ![i] = o]
                       /\ Goto(o, "drain") /\ UNCHANGED ctlLock
                  ELSE Fail(o) /\ UNCHANGED writer
    /\ Same /\ UNCHANGED <<plugins, readers, libVars, slotVars, regVars, runVars>>

(* Plugin.Unload has its lock: no reader is left. The plugin is marked,    *)
(* the library is told to unload and is released. A release that fails     *)
(* ends the command before the plugin leaves the list, and whoever unloads *)
(* the plugin later finds it marked.                                       *)
UnloadLibrary(o) ==
    LET i == obj[o] IN
    /\ pc[o] = "drain" /\ readers[i] = {}
    /\ writer' = [writer EXCEPT ![i] = None]
    /\ \/ unloaded[i] /\ Fail(o) /\ UNCHANGED <<unloaded, lib>>
       \/ /\ ~unloaded[i]
          /\ unloaded' = [unloaded EXCEPT ![i] = TRUE]
          /\ \/ lib' = [lib EXCEPT ![i] = "released"] /\ Goto(o, "deregister") /\ UNCHANGED ctlLock
             \/ lib' = [lib EXCEPT ![i] = "stuck"] /\ Fail(o)
    /\ Same
    /\ UNCHANGED <<plugins, readers, nameOf, slotVars, regVars, runVars, obj>>

(* The rest of Ctl.unload: the slot is free again and the plugin leaves    *)
(* the list. Reload then runs the plugin's reload program, and loads again *)
(* whether it succeeds or not; only its answer differs.                    *)
Deregister(o) ==
    /\ pc[o] = "deregister"
    /\ slots' = [slots EXCEPT ![slotOf[obj[o]]] = None]
    /\ plugins' = plugins \ {obj[o]}
    /\ IF kind[o] = "unload"
       THEN Fail(o)
       ELSE UNCHANGED ctlLock /\ \E where \in {"open", "reopen"} : Goto(o, where)
    /\ Same /\ UNCHANGED <<libVars, lockVars, slotOf, regVars, runVars, obj>>

(* Ctl.load up to dl.Open; "reopen" is the load after a reload program     *)
(* that failed. *)
OpenLibrary(o) ==
    /\ pc[o] \in {"open", "reopen"}
    /\ \/ Fail(o) /\ UNCHANGED <<lib, nameOf, obj>>
       \/ /\ isLoaded(target[o]) = {}
          /\ lib' = [lib EXCEPT ![o] = "open"]
          /\ nameOf' = [nameOf EXCEPT ![o] = target[o]]
          /\ obj' = [obj EXCEPT ![o] = o]
          /\ Goto(o, IF pc[o] = "open" THEN "slot" ELSE "reslot")
          /\ UNCHANGED ctlLock
    /\ Same /\ UNCHANGED <<plugins, unloaded, lockVars, slotVars, regVars, runVars>>

(* goCallbacksList.register: the slot is marked before the library is      *)
(* given the pointers, which it may refuse. A new slot does not fail:      *)
(* dl.NewCallback has no error to return, and the limit at which purego    *)
(* panics, of some thousand slots, is not modelled.                        *)
TakeSlot(o) ==
    LET s == TargetSlot IN
    /\ pc[o] \in {"slot", "reslot"}
    /\ slots' = IF s > Len(slots) THEN Append(slots, o) ELSE [slots EXCEPT ![s] = o]
    /\ slotOf' = [slotOf EXCEPT ![o] = s]
    /\ Goto(o, IF pc[o] = "slot" THEN "setup" ELSE "resetup")
    /\ Same /\ UNCHANGED <<ctlVars, libVars, lockVars, regVars, runVars, obj>>

(* Mutant of Setup: load does not release the library it gives up. *)
SetupLeaks(o) ==
    /\ pc[o] \in {"setup", "resetup"} /\ Fail(o)
    /\ Same /\ UNCHANGED <<plugins, libVars, lockVars, slotVars, regVars, runVars, obj>>

(* The rest of setupPlugin and load. A step that fails releases the        *)
(* library, without a look at whether that fails too, and leaves the slot  *)
(* as it is. After a load that succeeds the    *)
(* command registers the plugin: load the object it was handed, reload the *)
(* one that the controller finds under the name.                           *)
Setup(o) ==
    /\ pc[o] \in {"setup", "resetup"}
    /\ ctlLock' = None
    /\ \/ /\ \E left \in {"released", "stuck"} : lib' = [lib EXCEPT ![o] = left]
          /\ Goto(o, "done") /\ UNCHANGED plugins
       \/ /\ plugins' = plugins \cup {o}
          /\ Goto(o, IF pc[o] = "resetup" THEN "done"
                     ELSE IF kind[o] = "reload" THEN "fetch" ELSE "publish")
          /\ UNCHANGED lib
    /\ Same
    /\ UNCHANGED <<unloaded, nameOf, lockVars, slotVars, regVars, runVars, obj>>

FetchReloaded(o) ==
    /\ pc[o] = "fetch" /\ ctlLock = None
    /\ IF isLoaded(target[o]) = {}
       THEN Goto(o, "done") /\ UNCHANGED obj
       ELSE Goto(o, "publish") /\ \E i \in isLoaded(target[o]) : obj' = [obj EXCEPT ![o] = i]
    /\ Same /\ UNCHANGED <<ctlVars, libVars, lockVars, slotVars, regVars, runVars>>

RegisterPlugin(o) ==
    /\ pc[o] = "publish"
    /\ Register(target[o], obj[o])
    /\ Goto(o, "done")
    /\ Same /\ UNCHANGED <<ctlVars, libVars, lockVars, slotVars, runVars, obj>>
-----------------------------------------------------------------------------
RunStep(o) == \/ Lookup(o) \/ Iterate(o) \/ RunEnter(o) \/ CallbackAllocs(o)
              \/ LibReturns(o) \/ Free(o) \/ RunLeave(o)
CtxStep(o) == CtxWake(o) \/ CtxEnter(o) \/ CtxLeave(o)
CtlStep(o) == \/ Withdraw(o) \/ StartLoad(o) \/ LockCtl(o) \/ FindToUnload(o)
              \/ UnloadLibrary(o) \/ Deregister(o) \/ OpenLibrary(o) \/ TakeSlot(o)
              \/ Setup(o) \/ FetchReloaded(o) \/ RegisterPlugin(o)

Next == \E o \in Ops : RunStep(o) \/ CtxStep(o) \/ CtlStep(o) \/ CallbackFails(o) \/ Cancel(o)

(***************************************************************************)
(* A goroutine that can take a step takes it, and a library function ends, *)
(* unless it waits to be told. The user need not cancel, and a callback    *)
(* need not fail: it is weakly fair for the run that it does not fail      *)
(* forever, so LibReturns is strongly fair.                                *)
(***************************************************************************)
Fairness == \A o \in Ops : /\ WF_vars(RunStep(o)) /\ SF_vars(LibReturns(o))
                          /\ WF_vars(CtxStep(o)) /\ WF_vars(CtlStep(o))

Spec == Init /\ [][Next]_vars /\ Fairness
-----------------------------------------------------------------------------
Places == {"idle", "iterate", "enter", "inlib", "alloc", "free", "leave", "lock", "find",
           "drain", "deregister", "open", "reopen", "slot", "reslot", "setup", "resetup",
           "fetch", "publish", "done"}

TypeOK ==
    /\ plugins \subseteq Objects
    /\ ctlLock \in Ops \cup {None}
    /\ lib \in [Objects -> {"none", "open", "released", "stuck"}]
    /\ unloaded \in [Objects -> BOOLEAN]
    /\ nameOf \in [Objects -> Names]
    /\ readers \in [Objects -> SUBSET (Ops \X {"run", "ctx"})]
    /\ writer \in [Objects -> Ops \cup {None}]
    /\ slots \in Seq(Objects \cup {None})
    /\ slotOf \in [Objects -> Nat]
    /\ byName \in [Names -> Objects \cup {None}]
    /\ names \in Seq(Names)
    /\ pc \in [Ops -> Places]
    /\ kind \in [Ops -> Kinds]
    /\ target \in [Ops -> Names]
    /\ obj \in [Ops -> Objects \cup {None}]
    /\ ctx \in [Ops -> {"none", "wait", "woken", "inlib"}]
    /\ cancelled \in [Ops -> BOOLEAN]
    /\ told \in [Ops -> BOOLEAN]
    /\ slow \in [Ops -> BOOLEAN]

(* An operation is inside plugin code: its run or its context goroutine. *)
InLibrary(o) == pc[o] \in {"inlib", "alloc", "free", "leave"} \/ ctx[o] = "inlib"

(***************************************************************************)
(* No thread is in the code of a library that was released, however runs,  *)
(* cancellations, unloads and reloads of several sessions interleave and   *)
(* however old the object is that a session looked up.                     *)
(***************************************************************************)
NoCallAfterRelease == \A o \in Ops : InLibrary(o) => lib[obj[o]] = "open"

(***************************************************************************)
(* A library that runs calls back through a slot that is its own: the      *)
(* callback neither panics for want of an owner nor allocates its answer   *)
(* in another plugin's memory, although slots are handed on.               *)
(***************************************************************************)
CallbackOwner ==
    \A o \in Ops : pc[o] \in {"inlib", "alloc"} =>
        slotOf[obj[o]] \in DOMAIN slots /\ slots[slotOf[obj[o]]] = obj[o]

(***************************************************************************)
(* A plugin's name stands for one object. Outside the controller's         *)
(* critical sections every open library is listed, so that none is left    *)
(* that nobody can unload, and what is listed and not open is exactly what *)
(* was marked and could not be released; it keeps its slot.                *)
(***************************************************************************)
HalfUnloaded(i) == unloaded[i] /\ lib[i] = "stuck"
ListIsAccountedFor ==
    /\ \A i, j \in plugins : nameOf[i] = nameOf[j] => i = j
    /\ ctlLock = None =>
          /\ plugins = {i \in Objects : lib[i] = "open" \/ HalfUnloaded(i)}
          /\ \A i \in plugins : slotOf[i] \in DOMAIN slots /\ slots[slotOf[i]] = i

(***************************************************************************)
(* A run that the user cancels ends, also if the library waits to be told, *)
(* unless somebody has asked to unload the plugin meanwhile.               *)
(***************************************************************************)
CancelledRunsEnd ==
    \A o \in Runs : (pc[o] = "inlib" /\ cancelled[o])
        ~> (pc[o] = "done" \/ \E i \in Objects : obj[o] = i /\ writer[i] # None)

(***************************************************************************)
(* "Plugins can be loaded and unloaded at runtime using the plugin         *)
(* command": an unload of a plugin ends once the runs it waits for can.    *)
(* It does not: a run frees its result under a second read hold, which it  *)
(* cannot get behind the waiting unload.                                   *)
(***************************************************************************)
UnloadEnds ==
    \A o \in Edits : (pc[o] = "drain" /\ \A r \in Runs : ~slow[r]) ~> pc[o] = "done"

(***************************************************************************)
(* What is listed can be run, or unloaded and loaded again. The code does  *)
(* not keep it: after a release that fails the plugin stays listed with    *)
(* its library gone, a load finds the name taken, and an unload finds the  *)
(* plugin unloaded already.                                                *)
(***************************************************************************)
ListedAreOpen == ctlLock = None => \A i \in plugins : lib[i] = "open"
=============================================================================
