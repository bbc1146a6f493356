---------------------------- MODULE PluginsProofs ----------------------------
(***************************************************************************)
(* Proofs about Plugins, for any commands, names and libraries.            *)
(*                                                                         *)
(* What a session looked up may be unloaded by the time it is used, so the *)
(* invariant says of every object a session can still name that it was     *)
(* listed once (EverListed), and that such an object is either open or     *)
(* marked as unloaded. Holds ties the threads inside a library to its      *)
(* unload lock, Stages what the controller has done of a load or an unload *)
(* to the place of the command that has the controller's lock.             *)
(***************************************************************************)
EXTENDS Plugins, SequenceTheorems, WellFoundedInduction, TLAPS

(* Where a run is inside its plugin's code, and where it uses its object.  *)
Within == {"inlib", "alloc", "free", "leave"}
Running == Within \cup {"iterate", "enter"}

(* Where a command holds Ctl.rwMu.                                         *)
Locked == {"find", "drain", "deregister", "open", "reopen", "slot", "reslot", "setup", "resetup"}

(* The objects that were listed once, and are or are not any more.         *)
EverListed == plugins \cup {i \in Objects : unloaded[i]}

(* A run's goroutines and the controller's lock.                           *)
Roles ==
    /\ \A o \in Ops : pc[o] \in Locked <=> ctlLock = o
    /\ \A o \in Ops : kind[o] = "run" => pc[o] \in Running \cup {"idle", "done"}
    /\ \A o \in Ops : pc[o] \in Running => kind[o] = "run"
    /\ \A o \in Ops : ctx[o] # "none" => kind[o] = "run" /\ pc[o] \in Within \cup {"done"}

(* Whoever can use an object without the controller's lock uses one that   *)
(* was listed.                                                             *)
Known ==
    /\ \A n \in Names : byName[n] # None => byName[n] \in EverListed
    /\ \A o \in Ops : (pc[o] \in Running \/ ctx[o] # "none" \/ pc[o] = "publish")
          => obj[o] \in EverListed

(* An object is listed after its command has set it up, and what was       *)
(* listed is open until it is marked.                                      *)
Listing ==
    /\ \A i \in EverListed : i # Boot => pc[i] \in {"fetch", "publish", "done"}
    /\ \A i \in plugins : ~unloaded[i] => lib[i] = "open"
    /\ \A i \in Objects : unloaded[i] => lib[i] \in {"released", "stuck"}
    /\ \A i, j \in plugins : nameOf[i] = nameOf[j] => i = j

(* What is open and not listed is being loaded, what is listed and not     *)
(* open is being unloaded, by a command that has the controller's lock, or *)
(* was half unloaded, and stays that for good.                             *)
Stages ==
    /\ \A i \in Objects : lib[i] = "open" /\ i \notin plugins
          => i # Boot /\ pc[i] \in {"slot", "reslot", "setup", "resetup"}
    /\ \A i \in plugins : unloaded[i]
          => lib[i] = "stuck" \/ \E o \in Ops : pc[o] = "deregister" /\ obj[o] = i
    /\ \A i \in Objects : unloaded[i] /\ lib[i] = "stuck" => i \in plugins
    /\ \A o \in Ops : pc[o] \in {"slot", "reslot", "setup", "resetup"}
          => /\ lib[o] = "open" /\ nameOf[o] = target[o] /\ obj[o] = o
             /\ isLoaded(target[o]) = {}
    /\ \A o \in Ops : pc[o] = "drain"
          => obj[o] \in plugins /\ nameOf[obj[o]] \in Unloadable
    /\ \A o \in Ops : pc[o] = "deregister"
          => obj[o] \in plugins /\ unloaded[obj[o]] /\ lib[obj[o]] = "released"

(* A thread inside a library that can be unloaded holds its lock, and the  *)
(* library is not marked.                                                  *)
Inside(o) ==
    /\ ~unloaded[obj[o]]
    /\ pc[o] \in Within /\ nameOf[obj[o]] \in Unloadable => <<o, "run">> \in readers[obj[o]]
    /\ ctx[o] = "inlib" /\ nameOf[obj[o]] \in Unloadable => <<o, "ctx">> \in readers[obj[o]]
Holds == \A o \in Ops : pc[o] \in Within \/ ctx[o] = "inlib" => Inside(o)

(* A listed plugin and one that is being set up own their slot.            *)
OwnsSlot(i) == slotOf[i] \in DOMAIN slots /\ slots[slotOf[i]] = i
Owners ==
    /\ \A i \in plugins : OwnsSlot(i)
    /\ \A o \in Ops : pc[o] \in {"setup", "resetup"} => OwnsSlot(o)

IInv == TypeOK /\ Roles /\ Known /\ Listing /\ Stages /\ Holds /\ Owners
-----------------------------------------------------------------------------
(* Facts about names, numbers and sequences.                               *)

(* A set of numbers that is not empty has a least one.                     *)
LEMMA LeastNumber ==
    ASSUME NEW S \in SUBSET Nat, S # {}
    PROVE  \E n \in S : \A m \in S : n <= m
<1>1. PICK n \in S : \A m \in S : ~(<<m, n>> \in OpToRel(<, Nat))
    BY NatLessThanWellFounded, WFMin, ZenonT(30)
<1>2. \A m, k \in Nat : m < k => <<m, k>> \in OpToRel(<, Nat)
    BY DEF OpToRel
<1>3. \A m \in S : ~(m < n)
    BY <1>1, <1>2, Zenon
<1> QED
    BY <1>3

(* The slot that register takes is a new one or one that nobody uses.      *)
LEMMA TargetSlotIsFree ==
    ASSUME slots \in Seq(Objects \cup {None})
    PROVE  /\ TargetSlot \in 1 .. Len(slots) + 1
           /\ TargetSlot \in 1 .. Len(slots) => slots[TargetSlot] = None
<1>1. DOMAIN slots = 1 .. Len(slots) /\ Len(slots) \in Nat
    OBVIOUS
<1>2. CASE FreeSlots = {}
    BY <1>1, <1>2 DEF TargetSlot
<1>3. CASE FreeSlots # {}
    <2>1. FreeSlots \in SUBSET Nat
        BY <1>1 DEF FreeSlots
    <2>2. \E s \in FreeSlots : \A t \in FreeSlots : s <= t
        BY <1>3, <2>1, LeastNumber
    <2>3. TargetSlot \in FreeSlots
        BY <1>3, <2>2 DEF TargetSlot
    <2> QED
        BY <1>1, <2>3 DEF FreeSlots
<1> QED
    BY <1>2, <1>3

(* Withdrawing the commands of a plugin leaves names and objects.          *)
LEMMA UnregisterType ==
    ASSUME TypeOK, NEW n \in Names, Unregister(n)
    PROVE  /\ byName' \in [Names -> Objects \cup {None}]
           /\ names' \in Seq(Names)
           /\ \A m \in Names : byName'[m] \in {byName[m], None}
<1>1. CASE byName[n] = None
    BY <1>1 DEF Unregister, regVars, TypeOK
<1>2. CASE byName[n] # None
    <2> DEFINE at == {k \in DOMAIN names : names[k] = n}
               first == CHOOSE x \in at : \A y \in at : x <= y
    <2>1. /\ byName' = [byName EXCEPT ![n] = None]
          /\ names' = IF at = {} THEN names
                      ELSE SubSeq(names, 1, first - 1) \o SubSeq(names, first + 1, Len(names))
        BY <1>2 DEF Unregister
    <2>2. names \in Seq(Names) /\ DOMAIN names = 1 .. Len(names) /\ Len(names) \in Nat
        BY DEF TypeOK
    <2>3. at # {} => first \in at
        <3>1. at \in SUBSET Nat
            BY <2>2
        <3> HIDE DEF at
        <3> QED
            BY <3>1, LeastNumber
    <2>4. names' \in Seq(Names)
        <3>1. CASE at = {}
            BY <2>1, <2>2, <3>1
        <3>2. CASE at # {}
            <4>1. first \in 1 .. Len(names)
                BY <2>2, <2>3, <3>2
            <4> HIDE DEF at, first
            <4>2. /\ SubSeq(names, 1, first - 1) \in Seq(Names)
                  /\ SubSeq(names, first + 1, Len(names)) \in Seq(Names)
                BY <2>2, <4>1
            <4> QED
                BY <2>1, <3>2, <4>2
        <3> QED
            BY <3>1, <3>2
    <2> QED
        BY <2>1, <2>4 DEF TypeOK
<1> QED
    BY <1>1, <1>2
-----------------------------------------------------------------------------
(* What the actions with several outcomes do, operation by operation and   *)
(* object by object.                                                       *)

(* A command is the name of the object it makes.                           *)
LEMMA NameFacts ==
    /\ Ops \subseteq Objects /\ Boot \in Objects /\ Boot \notin Ops
    /\ None \notin Objects /\ None \notin Ops
    /\ \A i \in Objects : i # Boot => i \in Ops
    BY PluginsAssumption DEF Ops, Objects

(* A run that finds its object unmarked enters it and holds its lock.      *)
RunEnterDoes(o) ==
    /\ pc[o] = "enter" /\ ctx[o] = "none" /\ kind[o] = "run" /\ obj[o] \in EverListed
    /\ \A p \in Ops \ {o} : pc'[p] = pc[p] /\ ctx'[p] = ctx[p]
    /\ \/ pc'[o] = "done" /\ ctx'[o] = "none"
       \/ /\ pc'[o] = "inlib" /\ ctx'[o] \in {"wait", "none"} /\ ~unloaded[obj[o]]
          /\ nameOf[obj[o]] \in Unloadable => <<o, "run">> \in readers'[obj[o]]
    /\ \A i \in Objects : readers[i] \subseteq readers'[i]
    /\ UNCHANGED <<plugins, ctlLock, lib, unloaded, nameOf, slots, slotOf, byName, kind,
                   target, obj>>

(* Where the invariant holds, RunEnter does what RunEnterDoes says.        *)
LEMMA RunEnterEffect ==
    ASSUME IInv, NEW o \in Ops, RunEnter(o)
    PROVE  RunEnterDoes(o)
<1> USE DEF RunEnterDoes
<1>1. /\ pc[o] = "enter"
      /\ UNCHANGED <<plugins, ctlLock, lib, unloaded, nameOf, slots, slotOf, byName, kind,
                     target, obj>>
    BY DEF RunEnter, Same, ctlVars, libVars, slotVars, regVars
<1>2. kind[o] = "run" /\ ctx[o] = "none" /\ obj[o] \in EverListed /\ obj[o] \in Objects
    BY <1>1 DEF IInv, TypeOK, Roles, Known, EverListed, Running, Within
<1>3. pc \in [Ops -> Places] /\ ctx \in [Ops -> {"none", "wait", "woken", "inlib"}]
      /\ readers \in [Objects -> SUBSET (Ops \X {"run", "ctx"})]
    BY DEF IInv, TypeOK
<1>4. CASE unloaded[obj[o]]
    <2>1. pc' = [pc EXCEPT ![o] = "done"] /\ ctx' = ctx /\ readers' = readers
        BY <1>4 DEF RunEnter, Goto, runVars
    <2> QED
        BY <1>1, <1>2, <1>3, <2>1
<1>5. CASE ~unloaded[obj[o]]
    <2>1. /\ pc' = [pc EXCEPT ![o] = "inlib"]
          /\ ctx' = [ctx EXCEPT ![o] = IF nameOf[obj[o]] \in WithCtx THEN "wait" ELSE "none"]
        BY <1>5 DEF RunEnter, Goto
    <2>2. readers' = [readers EXCEPT ![obj[o]] =
                         IF nameOf[obj[o]] \in Unloadable THEN @ \cup {<<o, "run">>} ELSE @]
        BY <1>5 DEF RunEnter, RLock
    <2>3. \A i \in Objects : readers[i] \subseteq readers'[i]
        BY <1>3, <2>2
    <2>4. nameOf[obj[o]] \in Unloadable => <<o, "run">> \in readers'[obj[o]]
        BY <1>2, <1>3, <2>2
    <2> QED
        BY <1>1, <1>2, <1>3, <1>5, <2>1, <2>3, <2>4
<1> QED
    BY <1>4, <1>5

(* So does the goroutine of maybeNewCtx.                                   *)
CtxEnterDoes(o) ==
    /\ ctx[o] = "woken" /\ obj[o] \in EverListed
    /\ \A p \in Ops \ {o} : ctx'[p] = ctx[p]
    /\ \/ ctx'[o] = "none"
       \/ /\ ctx'[o] = "inlib" /\ ~unloaded[obj[o]]
          /\ nameOf[obj[o]] \in Unloadable => <<o, "ctx">> \in readers'[obj[o]]
    /\ \A i \in Objects : readers[i] \subseteq readers'[i]
    /\ UNCHANGED <<plugins, ctlLock, lib, unloaded, nameOf, slots, slotOf, byName, kind,
                   target, obj, pc>>

(* Where the invariant holds, CtxEnter does what CtxEnterDoes says.        *)
LEMMA CtxEnterEffect ==
    ASSUME IInv, NEW o \in Ops, CtxEnter(o)
    PROVE  CtxEnterDoes(o)
<1> USE DEF CtxEnterDoes
<1>1. /\ ctx[o] = "woken"
      /\ UNCHANGED <<plugins, ctlLock, lib, unloaded, nameOf, slots, slotOf, byName, kind,
                     target, obj, pc>>
    BY DEF CtxEnter, Same, ctlVars, libVars, slotVars, regVars
<1>2. obj[o] \in EverListed /\ obj[o] \in Objects
    BY <1>1 DEF IInv, TypeOK, Known, EverListed
<1>3. /\ ctx \in [Ops -> {"none", "wait", "woken", "inlib"}]
      /\ readers \in [Objects -> SUBSET (Ops \X {"run", "ctx"})]
    BY DEF IInv, TypeOK
<1>4. CASE unloaded[obj[o]]
    <2>1. ctx' = [ctx EXCEPT ![o] = "none"] /\ readers' = readers
        BY <1>4 DEF CtxEnter
    <2> QED
        BY <1>1, <1>2, <1>3, <2>1
<1>5. CASE ~unloaded[obj[o]]
    <2>1. /\ ctx' = [ctx EXCEPT ![o] = "inlib"]
          /\ readers' = [readers EXCEPT ![obj[o]] =
                            IF nameOf[obj[o]] \in Unloadable THEN @ \cup {<<o, "ctx">>} ELSE @]
        BY <1>5 DEF CtxEnter, RLock
    <2>2. \A i \in Objects : readers[i] \subseteq readers'[i]
        BY <1>3, <2>1
    <2>3. nameOf[obj[o]] \in Unloadable => <<o, "ctx">> \in readers'[obj[o]]
        BY <1>2, <1>3, <2>1
    <2> QED
        BY <1>1, <1>2, <1>3, <1>5, <2>1, <2>2, <2>3
<1> QED
    BY <1>4, <1>5

(* A goroutine that leaves takes its own hold with it and no other.        *)
LEMMA HoldDropped ==
    ASSUME IInv, NEW o \in Ops, NEW where, obj[o] \in Objects, RUnlock(obj[o], <<o, where>>)
    PROVE  \A i \in Objects : \A h \in readers[i] : h # <<o, where>> => h \in readers'[i]
<1>1. readers \in [Objects -> SUBSET (Ops \X {"run", "ctx"})]
    BY DEF IInv, TypeOK
<1>2. readers' = [readers EXCEPT ![obj[o]] = readers[obj[o]] \ {<<o, where>>}]
    BY DEF RUnlock
<1> QED
    BY <1>1, <1>2

(* unload and reload take the names of their plugin away.                  *)
WithdrawDoes(o) ==
    /\ pc[o] = "idle" /\ kind[o] # "run" /\ ctx[o] = "none"
    /\ \A p \in Ops \ {o} : pc'[p] = pc[p]
    /\ pc'[o] \in {"done", "lock"}
    /\ \A n \in Names : byName'[n] \in {byName[n], None}
    /\ UNCHANGED <<plugins, ctlLock, lib, unloaded, nameOf, readers, slots, slotOf, kind,
                   target, obj, ctx>>

(* Where the invariant holds, Withdraw does what WithdrawDoes says.        *)
LEMMA WithdrawEffect ==
    ASSUME IInv, NEW o \in Ops, Withdraw(o)
    PROVE  WithdrawDoes(o)
<1> USE DEF WithdrawDoes
<1>1. /\ pc[o] = "idle" /\ kind[o] \in {"unload", "reload"}
      /\ pc' = [pc EXCEPT ![o] = "done"] \/ pc' = [pc EXCEPT ![o] = "lock"]
      /\ byName' = byName \/ Unregister(target[o])
      /\ UNCHANGED <<plugins, ctlLock, lib, unloaded, nameOf, readers, slots, slotOf, kind,
                     target, obj, ctx>>
    BY DEF Withdraw, Goto, Same, ctlVars, libVars, lockVars, slotVars, runVars, regVars
<1>2. pc \in [Ops -> Places] /\ target[o] \in Names /\ byName \in [Names -> Objects \cup {None}]
    BY DEF IInv, TypeOK
<1>3. kind[o] # "run" /\ ctx[o] = "none"
    BY <1>1, NameFacts DEF IInv, TypeOK, Roles
<1>4. \A n \in Names : byName'[n] \in {byName[n], None}
    BY <1>1, <1>2, UnregisterType DEF IInv
<1> QED
    BY <1>1, <1>2, <1>3, <1>4

(* unload and reload find the plugin, or they end.                         *)
FindToUnloadDoes(o) ==
    /\ pc[o] = "find" /\ ctlLock = o /\ kind[o] # "run" /\ ctx[o] = "none"
    /\ \A p \in Ops \ {o} : pc'[p] = pc[p] /\ obj'[p] = obj[p]
    /\ \/ pc'[o] = "done" /\ ctlLock' = None
       \/ /\ pc'[o] = "drain" /\ ctlLock' = o
          /\ obj'[o] \in isLoaded(target[o]) /\ nameOf[obj'[o]] \in Unloadable
    /\ UNCHANGED <<plugins, lib, unloaded, nameOf, readers, slots, slotOf, byName, kind,
                   target, ctx>>

(* Where the invariant holds, FindToUnload does what FindToUnloadDoes says.*)
LEMMA FindToUnloadEffect ==
    ASSUME IInv, NEW o \in Ops, FindToUnload(o)
    PROVE  FindToUnloadDoes(o)
<1> USE DEF FindToUnloadDoes
<1>1. /\ pc[o] = "find"
      /\ UNCHANGED <<plugins, lib, unloaded, nameOf, readers, slots, slotOf, byName, kind,
                     target, ctx>>
    BY DEF FindToUnload, Same, libVars, slotVars, runVars, regVars
<1>2. pc \in [Ops -> Places] /\ obj \in [Ops -> Objects \cup {None}]
    BY DEF IInv, TypeOK
<1>3. kind[o] # "run" /\ ctx[o] = "none" /\ ctlLock = o
    BY <1>1, NameFacts DEF IInv, TypeOK, Roles, Locked, Running, Within
<1>4. CASE isLoaded(target[o]) = {}
    <2>1. pc' = [pc EXCEPT ![o] = "done"] /\ ctlLock' = None /\ obj' = obj
        BY <1>4 DEF FindToUnload, Fail, Goto
    <2> QED
        BY <1>1, <1>2, <1>3, <2>1
<1>5. CASE isLoaded(target[o]) # {}
    <2>1. PICK i \in isLoaded(target[o]) :
            /\ obj' = [obj EXCEPT ![o] = i]
            /\ \/ nameOf[i] \in Unloadable /\ pc' = [pc EXCEPT ![o] = "drain"] /\ ctlLock' = ctlLock
               \/ pc' = [pc EXCEPT ![o] = "done"] /\ ctlLock' = None
        BY <1>5 DEF FindToUnload, Fail, Goto
    <2> QED
        BY <1>1, <1>2, <1>3, <2>1
<1> QED
    BY <1>4, <1>5

(* The object of a drained plugin is marked and its library released,      *)
(* unless that fails or was tried before.                                  *)
UnloadLibraryDoes(o) ==
    /\ pc[o] = "drain" /\ ctlLock = o /\ kind[o] # "run" /\ ctx[o] = "none"
    /\ obj[o] \in plugins /\ obj[o] \in Objects
    /\ nameOf[obj[o]] \in Unloadable /\ readers[obj[o]] = {}
    /\ \A p \in Ops \ {o} : pc'[p] = pc[p]
    /\ \A i \in Objects \ {obj[o]} : unloaded'[i] = unloaded[i] /\ lib'[i] = lib[i]
    /\ \/ /\ pc'[o] = "done" /\ ctlLock' = None /\ unloaded[obj[o]]
          /\ unloaded'[obj[o]] /\ lib'[obj[o]] = lib[obj[o]]
       \/ /\ pc'[o] = "deregister" /\ ctlLock' = o /\ ~unloaded[obj[o]]
          /\ unloaded'[obj[o]] /\ lib'[obj[o]] = "released"
       \/ /\ pc'[o] = "done" /\ ctlLock' = None /\ ~unloaded[obj[o]]
          /\ unloaded'[obj[o]] /\ lib'[obj[o]] = "stuck"
    /\ UNCHANGED <<plugins, nameOf, readers, slots, slotOf, byName, kind, target, obj, ctx>>

(* Where the invariant holds, UnloadLibrary does what UnloadLibraryDoes says.*)
LEMMA UnloadLibraryEffect ==
    ASSUME IInv, NEW o \in Ops, UnloadLibrary(o)
    PROVE  UnloadLibraryDoes(o)
<1> USE DEF UnloadLibraryDoes
<1>1. /\ pc[o] = "drain" /\ readers[obj[o]] = {}
      /\ UNCHANGED <<plugins, nameOf, readers, slots, slotOf, byName, kind, target, obj, ctx>>
    BY DEF UnloadLibrary, Same, slotVars, runVars, regVars
<1>2. /\ pc \in [Ops -> Places] /\ unloaded \in [Objects -> BOOLEAN]
      /\ lib \in [Objects -> {"none", "open", "released", "stuck"}] /\ plugins \subseteq Objects
    BY DEF IInv, TypeOK
<1>3. kind[o] # "run" /\ ctx[o] = "none" /\ ctlLock = o
    BY <1>1, NameFacts DEF IInv, TypeOK, Roles, Locked, Running, Within
<1>4. obj[o] \in plugins /\ nameOf[obj[o]] \in Unloadable
    BY <1>1 DEF IInv, Stages
<1>5. CASE unloaded[obj[o]]
    <2>1. /\ pc' = [pc EXCEPT ![o] = "done"] /\ ctlLock' = None
          /\ unloaded' = unloaded /\ lib' = lib
        BY <1>5 DEF UnloadLibrary, Fail, Goto
    <2> QED
        BY <1>1, <1>2, <1>3, <1>4, <1>5, <2>1
<1>6. CASE ~unloaded[obj[o]]
    <2>1. unloaded' = [unloaded EXCEPT ![obj[o]] = TRUE]
        BY <1>6 DEF UnloadLibrary
    <2>2. \/ /\ pc' = [pc EXCEPT ![o] = "deregister"] /\ ctlLock' = ctlLock
             /\ lib' = [lib EXCEPT ![obj[o]] = "released"]
          \/ /\ pc' = [pc EXCEPT ![o] = "done"] /\ ctlLock' = None
             /\ lib' = [lib EXCEPT ![obj[o]] = "stuck"]
        BY <1>6 DEF UnloadLibrary, Fail, Goto
    <2> QED
        BY <1>1, <1>2, <1>3, <1>4, <1>6, <2>1, <2>2
<1> QED
    BY <1>5, <1>6

(* The slot of an unloaded plugin is free and its object leaves the list.  *)
DeregisterDoes(o) ==
    /\ pc[o] = "deregister" /\ ctlLock = o /\ kind[o] # "run" /\ ctx[o] = "none"
    /\ obj[o] \in plugins /\ obj[o] \in Objects /\ unloaded[obj[o]] /\ lib[obj[o]] = "released"
    /\ slotOf[obj[o]] \in DOMAIN slots /\ slots[slotOf[obj[o]]] = obj[o]
    /\ \A p \in Ops \ {o} : pc'[p] = pc[p]
    /\ \/ pc'[o] = "done" /\ ctlLock' = None
       \/ pc'[o] \in {"open", "reopen"} /\ ctlLock' = o
    /\ plugins' = plugins \ {obj[o]}
    /\ DOMAIN slots' = DOMAIN slots
    /\ \A s \in DOMAIN slots : s # slotOf[obj[o]] => slots'[s] = slots[s]
    /\ UNCHANGED <<lib, unloaded, nameOf, readers, slotOf, byName, kind, target, obj, ctx>>

(* Where the invariant holds, Deregister does what DeregisterDoes says.    *)
LEMMA DeregisterEffect ==
    ASSUME IInv, NEW o \in Ops, Deregister(o)
    PROVE  DeregisterDoes(o)
<1> USE DEF DeregisterDoes
<1>1. /\ pc[o] = "deregister"
      /\ slots' = [slots EXCEPT ![slotOf[obj[o]]] = None]
      /\ plugins' = plugins \ {obj[o]}
      /\ \/ pc' = [pc EXCEPT ![o] = "done"] /\ ctlLock' = None
         \/ pc' = [pc EXCEPT ![o] = "open"] /\ ctlLock' = ctlLock
         \/ pc' = [pc EXCEPT ![o] = "reopen"] /\ ctlLock' = ctlLock
      /\ UNCHANGED <<lib, unloaded, nameOf, readers, slotOf, byName, kind, target, obj, ctx>>
    BY DEF Deregister, Fail, Goto, Same, libVars, lockVars, runVars, regVars
<1>2. pc \in [Ops -> Places] /\ slots \in Seq(Objects \cup {None}) /\ plugins \subseteq Objects
    BY DEF IInv, TypeOK
<1>3. kind[o] # "run" /\ ctx[o] = "none" /\ ctlLock = o
    BY <1>1, NameFacts DEF IInv, TypeOK, Roles, Locked, Running, Within
<1>4. obj[o] \in plugins /\ unloaded[obj[o]] /\ lib[obj[o]] = "released"
    BY <1>1 DEF IInv, Stages
<1>5. slotOf[obj[o]] \in DOMAIN slots /\ slots[slotOf[obj[o]]] = obj[o]
    BY <1>4 DEF IInv, Owners, OwnsSlot
<1>6. /\ DOMAIN slots' = DOMAIN slots
      /\ \A s \in DOMAIN slots : s # slotOf[obj[o]] => slots'[s] = slots[s]
    BY <1>1, <1>2
<1>7. /\ \A p \in Ops \ {o} : pc'[p] = pc[p]
      /\ \/ pc'[o] = "done" /\ ctlLock' = None
         \/ pc'[o] \in {"open", "reopen"} /\ ctlLock' = o
    BY <1>1, <1>2, <1>3
<1> QED
    BY <1>1, <1>2, <1>3, <1>4, <1>5, <1>6, <1>7

(* load opens the library of a name that no listed plugin has, or ends.    *)
OpenLibraryDoes(o) ==
    /\ pc[o] \in {"open", "reopen"} /\ ctlLock = o /\ kind[o] # "run" /\ ctx[o] = "none"
    /\ \A p \in Ops \ {o} : pc'[p] = pc[p] /\ obj'[p] = obj[p]
    /\ \A i \in Objects \ {o} : lib'[i] = lib[i] /\ nameOf'[i] = nameOf[i]
    /\ \/ /\ pc'[o] = "done" /\ ctlLock' = None
          /\ lib'[o] = lib[o] /\ nameOf'[o] = nameOf[o] /\ obj'[o] = obj[o]
       \/ /\ pc'[o] \in {"slot", "reslot"} /\ ctlLock' = o /\ isLoaded(target[o]) = {}
          /\ lib'[o] = "open" /\ nameOf'[o] = target[o] /\ obj'[o] = o
    /\ UNCHANGED <<plugins, unloaded, readers, slots, slotOf, byName, kind, target, ctx>>

(* Where the invariant holds, OpenLibrary does what OpenLibraryDoes says.  *)
LEMMA OpenLibraryEffect ==
    ASSUME IInv, NEW o \in Ops, OpenLibrary(o)
    PROVE  OpenLibraryDoes(o)
<1> USE DEF OpenLibraryDoes
<1>1. /\ pc[o] \in {"open", "reopen"}
      /\ \/ /\ pc' = [pc EXCEPT ![o] = "done"] /\ ctlLock' = None
            /\ lib' = lib /\ nameOf' = nameOf /\ obj' = obj
         \/ /\ isLoaded(target[o]) = {}
            /\ lib' = [lib EXCEPT ![o] = "open"]
            /\ nameOf' = [nameOf EXCEPT ![o] = target[o]]
            /\ obj' = [obj EXCEPT ![o] = o]
            /\ pc' = [pc EXCEPT ![o] = "slot"] \/ pc' = [pc EXCEPT ![o] = "reslot"]
            /\ ctlLock' = ctlLock
      /\ UNCHANGED <<plugins, unloaded, readers, slots, slotOf, byName, kind, target, ctx>>
    BY DEF OpenLibrary, Fail, Goto, Same, lockVars, slotVars, runVars, regVars
<1>2. /\ pc \in [Ops -> Places] /\ obj \in [Ops -> Objects \cup {None}]
      /\ lib \in [Objects -> {"none", "open", "released", "stuck"}] /\ nameOf \in [Objects -> Names]
    BY DEF IInv, TypeOK
<1>3. kind[o] # "run" /\ ctx[o] = "none" /\ ctlLock = o
    BY <1>1, NameFacts DEF IInv, TypeOK, Roles, Locked, Running, Within
<1> QED
    BY <1>1, <1>2, <1>3, NameFacts

(* The library that is opened takes a slot that nobody uses.               *)
TakeSlotDoes(o) ==
    /\ pc[o] \in {"slot", "reslot"} /\ ctlLock = o /\ kind[o] # "run" /\ ctx[o] = "none"
    /\ \A p \in Ops \ {o} : pc'[p] = pc[p]
    /\ pc'[o] \in {"setup", "resetup"}
    /\ \A i \in Objects \ {o} : slotOf'[i] = slotOf[i]
    /\ slotOf'[o] \in DOMAIN slots' /\ slots'[slotOf'[o]] = o
    /\ DOMAIN slots \subseteq DOMAIN slots'
    /\ \A s \in DOMAIN slots : slots[s] # None => slots'[s] = slots[s]
    /\ UNCHANGED <<plugins, ctlLock, lib, unloaded, nameOf, readers, byName, kind,
                   target, obj, ctx>>

(* Where the invariant holds, TakeSlot does what TakeSlotDoes says.        *)
LEMMA TakeSlotEffect ==
    ASSUME IInv, NEW o \in Ops, TakeSlot(o)
    PROVE  TakeSlotDoes(o)
<1> USE DEF TakeSlotDoes
<1>1. /\ pc[o] \in {"slot", "reslot"}
      /\ slots' = IF TargetSlot > Len(slots) THEN Append(slots, o)
                  ELSE [slots EXCEPT ![TargetSlot] = o]
      /\ slotOf' = [slotOf EXCEPT ![o] = TargetSlot]
      /\ pc' = [pc EXCEPT ![o] = "setup"] \/ pc' = [pc EXCEPT ![o] = "resetup"]
      /\ UNCHANGED <<plugins, ctlLock, lib, unloaded, nameOf, readers, byName, kind,
                     target, obj, ctx>>
    BY DEF TakeSlot, Goto, Same, ctlVars, libVars, lockVars, runVars, regVars
<1>2. /\ pc \in [Ops -> Places] /\ slots \in Seq(Objects \cup {None})
      /\ slotOf \in [Objects -> Nat]
    BY DEF IInv, TypeOK
<1>3. kind[o] # "run" /\ ctx[o] = "none" /\ ctlLock = o
    BY <1>1, NameFacts DEF IInv, TypeOK, Roles, Locked, Running, Within
<1>4. /\ TargetSlot \in 1 .. Len(slots) + 1
      /\ TargetSlot \in 1 .. Len(slots) => slots[TargetSlot] = None
    BY <1>2, TargetSlotIsFree
<1>5. /\ TargetSlot \in DOMAIN slots' /\ slots'[TargetSlot] = o
      /\ DOMAIN slots \subseteq DOMAIN slots'
      /\ \A s \in DOMAIN slots : slots[s] # None => slots'[s] = slots[s]
    <2> DEFINE t == TargetSlot
    <2>1. o \in Objects \cup {None}
        BY NameFacts
    <2> HIDE DEF t
    <2>2. CASE t > Len(slots)
        BY <1>1, <1>2, <1>4, <2>1, <2>2 DEF t
    <2>3. CASE ~(t > Len(slots))
        BY <1>1, <1>2, <1>4, <2>1, <2>3 DEF t
    <2> QED
        BY <2>2, <2>3
<1>6. slotOf'[o] = TargetSlot /\ \A i \in Objects \ {o} : slotOf'[i] = slotOf[i]
    BY <1>1, <1>2, NameFacts
<1>7. pc'[o] \in {"setup", "resetup"} /\ \A p \in Ops \ {o} : pc'[p] = pc[p]
    BY <1>1, <1>2
<1> QED
    BY <1>1, <1>3, <1>5, <1>6, <1>7

(* load lists the object or releases its library.                          *)
SetupDoes(o) ==
    /\ pc[o] \in {"setup", "resetup"} /\ ctlLock = o /\ kind[o] # "run" /\ ctx[o] = "none"
    /\ lib[o] = "open" /\ nameOf[o] = target[o] /\ obj[o] = o /\ isLoaded(target[o]) = {}
    /\ OwnsSlot(o)
    /\ ctlLock' = None
    /\ \A p \in Ops \ {o} : pc'[p] = pc[p]
    /\ \A i \in Objects \ {o} : lib'[i] = lib[i]
    /\ \/ pc'[o] = "done" /\ lib'[o] \in {"released", "stuck"} /\ plugins' = plugins
       \/ pc'[o] \in {"done", "fetch", "publish"} /\ lib'[o] = "open"
          /\ plugins' = plugins \cup {o}
    /\ UNCHANGED <<unloaded, nameOf, readers, slots, slotOf, byName, kind, target, obj, ctx>>

(* Where the invariant holds, Setup does what SetupDoes says.              *)
LEMMA SetupEffect ==
    ASSUME IInv, NEW o \in Ops, Setup(o)
    PROVE  SetupDoes(o)
<1> USE DEF SetupDoes
<1>1. /\ pc[o] \in {"setup", "resetup"} /\ ctlLock' = None
      /\ \/ /\ \E left \in {"released", "stuck"} : lib' = [lib EXCEPT ![o] = left]
            /\ pc' = [pc EXCEPT ![o] = "done"] /\ plugins' = plugins
         \/ /\ plugins' = plugins \cup {o} /\ lib' = lib
            /\ \/ pc' = [pc EXCEPT ![o] = "done"]
               \/ pc' = [pc EXCEPT ![o] = "fetch"]
               \/ pc' = [pc EXCEPT ![o] = "publish"]
      /\ UNCHANGED <<unloaded, nameOf, readers, slots, slotOf, byName, kind, target, obj, ctx>>
    BY DEF Setup, Goto, Same, lockVars, slotVars, runVars, regVars
<1>2. pc \in [Ops -> Places] /\ lib \in [Objects -> {"none", "open", "released", "stuck"}]
    BY DEF IInv, TypeOK
<1>3. kind[o] # "run" /\ ctx[o] = "none" /\ ctlLock = o
    BY <1>1, NameFacts DEF IInv, TypeOK, Roles, Locked, Running, Within
<1>4. /\ lib[o] = "open" /\ nameOf[o] = target[o] /\ obj[o] = o /\ isLoaded(target[o]) = {}
      /\ OwnsSlot(o)
    BY <1>1 DEF IInv, Stages, Owners
<1> QED
    BY <1>1, <1>2, <1>3, <1>4, NameFacts

(* reload looks its plugin up again.                                       *)
FetchReloadedDoes(o) ==
    /\ pc[o] = "fetch" /\ kind[o] # "run" /\ ctx[o] = "none"
    /\ \A p \in Ops \ {o} : pc'[p] = pc[p] /\ obj'[p] = obj[p]
    /\ \/ pc'[o] = "done"
       \/ pc'[o] = "publish" /\ obj'[o] \in plugins
    /\ UNCHANGED <<plugins, ctlLock, lib, unloaded, nameOf, readers, slots, slotOf, byName,
                   kind, target, ctx>>

(* Where the invariant holds, FetchReloaded does what FetchReloadedDoes says.*)
LEMMA FetchReloadedEffect ==
    ASSUME IInv, NEW o \in Ops, FetchReloaded(o)
    PROVE  FetchReloadedDoes(o)
<1> USE DEF FetchReloadedDoes
<1>1. /\ pc[o] = "fetch"
      /\ \/ pc' = [pc EXCEPT ![o] = "done"] /\ obj' = obj
         \/ /\ pc' = [pc EXCEPT ![o] = "publish"]
            /\ \E i \in isLoaded(target[o]) : obj' = [obj EXCEPT ![o] = i]
      /\ UNCHANGED <<plugins, ctlLock, lib, unloaded, nameOf, readers, slots, slotOf, byName,
                     kind, target, ctx>>
    BY DEF FetchReloaded, Goto, Same, ctlVars, libVars, lockVars, slotVars, runVars, regVars
<1>2. pc \in [Ops -> Places] /\ obj \in [Ops -> Objects \cup {None}]
    BY DEF IInv, TypeOK
<1>3. kind[o] # "run" /\ ctx[o] = "none"
    BY <1>1, NameFacts DEF IInv, TypeOK, Roles, Running, Within
<1>4. isLoaded(target[o]) \subseteq plugins
    BY DEF isLoaded
<1> QED
    BY <1>1, <1>2, <1>3, <1>4
-----------------------------------------------------------------------------
(* Each part of the invariant is kept by every step.                       *)

(* Every step keeps the types. *)
LEMMA TypeStep ==
    ASSUME IInv, [Next]_vars
    PROVE  TypeOK'
<1>1. ASSUME NEW o \in Ops, Lookup(o) PROVE TypeOK'
    BY <1>1, PluginsAssumption
    DEF Lookup, Goto, Same, IInv, TypeOK, Places, Kinds, Roles, Known, Ops, Objects, ctlVars,
        libVars, lockVars, slotVars, regVars, runVars
<1>2. ASSUME NEW o \in Ops, Iterate(o) PROVE TypeOK'
    BY <1>2, PluginsAssumption
    DEF Iterate, Goto, Same, IInv, TypeOK, Places, Kinds, Roles, Known, Ops, Objects, ctlVars,
        libVars, lockVars, slotVars, regVars, runVars
<1>3. ASSUME NEW o \in Ops, RunEnter(o) PROVE TypeOK'
    <2>1. CASE unloaded[obj[o]]
        BY <1>3, <2>1 DEF RunEnter, IInv, TypeOK, Places, Goto, Same, Ops, Objects, ctlVars,
            libVars, lockVars, slotVars, regVars, runVars
    <2>2. CASE ~unloaded[obj[o]]
        <3>1. PICK s \in BOOLEAN : slow' = [slow EXCEPT ![o] = s /\ nameOf[obj[o]] \in WithCtx]
            BY <1>3, <2>2 DEF RunEnter
        <3>2. /\ readers' = [readers EXCEPT ![obj[o]] = IF nameOf[obj[o]] \in Unloadable THEN @ \cup {<<o, "run">>} ELSE @]
              /\ ctx' \in {[ctx EXCEPT ![o] = "wait"], [ctx EXCEPT ![o] = "none"]}
              /\ pc' = [pc EXCEPT ![o] = "inlib"]
            BY <1>3, <2>2 DEF RunEnter, RLock, Goto
        <3>3. readers' \in [Objects -> SUBSET (Ops \X {"run", "ctx"})]
            <4> DEFINE hold == <<o, "run">>
            <4>1. hold \in Ops \X {"run", "ctx"}
                OBVIOUS
            <4> HIDE DEF hold
            <4> QED
                BY <3>2, <4>1 DEF IInv, TypeOK, hold
        <3>4. slow' \in [Ops -> BOOLEAN]
            BY <3>1 DEF IInv, TypeOK
        <3>5. ctx' \in [Ops -> {"none", "wait", "woken", "inlib"}] /\ pc' \in [Ops -> Places]
            BY <3>2 DEF IInv, TypeOK, Places
        <3> QED
            BY <1>3, <2>2, <3>3, <3>4, <3>5 DEF RunEnter, IInv, TypeOK, Same, ctlVars,
                libVars, lockVars, slotVars, regVars, runVars
    <2> QED
        BY <2>1, <2>2
<1>4. ASSUME NEW o \in Ops, CallbackFails(o) PROVE TypeOK'
    BY <1>4, PluginsAssumption
    DEF CallbackFails, Goto, Same, IInv, TypeOK, Places, Kinds, Roles, Known, Ops, Objects,
        ctlVars, libVars, lockVars, slotVars, regVars, runVars
<1>5. ASSUME NEW o \in Ops, CallbackAllocs(o) PROVE TypeOK'
    BY <1>5, PluginsAssumption
    DEF CallbackAllocs, Goto, Same, IInv, TypeOK, Places, Kinds, Roles, Known, Ops, Objects,
        ctlVars, libVars, lockVars, slotVars, regVars, runVars
<1>6. ASSUME NEW o \in Ops, LibReturns(o) PROVE TypeOK'
    BY <1>6, PluginsAssumption
    DEF LibReturns, Goto, Same, IInv, TypeOK, Places, Kinds, Roles, Known, Ops, Objects,
        ctlVars, libVars, lockVars, slotVars, regVars, runVars
<1>7. ASSUME NEW o \in Ops, Free(o) PROVE TypeOK'
    BY <1>7, PluginsAssumption
    DEF Free, Goto, Same, IInv, TypeOK, Places, Kinds, Roles, Known, Ops, Objects, ctlVars,
        libVars, lockVars, slotVars, regVars, runVars
<1>8. ASSUME NEW o \in Ops, RunLeave(o) PROVE TypeOK'
    BY <1>8, PluginsAssumption
    DEF RunLeave, Goto, Same, RUnlock, IInv, TypeOK, Places, Kinds, Roles, Known, Ops,
        Objects, ctlVars, libVars, lockVars, slotVars, regVars, runVars
<1>9. ASSUME NEW o \in Ops, Cancel(o) PROVE TypeOK'
    BY <1>9, PluginsAssumption
    DEF Cancel, Goto, Same, IInv, TypeOK, Places, Kinds, Roles, Known, Ops, Objects, ctlVars,
        libVars, lockVars, slotVars, regVars, runVars
<1>10. ASSUME NEW o \in Ops, CtxWake(o) PROVE TypeOK'
    BY <1>10, PluginsAssumption
    DEF CtxWake, Goto, Same, IInv, TypeOK, Places, Kinds, Roles, Known, Ops, Objects, ctlVars,
        libVars, lockVars, slotVars, regVars, runVars
<1>11. ASSUME NEW o \in Ops, CtxEnter(o) PROVE TypeOK'
    <2>1. CASE unloaded[obj[o]]
        BY <1>11, <2>1 DEF CtxEnter, IInv, TypeOK, Goto, Same, Ops, Objects, ctlVars, libVars,
            lockVars, slotVars, regVars, runVars
    <2>2. CASE ~unloaded[obj[o]]
        <3>1. /\ readers' = [readers EXCEPT ![obj[o]] = IF nameOf[obj[o]] \in Unloadable THEN @ \cup {<<o, "ctx">>} ELSE @]
              /\ ctx' = [ctx EXCEPT ![o] = "inlib"]
            BY <1>11, <2>2 DEF CtxEnter, RLock
        <3>2. readers' \in [Objects -> SUBSET (Ops \X {"run", "ctx"})]
            <4> DEFINE hold == <<o, "ctx">>
            <4>1. hold \in Ops \X {"run", "ctx"}
                OBVIOUS
            <4> HIDE DEF hold
            <4> QED
                BY <3>1, <4>1 DEF IInv, TypeOK, hold
        <3>3. ctx' \in [Ops -> {"none", "wait", "woken", "inlib"}]
            BY <3>1 DEF IInv, TypeOK
        <3> QED
            BY <1>11, <3>2, <3>3 DEF CtxEnter, IInv, TypeOK, Same, ctlVars, libVars, lockVars,
                slotVars, regVars, runVars
    <2> QED
        BY <2>1, <2>2
<1>12. ASSUME NEW o \in Ops, CtxLeave(o) PROVE TypeOK'
    BY <1>12, PluginsAssumption
    DEF CtxLeave, Goto, Same, RUnlock, IInv, TypeOK, Places, Kinds, Roles, Known, Ops,
        Objects, ctlVars, libVars, lockVars, slotVars, regVars, runVars
<1>13. ASSUME NEW o \in Ops, Withdraw(o) PROVE TypeOK'
    <2>1. /\ pc' \in {[pc EXCEPT ![o] = "done"], [pc EXCEPT ![o] = "lock"]}
          /\ UNCHANGED <<ctlVars, libVars, lockVars, slotVars, runVars, obj, kind, target>>
          /\ UNCHANGED regVars \/ Unregister(target[o])
        BY <1>13 DEF Withdraw, Goto, Same
    <2>2. pc' \in [Ops -> Places]
        BY <2>1 DEF IInv, TypeOK, Places
    <2>3. byName' \in [Names -> Objects \cup {None}] /\ names' \in Seq(Names)
        <3>1. TypeOK /\ target[o] \in Names
            BY DEF IInv, TypeOK
        <3> QED
            BY <2>1, <3>1, UnregisterType DEF regVars, TypeOK
    <2> QED
        BY <2>1, <2>2, <2>3 DEF IInv, TypeOK, ctlVars, libVars, lockVars, slotVars, runVars
<1>14. ASSUME NEW o \in Ops, StartLoad(o) PROVE TypeOK'
    BY <1>14, PluginsAssumption
    DEF StartLoad, Goto, Same, IInv, TypeOK, Places, Kinds, Roles, Known, Ops, Objects,
        ctlVars, libVars, lockVars, slotVars, regVars, runVars
<1>15. ASSUME NEW o \in Ops, LockCtl(o) PROVE TypeOK'
    BY <1>15, PluginsAssumption
    DEF LockCtl, Goto, Same, IInv, TypeOK, Places, Kinds, Roles, Known, Ops, Objects, ctlVars,
        libVars, lockVars, slotVars, regVars, runVars
<1>16. ASSUME NEW o \in Ops, FindToUnload(o) PROVE TypeOK'
    <2>1. /\ ctlLock' \in {ctlLock, None}
          /\ pc' \in {[pc EXCEPT ![o] = "done"], [pc EXCEPT ![o] = "drain"]}
          /\ UNCHANGED <<plugins, readers, libVars, slotVars, regVars, runVars, kind, target>>
          /\ \/ UNCHANGED <<writer, obj>>
             \/ \E i \in isLoaded(target[o]) :
                   /\ obj' = [obj EXCEPT ![o] = i]
                   /\ writer' \in {writer, [writer EXCEPT ![i] = o]}
        BY <1>16 DEF FindToUnload, Fail, Goto, Same
    <2>2. isLoaded(target[o]) \subseteq Objects
        BY DEF IInv, TypeOK, isLoaded
    <2>3. ctlLock' \in Ops \cup {None} /\ pc' \in [Ops -> Places]
        BY <2>1 DEF IInv, TypeOK, Places
    <2>4. obj' \in [Ops -> Objects \cup {None}] /\ writer' \in [Objects -> Ops \cup {None}]
        <3>1. CASE UNCHANGED <<writer, obj>>
            BY <3>1 DEF IInv, TypeOK
        <3>2. ASSUME NEW i \in isLoaded(target[o]), obj' = [obj EXCEPT ![o] = i],
                     writer' \in {writer, [writer EXCEPT ![i] = o]}
              PROVE  /\ obj' \in [Ops -> Objects \cup {None}]
                     /\ writer' \in [Objects -> Ops \cup {None}]
            BY <2>2, <3>2 DEF IInv, TypeOK
        <3> QED
            BY <2>1, <3>1, <3>2
    <2> QED
        BY <2>1, <2>3, <2>4 DEF IInv, TypeOK, libVars, slotVars, regVars, runVars
<1>17. ASSUME NEW o \in Ops, UnloadLibrary(o) PROVE TypeOK'
    <2>1. /\ writer' = [writer EXCEPT ![obj[o]] = None]
          /\ unloaded' \in {unloaded, [unloaded EXCEPT ![obj[o]] = TRUE]}
          /\ lib' \in {lib, [lib EXCEPT ![obj[o]] = "released"], [lib EXCEPT ![obj[o]] = "stuck"]}
          /\ pc' \in {[pc EXCEPT ![o] = "done"], [pc EXCEPT ![o] = "deregister"]}
          /\ ctlLock' \in {ctlLock, None}
          /\ UNCHANGED <<plugins, readers, nameOf, slots, slotOf, byName, names, ctx, cancelled,
                         told, slow, obj, kind, target>>
        BY <1>17 DEF UnloadLibrary, Fail, Goto, Same, slotVars, regVars, runVars
    <2>2. /\ writer' \in [Objects -> Ops \cup {None}] /\ unloaded' \in [Objects -> BOOLEAN]
          /\ lib' \in [Objects -> {"none", "open", "released", "stuck"}]
          /\ pc' \in [Ops -> Places] /\ ctlLock' \in Ops \cup {None}
        BY <2>1 DEF IInv, TypeOK, Places
    <2> QED
        BY <2>1, <2>2 DEF IInv, TypeOK
<1>18. ASSUME NEW o \in Ops, Deregister(o) PROVE TypeOK'
    <2>1. /\ slots' = [slots EXCEPT ![slotOf[obj[o]]] = None]
          /\ plugins' = plugins \ {obj[o]}
          /\ ctlLock' \in {ctlLock, None}
          /\ \E where \in {"open", "reopen", "done"} : pc' = [pc EXCEPT ![o] = where]
          /\ UNCHANGED <<libVars, lockVars, slotOf, regVars, runVars, obj, kind, target>>
        BY <1>18 DEF Deregister, Fail, Goto, Same
    <2>2. slots' \in Seq(Objects \cup {None})
        <3>1. slots \in Seq(Objects \cup {None})
            BY DEF IInv, TypeOK
        <3>2. slotOf[obj[o]] \in 1 .. Len(slots)
            BY <1>18, <3>1 DEF Deregister, IInv, Stages, Owners, OwnsSlot
        <3> QED
            BY <2>1, <3>1, <3>2
    <2>3. pc' \in [Ops -> Places] /\ ctlLock' \in Ops \cup {None} /\ plugins' \subseteq Objects
        BY <2>1 DEF IInv, TypeOK, Places
    <2> QED
        BY <2>1, <2>2, <2>3 DEF IInv, TypeOK, libVars, lockVars, regVars, runVars
<1>19. ASSUME NEW o \in Ops, OpenLibrary(o) PROVE TypeOK'
    <2>1. /\ ctlLock' \in {ctlLock, None}
          /\ \E where \in {"slot", "reslot", "done"} : pc' = [pc EXCEPT ![o] = where]
          /\ \/ UNCHANGED <<lib, nameOf, obj>>
             \/ /\ lib' = [lib EXCEPT ![o] = "open"]
                /\ nameOf' = [nameOf EXCEPT ![o] = target[o]]
                /\ obj' = [obj EXCEPT ![o] = o]
          /\ UNCHANGED <<plugins, unloaded, lockVars, slotVars, regVars, runVars, kind, target>>
        BY <1>19 DEF OpenLibrary, Fail, Goto, Same
    <2>2. pc' \in [Ops -> Places] /\ ctlLock' \in Ops \cup {None}
        BY <2>1 DEF IInv, TypeOK, Places
    <2>3. /\ lib' \in [Objects -> {"none", "open", "released", "stuck"}]
          /\ nameOf' \in [Objects -> Names]
          /\ obj' \in [Ops -> Objects \cup {None}]
        <3>1. o \in Objects /\ target[o] \in Names
            BY DEF IInv, TypeOK, Objects
        <3>2. CASE UNCHANGED <<lib, nameOf, obj>>
            BY <3>2 DEF IInv, TypeOK
        <3>3. CASE /\ lib' = [lib EXCEPT ![o] = "open"]
                   /\ nameOf' = [nameOf EXCEPT ![o] = target[o]]
                   /\ obj' = [obj EXCEPT ![o] = o]
            BY <3>1, <3>3 DEF IInv, TypeOK
        <3> QED
            BY <2>1, <3>2, <3>3
    <2> QED
        BY <2>1, <2>2, <2>3 DEF IInv, TypeOK, lockVars, slotVars, regVars, runVars
<1>20. ASSUME NEW o \in Ops, TakeSlot(o) PROVE TypeOK'
    <2>1. /\ slots' = IF TargetSlot > Len(slots) THEN Append(slots, o) ELSE [slots EXCEPT ![TargetSlot] = o]
          /\ slotOf' = [slotOf EXCEPT ![o] = TargetSlot]
          /\ pc' \in {[pc EXCEPT ![o] = "setup"], [pc EXCEPT ![o] = "resetup"]}
          /\ UNCHANGED <<ctlVars, libVars, lockVars, regVars, runVars, obj, kind, target>>
        BY <1>20 DEF TakeSlot, Goto, Same
    <2>2. slots \in Seq(Objects \cup {None}) /\ o \in Objects
        BY DEF IInv, TypeOK, Objects
    <2>3. slots' \in Seq(Objects \cup {None})
        BY <2>1, <2>2
    <2>4. slotOf' \in [Objects -> Nat]
        BY <2>1, <2>2, TargetSlotIsFree DEF IInv, TypeOK
    <2>5. pc' \in [Ops -> Places]
        BY <2>1 DEF IInv, TypeOK, Places
    <2> QED
        BY <2>1, <2>3, <2>4, <2>5 DEF IInv, TypeOK, ctlVars, libVars, lockVars, regVars, runVars
<1>21. ASSUME NEW o \in Ops, Setup(o) PROVE TypeOK'
    <2>1. /\ ctlLock' = None
          /\ \E where \in {"done", "fetch", "publish"} : pc' = [pc EXCEPT ![o] = where]
          /\ lib' \in {lib, [lib EXCEPT ![o] = "released"], [lib EXCEPT ![o] = "stuck"]}
          /\ plugins' \in {plugins, plugins \cup {o}}
          /\ UNCHANGED <<unloaded, nameOf, lockVars, slotVars, regVars, runVars, obj, kind, target>>
        BY <1>21 DEF Setup, Goto, Same
    <2>2. pc' \in [Ops -> Places]
        BY <2>1 DEF IInv, TypeOK, Places
    <2>3. lib' \in [Objects -> {"none", "open", "released", "stuck"}] /\ plugins' \subseteq Objects
        BY <2>1 DEF IInv, TypeOK, Objects
    <2> QED
        BY <2>1, <2>2, <2>3 DEF IInv, TypeOK, lockVars, slotVars, regVars, runVars
<1>22. ASSUME NEW o \in Ops, FetchReloaded(o) PROVE TypeOK'
    <2>1. /\ pc' \in {[pc EXCEPT ![o] = "done"], [pc EXCEPT ![o] = "publish"]}
          /\ UNCHANGED obj \/ \E i \in isLoaded(target[o]) : obj' = [obj EXCEPT ![o] = i]
          /\ UNCHANGED <<ctlVars, libVars, lockVars, slotVars, regVars, runVars, kind, target>>
        BY <1>22 DEF FetchReloaded, Goto, Same
    <2>2. pc' \in [Ops -> Places]
        BY <2>1 DEF IInv, TypeOK, Places
    <2>3. obj' \in [Ops -> Objects \cup {None}]
        BY <2>1 DEF IInv, TypeOK, isLoaded
    <2> QED
        BY <2>1, <2>2, <2>3 DEF IInv, TypeOK, ctlVars, libVars, lockVars, slotVars, regVars,
            runVars
<1>23. ASSUME NEW o \in Ops, RegisterPlugin(o) PROVE TypeOK'
    BY <1>23, PluginsAssumption
    DEF RegisterPlugin, Goto, Same, Register, IInv, TypeOK, Places, Kinds, Roles, Known, Ops,
        Objects, ctlVars, libVars, lockVars, slotVars, regVars, runVars
<1>24. CASE UNCHANGED vars
    BY <1>24 DEF IInv, TypeOK, Places, Kinds, Roles, Known, vars, ctlVars, libVars, lockVars,
        slotVars, regVars, runVars
<1> QED
    BY <1>1, <1>2, <1>3, <1>4, <1>5, <1>6, <1>7, <1>8, <1>9, <1>10, <1>11, <1>12, <1>13,
        <1>14, <1>15, <1>16, <1>17, <1>18, <1>19, <1>20, <1>21, <1>22, <1>23, <1>24 DEF Next,
        RunStep, CtxStep, CtlStep

(* Who has the controller's lock, and where a run's goroutines are. *)
LEMMA RolesStep ==
    ASSUME IInv, [Next]_vars
    PROVE  Roles'
<1>0. /\ Roles
      /\ pc \in [Ops -> Places]
      /\ ctx \in [Ops -> {"none", "wait", "woken", "inlib"}]
    BY DEF IInv, TypeOK
<1>1. ASSUME NEW o \in Ops, Lookup(o) PROVE Roles'
    BY <1>1, <1>0, NameFacts
    DEF Lookup, Goto, Same, Roles, Running, Within, Locked,
        ctlVars, libVars, lockVars, slotVars, regVars, runVars
<1>2. ASSUME NEW o \in Ops, Iterate(o) PROVE Roles'
    BY <1>2, <1>0, NameFacts
    DEF Iterate, Goto, Same, Roles, Running, Within, Locked,
        ctlVars, libVars, lockVars, slotVars, regVars, runVars
<1>3. ASSUME NEW o \in Ops, RunEnter(o) PROVE Roles'
    <2>1. RunEnterDoes(o)
        BY <1>3, RunEnterEffect
    <2> QED
        BY <2>1, <1>0, NameFacts DEF RunEnterDoes, Roles, Running, Within, Locked
<1>4. ASSUME NEW o \in Ops, CallbackFails(o) PROVE Roles'
    BY <1>4, <1>0, NameFacts
    DEF CallbackFails, Goto, Same, Roles, Running, Within, Locked,
        ctlVars, libVars, lockVars, slotVars, regVars, runVars
<1>5. ASSUME NEW o \in Ops, CallbackAllocs(o) PROVE Roles'
    BY <1>5, <1>0, NameFacts
    DEF CallbackAllocs, Goto, Same, Roles, Running, Within, Locked,
        ctlVars, libVars, lockVars, slotVars, regVars, runVars
<1>6. ASSUME NEW o \in Ops, LibReturns(o) PROVE Roles'
    BY <1>6, <1>0, NameFacts
    DEF LibReturns, Goto, Same, Roles, Running, Within, Locked,
        ctlVars, libVars, lockVars, slotVars, regVars, runVars
<1>7. ASSUME NEW o \in Ops, Free(o) PROVE Roles'
    BY <1>7, <1>0, NameFacts
    DEF Free, Goto, Same, Roles, Running, Within, Locked,
        ctlVars, libVars, lockVars, slotVars, regVars, runVars
<1>8. ASSUME NEW o \in Ops, RunLeave(o) PROVE Roles'
    BY <1>8, <1>0, NameFacts
    DEF RunLeave, Goto, Same, RUnlock, Roles, Running, Within, Locked,
        ctlVars, libVars, lockVars, slotVars, regVars, runVars
<1>9. ASSUME NEW o \in Ops, Cancel(o) PROVE Roles'
    BY <1>9, <1>0, NameFacts
    DEF Cancel, Goto, Same, Roles, Running, Within, Locked,
        ctlVars, libVars, lockVars, slotVars, regVars, runVars
<1>10. ASSUME NEW o \in Ops, CtxWake(o) PROVE Roles'
    BY <1>10, <1>0, NameFacts
    DEF CtxWake, Goto, Same, Roles, Running, Within, Locked,
        ctlVars, libVars, lockVars, slotVars, regVars, runVars
<1>11. ASSUME NEW o \in Ops, CtxEnter(o) PROVE Roles'
    <2>1. CtxEnterDoes(o)
        BY <1>11, CtxEnterEffect
    <2> QED
        BY <2>1, <1>0, NameFacts DEF CtxEnterDoes, Roles, Running, Within, Locked
<1>12. ASSUME NEW o \in Ops, CtxLeave(o) PROVE Roles'
    BY <1>12, <1>0, NameFacts
    DEF CtxLeave, Goto, Same, RUnlock, Roles, Running, Within, Locked,
        ctlVars, libVars, lockVars, slotVars, regVars, runVars
<1>13. ASSUME NEW o \in Ops, Withdraw(o) PROVE Roles'
    <2>1. WithdrawDoes(o)
        BY <1>13, WithdrawEffect
    <2> QED
        BY <2>1, <1>0, NameFacts DEF WithdrawDoes, Roles, Running, Within, Locked
<1>14. ASSUME NEW o \in Ops, StartLoad(o) PROVE Roles'
    BY <1>14, <1>0, NameFacts
    DEF StartLoad, Goto, Same, Roles, Running, Within, Locked,
        ctlVars, libVars, lockVars, slotVars, regVars, runVars
<1>15. ASSUME NEW o \in Ops, LockCtl(o) PROVE Roles'
    BY <1>15, <1>0, NameFacts
    DEF LockCtl, Goto, Same, Roles, Running, Within, Locked,
        ctlVars, libVars, lockVars, slotVars, regVars, runVars
<1>16. ASSUME NEW o \in Ops, FindToUnload(o) PROVE Roles'
    <2>1. FindToUnloadDoes(o)
        BY <1>16, FindToUnloadEffect
    <2> QED
        BY <2>1, <1>0, NameFacts DEF FindToUnloadDoes, Roles, Running, Within, Locked
<1>17. ASSUME NEW o \in Ops, UnloadLibrary(o) PROVE Roles'
    <2>1. UnloadLibraryDoes(o)
        BY <1>17, UnloadLibraryEffect
    <2> QED
        BY <2>1, <1>0, NameFacts DEF UnloadLibraryDoes, Roles, Running, Within, Locked
<1>18. ASSUME NEW o \in Ops, Deregister(o) PROVE Roles'
    <2>1. DeregisterDoes(o)
        BY <1>18, DeregisterEffect
    <2> QED
        BY <2>1, <1>0, NameFacts DEF DeregisterDoes, Roles, Running, Within, Locked
<1>19. ASSUME NEW o \in Ops, OpenLibrary(o) PROVE Roles'
    <2>1. OpenLibraryDoes(o)
        BY <1>19, OpenLibraryEffect
    <2> QED
        BY <2>1, <1>0, NameFacts DEF OpenLibraryDoes, Roles, Running, Within, Locked
<1>20. ASSUME NEW o \in Ops, TakeSlot(o) PROVE Roles'
    <2>1. TakeSlotDoes(o)
        BY <1>20, TakeSlotEffect
    <2> QED
        BY <2>1, <1>0, NameFacts DEF TakeSlotDoes, Roles, Running, Within, Locked
<1>21. ASSUME NEW o \in Ops, Setup(o) PROVE Roles'
    <2>1. SetupDoes(o)
        BY <1>21, SetupEffect
    <2> QED
        BY <2>1, <1>0, NameFacts DEF SetupDoes, Roles, Running, Within, Locked
<1>22. ASSUME NEW o \in Ops, FetchReloaded(o) PROVE Roles'
    <2>1. FetchReloadedDoes(o)
        BY <1>22, FetchReloadedEffect
    <2> QED
        BY <2>1, <1>0, NameFacts DEF FetchReloadedDoes, Roles, Running, Within, Locked
<1>23. ASSUME NEW o \in Ops, RegisterPlugin(o) PROVE Roles'
    BY <1>23, <1>0, NameFacts
    DEF RegisterPlugin, Goto, Same, Register, Roles, Running, Within, Locked,
        ctlVars, libVars, lockVars, slotVars, regVars, runVars
<1>24. CASE UNCHANGED vars
    BY <1>24, <1>0 DEF Roles, Running, Within, Locked, vars, ctlVars, libVars, lockVars,
        slotVars, regVars, runVars
<1> QED
    BY <1>1, <1>2, <1>3, <1>4, <1>5, <1>6, <1>7, <1>8, <1>9, <1>10, <1>11, <1>12, <1>13,
        <1>14, <1>15, <1>16, <1>17, <1>18, <1>19, <1>20, <1>21, <1>22, <1>23, <1>24
    DEF Next, RunStep, CtxStep, CtlStep

(* What can be used without the controller's lock was listed once. *)
LEMMA KnownStep ==
    ASSUME IInv, [Next]_vars
    PROVE  Known'
<1>0. /\ Roles
      /\ Known
      /\ pc \in [Ops -> Places]
      /\ obj \in [Ops -> Objects \cup {None}]
      /\ ctx \in [Ops -> {"none", "wait", "woken", "inlib"}]
      /\ byName \in [Names -> Objects \cup {None}]
      /\ target \in [Ops -> Names]
      /\ plugins \subseteq Objects
    BY DEF IInv, TypeOK
<1>1. ASSUME NEW o \in Ops, Lookup(o) PROVE Known'
    BY <1>1, <1>0, NameFacts
    DEF Lookup, Goto, Same, Known, EverListed, Running, Within, Roles,
        ctlVars, libVars, lockVars, slotVars, regVars, runVars
<1>2. ASSUME NEW o \in Ops, Iterate(o) PROVE Known'
    BY <1>2, <1>0, NameFacts
    DEF Iterate, Goto, Same, Known, EverListed, Running, Within, Roles,
        ctlVars, libVars, lockVars, slotVars, regVars, runVars
<1>3. ASSUME NEW o \in Ops, RunEnter(o) PROVE Known'
    <2>1. RunEnterDoes(o)
        BY <1>3, RunEnterEffect
    <2> QED
        BY <2>1, <1>0, NameFacts DEF RunEnterDoes, Known, EverListed, Running, Within, Roles
<1>4. ASSUME NEW o \in Ops, CallbackFails(o) PROVE Known'
    BY <1>4, <1>0, NameFacts
    DEF CallbackFails, Goto, Same, Known, EverListed, Running, Within, Roles,
        ctlVars, libVars, lockVars, slotVars, regVars, runVars
<1>5. ASSUME NEW o \in Ops, CallbackAllocs(o) PROVE Known'
    BY <1>5, <1>0, NameFacts
    DEF CallbackAllocs, Goto, Same, Known, EverListed, Running, Within, Roles,
        ctlVars, libVars, lockVars, slotVars, regVars, runVars
<1>6. ASSUME NEW o \in Ops, LibReturns(o) PROVE Known'
    BY <1>6, <1>0, NameFacts
    DEF LibReturns, Goto, Same, Known, EverListed, Running, Within, Roles,
        ctlVars, libVars, lockVars, slotVars, regVars, runVars
<1>7. ASSUME NEW o \in Ops, Free(o) PROVE Known'
    BY <1>7, <1>0, NameFacts
    DEF Free, Goto, Same, Known, EverListed, Running, Within, Roles,
        ctlVars, libVars, lockVars, slotVars, regVars, runVars
<1>8. ASSUME NEW o \in Ops, RunLeave(o) PROVE Known'
    BY <1>8, <1>0, NameFacts
    DEF RunLeave, Goto, Same, RUnlock, Known, EverListed, Running, Within, Roles,
        ctlVars, libVars, lockVars, slotVars, regVars, runVars
<1>9. ASSUME NEW o \in Ops, Cancel(o) PROVE Known'
    BY <1>9, <1>0, NameFacts
    DEF Cancel, Goto, Same, Known, EverListed, Running, Within, Roles,
        ctlVars, libVars, lockVars, slotVars, regVars, runVars
<1>10. ASSUME NEW o \in Ops, CtxWake(o) PROVE Known'
    BY <1>10, <1>0, NameFacts
    DEF CtxWake, Goto, Same, Known, EverListed, Running, Within, Roles,
        ctlVars, libVars, lockVars, slotVars, regVars, runVars
<1>11. ASSUME NEW o \in Ops, CtxEnter(o) PROVE Known'
    <2>1. CtxEnterDoes(o)
        BY <1>11, CtxEnterEffect
    <2> QED
        BY <2>1, <1>0, NameFacts DEF CtxEnterDoes, Known, EverListed, Running, Within, Roles
<1>12. ASSUME NEW o \in Ops, CtxLeave(o) PROVE Known'
    BY <1>12, <1>0, NameFacts
    DEF CtxLeave, Goto, Same, RUnlock, Known, EverListed, Running, Within, Roles,
        ctlVars, libVars, lockVars, slotVars, regVars, runVars
<1>13. ASSUME NEW o \in Ops, Withdraw(o) PROVE Known'
    <2>1. WithdrawDoes(o)
        BY <1>13, WithdrawEffect
    <2> QED
        BY <2>1, <1>0, NameFacts DEF WithdrawDoes, Known, EverListed, Running, Within, Roles
<1>14. ASSUME NEW o \in Ops, StartLoad(o) PROVE Known'
    BY <1>14, <1>0, NameFacts
    DEF StartLoad, Goto, Same, Known, EverListed, Running, Within, Roles,
        ctlVars, libVars, lockVars, slotVars, regVars, runVars
<1>15. ASSUME NEW o \in Ops, LockCtl(o) PROVE Known'
    BY <1>15, <1>0, NameFacts
    DEF LockCtl, Goto, Same, Known, EverListed, Running, Within, Roles,
        ctlVars, libVars, lockVars, slotVars, regVars, runVars
<1>16. ASSUME NEW o \in Ops, FindToUnload(o) PROVE Known'
    <2>1. FindToUnloadDoes(o)
        BY <1>16, FindToUnloadEffect
    <2> QED
        BY <2>1, <1>0, NameFacts DEF FindToUnloadDoes, Known, EverListed, Running, Within, Roles
<1>17. ASSUME NEW o \in Ops, UnloadLibrary(o) PROVE Known'
    <2>1. UnloadLibraryDoes(o)
        BY <1>17, UnloadLibraryEffect
    <2> QED
        BY <2>1, <1>0, NameFacts DEF UnloadLibraryDoes, Known, EverListed, Running, Within,
            Roles
<1>18. ASSUME NEW o \in Ops, Deregister(o) PROVE Known'
    <2>1. DeregisterDoes(o)
        BY <1>18, DeregisterEffect
    <2> QED
        BY <2>1, <1>0, NameFacts DEF DeregisterDoes, Known, EverListed, Running, Within, Roles
<1>19. ASSUME NEW o \in Ops, OpenLibrary(o) PROVE Known'
    <2>1. OpenLibraryDoes(o)
        BY <1>19, OpenLibraryEffect
    <2> QED
        BY <2>1, <1>0, NameFacts DEF OpenLibraryDoes, Known, EverListed, Running, Within, Roles
<1>20. ASSUME NEW o \in Ops, TakeSlot(o) PROVE Known'
    <2>1. TakeSlotDoes(o)
        BY <1>20, TakeSlotEffect
    <2> QED
        BY <2>1, <1>0, NameFacts DEF TakeSlotDoes, Known, EverListed, Running, Within, Roles
<1>21. ASSUME NEW o \in Ops, Setup(o) PROVE Known'
    <2>1. SetupDoes(o)
        BY <1>21, SetupEffect
    <2> QED
        BY <2>1, <1>0, NameFacts DEF SetupDoes, Known, EverListed, Running, Within, Roles
<1>22. ASSUME NEW o \in Ops, FetchReloaded(o) PROVE Known'
    <2>1. FetchReloadedDoes(o)
        BY <1>22, FetchReloadedEffect
    <2> QED
        BY <2>1, <1>0, NameFacts DEF FetchReloadedDoes, Known, EverListed, Running, Within,
            Roles
<1>23. ASSUME NEW o \in Ops, RegisterPlugin(o) PROVE Known'
    BY <1>23, <1>0, NameFacts
    DEF RegisterPlugin, Goto, Same, Register, Known, EverListed, Running, Within, Roles,
        ctlVars, libVars, lockVars, slotVars, regVars, runVars
<1>24. CASE UNCHANGED vars
    BY <1>24, <1>0 DEF Known, EverListed, Running, Within, Roles, vars, ctlVars, libVars,
        lockVars, slotVars, regVars, runVars
<1> QED
    BY <1>1, <1>2, <1>3, <1>4, <1>5, <1>6, <1>7, <1>8, <1>9, <1>10, <1>11, <1>12, <1>13,
        <1>14, <1>15, <1>16, <1>17, <1>18, <1>19, <1>20, <1>21, <1>22, <1>23, <1>24
    DEF Next, RunStep, CtxStep, CtlStep

(* What is listed is open until it is marked, and has its name for itself. *)
LEMMA ListingStep ==
    ASSUME IInv, [Next]_vars
    PROVE  Listing'
<1>0. /\ Listing
      /\ Stages
      /\ pc \in [Ops -> Places]
      /\ plugins \subseteq Objects
    BY DEF IInv, TypeOK
<1>1. ASSUME NEW o \in Ops, Lookup(o) PROVE Listing'
    BY <1>1, <1>0, NameFacts
    DEF Lookup, Goto, Same, Listing, EverListed, Stages, isLoaded,
        ctlVars, libVars, lockVars, slotVars, regVars, runVars
<1>2. ASSUME NEW o \in Ops, Iterate(o) PROVE Listing'
    BY <1>2, <1>0, NameFacts
    DEF Iterate, Goto, Same, Listing, EverListed, Stages, isLoaded,
        ctlVars, libVars, lockVars, slotVars, regVars, runVars
<1>3. ASSUME NEW o \in Ops, RunEnter(o) PROVE Listing'
    <2>1. RunEnterDoes(o)
        BY <1>3, RunEnterEffect
    <2> QED
        BY <2>1, <1>0, NameFacts DEF RunEnterDoes, Listing, EverListed, Stages, isLoaded
<1>4. ASSUME NEW o \in Ops, CallbackFails(o) PROVE Listing'
    BY <1>4, <1>0, NameFacts
    DEF CallbackFails, Goto, Same, Listing, EverListed, Stages, isLoaded,
        ctlVars, libVars, lockVars, slotVars, regVars, runVars
<1>5. ASSUME NEW o \in Ops, CallbackAllocs(o) PROVE Listing'
    BY <1>5, <1>0, NameFacts
    DEF CallbackAllocs, Goto, Same, Listing, EverListed, Stages, isLoaded,
        ctlVars, libVars, lockVars, slotVars, regVars, runVars
<1>6. ASSUME NEW o \in Ops, LibReturns(o) PROVE Listing'
    BY <1>6, <1>0, NameFacts
    DEF LibReturns, Goto, Same, Listing, EverListed, Stages, isLoaded,
        ctlVars, libVars, lockVars, slotVars, regVars, runVars
<1>7. ASSUME NEW o \in Ops, Free(o) PROVE Listing'
    BY <1>7, <1>0, NameFacts
    DEF Free, Goto, Same, Listing, EverListed, Stages, isLoaded,
        ctlVars, libVars, lockVars, slotVars, regVars, runVars
<1>8. ASSUME NEW o \in Ops, RunLeave(o) PROVE Listing'
    BY <1>8, <1>0, NameFacts
    DEF RunLeave, Goto, Same, RUnlock, Listing, EverListed, Stages, isLoaded,
        ctlVars, libVars, lockVars, slotVars, regVars, runVars
<1>9. ASSUME NEW o \in Ops, Cancel(o) PROVE Listing'
    BY <1>9, <1>0, NameFacts
    DEF Cancel, Goto, Same, Listing, EverListed, Stages, isLoaded,
        ctlVars, libVars, lockVars, slotVars, regVars, runVars
<1>10. ASSUME NEW o \in Ops, CtxWake(o) PROVE Listing'
    BY <1>10, <1>0, NameFacts
    DEF CtxWake, Goto, Same, Listing, EverListed, Stages, isLoaded,
        ctlVars, libVars, lockVars, slotVars, regVars, runVars
<1>11. ASSUME NEW o \in Ops, CtxEnter(o) PROVE Listing'
    <2>1. CtxEnterDoes(o)
        BY <1>11, CtxEnterEffect
    <2> QED
        BY <2>1, <1>0, NameFacts DEF CtxEnterDoes, Listing, EverListed, Stages, isLoaded
<1>12. ASSUME NEW o \in Ops, CtxLeave(o) PROVE Listing'
    BY <1>12, <1>0, NameFacts
    DEF CtxLeave, Goto, Same, RUnlock, Listing, EverListed, Stages, isLoaded,
        ctlVars, libVars, lockVars, slotVars, regVars, runVars
<1>13. ASSUME NEW o \in Ops, Withdraw(o) PROVE Listing'
    <2>1. WithdrawDoes(o)
        BY <1>13, WithdrawEffect
    <2> QED
        BY <2>1, <1>0, NameFacts DEF WithdrawDoes, Listing, EverListed, Stages, isLoaded
<1>14. ASSUME NEW o \in Ops, StartLoad(o) PROVE Listing'
    BY <1>14, <1>0, NameFacts
    DEF StartLoad, Goto, Same, Listing, EverListed, Stages, isLoaded,
        ctlVars, libVars, lockVars, slotVars, regVars, runVars
<1>15. ASSUME NEW o \in Ops, LockCtl(o) PROVE Listing'
    BY <1>15, <1>0, NameFacts
    DEF LockCtl, Goto, Same, Listing, EverListed, Stages, isLoaded,
        ctlVars, libVars, lockVars, slotVars, regVars, runVars
<1>16. ASSUME NEW o \in Ops, FindToUnload(o) PROVE Listing'
    <2>1. FindToUnloadDoes(o)
        BY <1>16, FindToUnloadEffect
    <2> QED
        BY <2>1, <1>0, NameFacts DEF FindToUnloadDoes, Listing, EverListed, Stages, isLoaded
<1>17. ASSUME NEW o \in Ops, UnloadLibrary(o) PROVE Listing'
    <2>1. UnloadLibraryDoes(o)
        BY <1>17, UnloadLibraryEffect
    <2> QED
        BY <2>1, <1>0, NameFacts DEF UnloadLibraryDoes, Listing, EverListed, Stages, isLoaded
<1>18. ASSUME NEW o \in Ops, Deregister(o) PROVE Listing'
    <2>1. DeregisterDoes(o)
        BY <1>18, DeregisterEffect
    <2> QED
        BY <2>1, <1>0, NameFacts DEF DeregisterDoes, Listing, EverListed, Stages, isLoaded
<1>19. ASSUME NEW o \in Ops, OpenLibrary(o) PROVE Listing'
    <2>1. OpenLibraryDoes(o)
        BY <1>19, OpenLibraryEffect
    <2> QED
        BY <2>1, <1>0, NameFacts DEF OpenLibraryDoes, Listing, EverListed, Stages, isLoaded
<1>20. ASSUME NEW o \in Ops, TakeSlot(o) PROVE Listing'
    <2>1. TakeSlotDoes(o)
        BY <1>20, TakeSlotEffect
    <2> QED
        BY <2>1, <1>0, NameFacts DEF TakeSlotDoes, Listing, EverListed, Stages, isLoaded
<1>21. ASSUME NEW o \in Ops, Setup(o) PROVE Listing'
    <2>1. SetupDoes(o)
        BY <1>21, SetupEffect
    <2> QED
        BY <2>1, <1>0, NameFacts DEF SetupDoes, Listing, EverListed, Stages, isLoaded
<1>22. ASSUME NEW o \in Ops, FetchReloaded(o) PROVE Listing'
    <2>1. FetchReloadedDoes(o)
        BY <1>22, FetchReloadedEffect
    <2> QED
        BY <2>1, <1>0, NameFacts DEF FetchReloadedDoes, Listing, EverListed, Stages, isLoaded
<1>23. ASSUME NEW o \in Ops, RegisterPlugin(o) PROVE Listing'
    BY <1>23, <1>0, NameFacts
    DEF RegisterPlugin, Goto, Same, Register, Listing, EverListed, Stages, isLoaded,
        ctlVars, libVars, lockVars, slotVars, regVars, runVars
<1>24. CASE UNCHANGED vars
    BY <1>24, <1>0 DEF Listing, EverListed, Stages, isLoaded, vars, ctlVars, libVars,
        lockVars, slotVars, regVars, runVars
<1> QED
    BY <1>1, <1>2, <1>3, <1>4, <1>5, <1>6, <1>7, <1>8, <1>9, <1>10, <1>11, <1>12, <1>13,
        <1>14, <1>15, <1>16, <1>17, <1>18, <1>19, <1>20, <1>21, <1>22, <1>23, <1>24
    DEF Next, RunStep, CtxStep, CtlStep

(* What the controller has done is told by the place of the lock's holder. *)
LEMMA StagesStep ==
    ASSUME IInv, [Next]_vars
    PROVE  Stages'
<1>0. /\ Stages
      /\ Listing
      /\ Roles
      /\ pc \in [Ops -> Places]
      /\ plugins \subseteq Objects
    BY DEF IInv, TypeOK
<1>1. ASSUME NEW o \in Ops, Lookup(o) PROVE Stages'
    BY <1>1, <1>0, NameFacts
    DEF Lookup, Goto, Same, Stages, isLoaded, Roles, Locked, Listing,
        ctlVars, libVars, lockVars, slotVars, regVars, runVars
<1>2. ASSUME NEW o \in Ops, Iterate(o) PROVE Stages'
    BY <1>2, <1>0, NameFacts
    DEF Iterate, Goto, Same, Stages, isLoaded, Roles, Locked, Listing,
        ctlVars, libVars, lockVars, slotVars, regVars, runVars
<1>3. ASSUME NEW o \in Ops, RunEnter(o) PROVE Stages'
    <2>1. RunEnterDoes(o)
        BY <1>3, RunEnterEffect
    <2> QED
        BY <2>1, <1>0, NameFacts DEF RunEnterDoes, Stages, isLoaded, Roles, Locked, Listing
<1>4. ASSUME NEW o \in Ops, CallbackFails(o) PROVE Stages'
    BY <1>4, <1>0, NameFacts
    DEF CallbackFails, Goto, Same, Stages, isLoaded, Roles, Locked, Listing,
        ctlVars, libVars, lockVars, slotVars, regVars, runVars
<1>5. ASSUME NEW o \in Ops, CallbackAllocs(o) PROVE Stages'
    BY <1>5, <1>0, NameFacts
    DEF CallbackAllocs, Goto, Same, Stages, isLoaded, Roles, Locked, Listing,
        ctlVars, libVars, lockVars, slotVars, regVars, runVars
<1>6. ASSUME NEW o \in Ops, LibReturns(o) PROVE Stages'
    BY <1>6, <1>0, NameFacts
    DEF LibReturns, Goto, Same, Stages, isLoaded, Roles, Locked, Listing,
        ctlVars, libVars, lockVars, slotVars, regVars, runVars
<1>7. ASSUME NEW o \in Ops, Free(o) PROVE Stages'
    BY <1>7, <1>0, NameFacts
    DEF Free, Goto, Same, Stages, isLoaded, Roles, Locked, Listing,
        ctlVars, libVars, lockVars, slotVars, regVars, runVars
<1>8. ASSUME NEW o \in Ops, RunLeave(o) PROVE Stages'
    BY <1>8, <1>0, NameFacts
    DEF RunLeave, Goto, Same, RUnlock, Stages, isLoaded, Roles, Locked, Listing,
        ctlVars, libVars, lockVars, slotVars, regVars, runVars
<1>9. ASSUME NEW o \in Ops, Cancel(o) PROVE Stages'
    BY <1>9, <1>0, NameFacts
    DEF Cancel, Goto, Same, Stages, isLoaded, Roles, Locked, Listing,
        ctlVars, libVars, lockVars, slotVars, regVars, runVars
<1>10. ASSUME NEW o \in Ops, CtxWake(o) PROVE Stages'
    BY <1>10, <1>0, NameFacts
    DEF CtxWake, Goto, Same, Stages, isLoaded, Roles, Locked, Listing,
        ctlVars, libVars, lockVars, slotVars, regVars, runVars
<1>11. ASSUME NEW o \in Ops, CtxEnter(o) PROVE Stages'
    <2>1. CtxEnterDoes(o)
        BY <1>11, CtxEnterEffect
    <2> QED
        BY <2>1, <1>0, NameFacts DEF CtxEnterDoes, Stages, isLoaded, Roles, Locked, Listing
<1>12. ASSUME NEW o \in Ops, CtxLeave(o) PROVE Stages'
    BY <1>12, <1>0, NameFacts
    DEF CtxLeave, Goto, Same, RUnlock, Stages, isLoaded, Roles, Locked, Listing,
        ctlVars, libVars, lockVars, slotVars, regVars, runVars
<1>13. ASSUME NEW o \in Ops, Withdraw(o) PROVE Stages'
    <2>1. WithdrawDoes(o)
        BY <1>13, WithdrawEffect
    <2> QED
        BY <2>1, <1>0, NameFacts DEF WithdrawDoes, Stages, isLoaded, Roles, Locked, Listing
<1>14. ASSUME NEW o \in Ops, StartLoad(o) PROVE Stages'
    BY <1>14, <1>0, NameFacts
    DEF StartLoad, Goto, Same, Stages, isLoaded, Roles, Locked, Listing,
        ctlVars, libVars, lockVars, slotVars, regVars, runVars
<1>15. ASSUME NEW o \in Ops, LockCtl(o) PROVE Stages'
    BY <1>15, <1>0, NameFacts
    DEF LockCtl, Goto, Same, Stages, isLoaded, Roles, Locked, Listing,
        ctlVars, libVars, lockVars, slotVars, regVars, runVars
<1>16. ASSUME NEW o \in Ops, FindToUnload(o) PROVE Stages'
    <2>1. FindToUnloadDoes(o)
        BY <1>16, FindToUnloadEffect
    <2> QED
        BY <2>1, <1>0, NameFacts DEF FindToUnloadDoes, Stages, isLoaded, Roles, Locked, Listing
<1>17. ASSUME NEW o \in Ops, UnloadLibrary(o) PROVE Stages'
    <2>1. UnloadLibraryDoes(o)
        BY <1>17, UnloadLibraryEffect
    <2> QED
        BY <2>1, <1>0, NameFacts DEF UnloadLibraryDoes, Stages, isLoaded, Roles, Locked, Listing
<1>18. ASSUME NEW o \in Ops, Deregister(o) PROVE Stages'
    <2>1. DeregisterDoes(o)
        BY <1>18, DeregisterEffect
    <2> QED
        BY <2>1, <1>0, NameFacts DEF DeregisterDoes, Stages, isLoaded, Roles, Locked, Listing
<1>19. ASSUME NEW o \in Ops, OpenLibrary(o) PROVE Stages'
    <2>1. OpenLibraryDoes(o)
        BY <1>19, OpenLibraryEffect
    <2>2. o \notin EverListed /\ o \in Objects /\ o # Boot
        BY <2>1, NameFacts DEF OpenLibraryDoes, IInv, Listing
    <2>3. o \notin plugins /\ ~unloaded[o] /\ \A i \in plugins : nameOf'[i] = nameOf[i] /\ i \in Objects
        BY <2>1, <2>2, <1>0 DEF OpenLibraryDoes, EverListed
    <2>4. \A n : isLoaded(n)' = isLoaded(n)
        BY <2>1, <2>3 DEF OpenLibraryDoes, isLoaded
    <2>5. \A p \in Ops \ {o} : pc[p] \notin Locked
        BY <2>1, <1>0 DEF OpenLibraryDoes, Roles
    <2> QED
        BY <2>1, <2>2, <2>3, <2>4, <2>5, <1>0, NameFacts DEF OpenLibraryDoes, Stages, Locked
<1>20. ASSUME NEW o \in Ops, TakeSlot(o) PROVE Stages'
    <2>1. TakeSlotDoes(o)
        BY <1>20, TakeSlotEffect
    <2> QED
        BY <2>1, <1>0, NameFacts DEF TakeSlotDoes, Stages, isLoaded, Roles, Locked, Listing
<1>21. ASSUME NEW o \in Ops, Setup(o) PROVE Stages'
    <2>1. SetupDoes(o)
        BY <1>21, SetupEffect
    <2> QED
        BY <2>1, <1>0, NameFacts DEF SetupDoes, Stages, isLoaded, Roles, Locked, Listing
<1>22. ASSUME NEW o \in Ops, FetchReloaded(o) PROVE Stages'
    <2>1. FetchReloadedDoes(o)
        BY <1>22, FetchReloadedEffect
    <2> QED
        BY <2>1, <1>0, NameFacts DEF FetchReloadedDoes, Stages, isLoaded, Roles, Locked, Listing
<1>23. ASSUME NEW o \in Ops, RegisterPlugin(o) PROVE Stages'
    BY <1>23, <1>0, NameFacts
    DEF RegisterPlugin, Goto, Same, Register, Stages, isLoaded, Roles, Locked, Listing,
        ctlVars, libVars, lockVars, slotVars, regVars, runVars
<1>24. CASE UNCHANGED vars
    BY <1>24, <1>0 DEF Stages, isLoaded, Roles, Locked, Listing, vars, ctlVars, libVars,
        lockVars, slotVars, regVars, runVars
<1> QED
    BY <1>1, <1>2, <1>3, <1>4, <1>5, <1>6, <1>7, <1>8, <1>9, <1>10, <1>11, <1>12, <1>13,
        <1>14, <1>15, <1>16, <1>17, <1>18, <1>19, <1>20, <1>21, <1>22, <1>23, <1>24
    DEF Next, RunStep, CtxStep, CtlStep

(* Whoever is inside a library holds its lock. *)
LEMMA HoldsStep ==
    ASSUME IInv, [Next]_vars
    PROVE  Holds'
<1>0. /\ Holds
      /\ Roles
      /\ Known
      /\ plugins \subseteq Objects
      /\ pc \in [Ops -> Places]
      /\ ctx \in [Ops -> {"none", "wait", "woken", "inlib"}]
      /\ readers \in [Objects -> SUBSET (Ops \X {"run", "ctx"})]
    BY DEF IInv, TypeOK
<1>1. ASSUME NEW o \in Ops, Lookup(o) PROVE Holds'
    BY <1>1, <1>0, NameFacts
    DEF Lookup, Goto, Same, Holds, Inside, Within, Running, Roles, Known, EverListed,
        ctlVars, libVars, lockVars, slotVars, regVars, runVars
<1>2. ASSUME NEW o \in Ops, Iterate(o) PROVE Holds'
    BY <1>2, <1>0, NameFacts
    DEF Iterate, Goto, Same, Holds, Inside, Within, Running, Roles, Known, EverListed,
        ctlVars, libVars, lockVars, slotVars, regVars, runVars
<1>3. ASSUME NEW o \in Ops, RunEnter(o) PROVE Holds'
    <2>1. RunEnterDoes(o)
        BY <1>3, RunEnterEffect
    <2> QED
        BY <2>1, <1>0, NameFacts DEF RunEnterDoes, Holds, Inside, Within, Running, Roles,
            Known, EverListed
<1>4. ASSUME NEW o \in Ops, CallbackFails(o) PROVE Holds'
    BY <1>4, <1>0, NameFacts
    DEF CallbackFails, Goto, Same, Holds, Inside, Within, Running, Roles, Known, EverListed,
        ctlVars, libVars, lockVars, slotVars, regVars, runVars
<1>5. ASSUME NEW o \in Ops, CallbackAllocs(o) PROVE Holds'
    BY <1>5, <1>0, NameFacts
    DEF CallbackAllocs, Goto, Same, Holds, Inside, Within, Running, Roles, Known, EverListed,
        ctlVars, libVars, lockVars, slotVars, regVars, runVars
<1>6. ASSUME NEW o \in Ops, LibReturns(o) PROVE Holds'
    BY <1>6, <1>0, NameFacts
    DEF LibReturns, Goto, Same, Holds, Inside, Within, Running, Roles, Known, EverListed,
        ctlVars, libVars, lockVars, slotVars, regVars, runVars
<1>7. ASSUME NEW o \in Ops, Free(o) PROVE Holds'
    BY <1>7, <1>0, NameFacts
    DEF Free, Goto, Same, Holds, Inside, Within, Running, Roles, Known, EverListed,
        ctlVars, libVars, lockVars, slotVars, regVars, runVars
<1>8. ASSUME NEW o \in Ops, RunLeave(o) PROVE Holds'
    BY <1>8, <1>0, NameFacts
    DEF RunLeave, Goto, Same, RUnlock, Holds, Inside, Within, Running, Roles, Known, EverListed,
        ctlVars, libVars, lockVars, slotVars, regVars, runVars
<1>9. ASSUME NEW o \in Ops, Cancel(o) PROVE Holds'
    BY <1>9, <1>0, NameFacts
    DEF Cancel, Goto, Same, Holds, Inside, Within, Running, Roles, Known, EverListed,
        ctlVars, libVars, lockVars, slotVars, regVars, runVars
<1>10. ASSUME NEW o \in Ops, CtxWake(o) PROVE Holds'
    BY <1>10, <1>0, NameFacts
    DEF CtxWake, Goto, Same, Holds, Inside, Within, Running, Roles, Known, EverListed,
        ctlVars, libVars, lockVars, slotVars, regVars, runVars
<1>11. ASSUME NEW o \in Ops, CtxEnter(o) PROVE Holds'
    <2>1. CtxEnterDoes(o)
        BY <1>11, CtxEnterEffect
    <2> QED
        BY <2>1, <1>0, NameFacts DEF CtxEnterDoes, Holds, Inside, Within, Running, Roles,
            Known, EverListed
<1>12. ASSUME NEW o \in Ops, CtxLeave(o) PROVE Holds'
    BY <1>12, <1>0, NameFacts
    DEF CtxLeave, Goto, Same, RUnlock, Holds, Inside, Within, Running, Roles, Known, EverListed,
        ctlVars, libVars, lockVars, slotVars, regVars, runVars
<1>13. ASSUME NEW o \in Ops, Withdraw(o) PROVE Holds'
    <2>1. WithdrawDoes(o)
        BY <1>13, WithdrawEffect
    <2> QED
        BY <2>1, <1>0, NameFacts DEF WithdrawDoes, Holds, Inside, Within, Running, Roles,
            Known, EverListed
<1>14. ASSUME NEW o \in Ops, StartLoad(o) PROVE Holds'
    BY <1>14, <1>0, NameFacts
    DEF StartLoad, Goto, Same, Holds, Inside, Within, Running, Roles, Known, EverListed,
        ctlVars, libVars, lockVars, slotVars, regVars, runVars
<1>15. ASSUME NEW o \in Ops, LockCtl(o) PROVE Holds'
    BY <1>15, <1>0, NameFacts
    DEF LockCtl, Goto, Same, Holds, Inside, Within, Running, Roles, Known, EverListed,
        ctlVars, libVars, lockVars, slotVars, regVars, runVars
<1>16. ASSUME NEW o \in Ops, FindToUnload(o) PROVE Holds'
    <2>1. FindToUnloadDoes(o)
        BY <1>16, FindToUnloadEffect
    <2> QED
        BY <2>1, <1>0, NameFacts DEF FindToUnloadDoes, Holds, Inside, Within, Running, Roles,
            Known, EverListed
<1>17. ASSUME NEW o \in Ops, UnloadLibrary(o) PROVE Holds'
    <2>1. UnloadLibraryDoes(o)
        BY <1>17, UnloadLibraryEffect
    <2> QED
        BY <2>1, <1>0, NameFacts DEF UnloadLibraryDoes, Holds, Inside, Within, Running, Roles,
            Known, EverListed
<1>18. ASSUME NEW o \in Ops, Deregister(o) PROVE Holds'
    <2>1. DeregisterDoes(o)
        BY <1>18, DeregisterEffect
    <2> QED
        BY <2>1, <1>0, NameFacts DEF DeregisterDoes, Holds, Inside, Within, Running, Roles,
            Known, EverListed
<1>19. ASSUME NEW o \in Ops, OpenLibrary(o) PROVE Holds'
    <2>1. OpenLibraryDoes(o)
        BY <1>19, OpenLibraryEffect
    <2>2. o \notin EverListed /\ o \in Objects /\ o # Boot
        BY <2>1, NameFacts DEF OpenLibraryDoes, IInv, Listing
    <2>3. \A p \in Ops : pc[p] \in Within \/ ctx[p] = "inlib"
             => p # o /\ obj[p] # o /\ obj[p] \in Objects /\ obj'[p] = obj[p]
        BY <2>1, <2>2, <1>0 DEF OpenLibraryDoes, Known, EverListed, Running, Within
    <2> QED
        BY <2>1, <2>2, <2>3, <1>0 DEF OpenLibraryDoes, Holds, Inside, Within
<1>20. ASSUME NEW o \in Ops, TakeSlot(o) PROVE Holds'
    <2>1. TakeSlotDoes(o)
        BY <1>20, TakeSlotEffect
    <2> QED
        BY <2>1, <1>0, NameFacts DEF TakeSlotDoes, Holds, Inside, Within, Running, Roles,
            Known, EverListed
<1>21. ASSUME NEW o \in Ops, Setup(o) PROVE Holds'
    <2>1. SetupDoes(o)
        BY <1>21, SetupEffect
    <2> QED
        BY <2>1, <1>0, NameFacts DEF SetupDoes, Holds, Inside, Within, Running, Roles, Known,
            EverListed
<1>22. ASSUME NEW o \in Ops, FetchReloaded(o) PROVE Holds'
    <2>1. FetchReloadedDoes(o)
        BY <1>22, FetchReloadedEffect
    <2> QED
        BY <2>1, <1>0, NameFacts DEF FetchReloadedDoes, Holds, Inside, Within, Running, Roles,
            Known, EverListed
<1>23. ASSUME NEW o \in Ops, RegisterPlugin(o) PROVE Holds'
    BY <1>23, <1>0, NameFacts
    DEF RegisterPlugin, Goto, Same, Register, Holds, Inside, Within, Running, Roles, Known,
        EverListed,
        ctlVars, libVars, lockVars, slotVars, regVars, runVars
<1>24. CASE UNCHANGED vars
    BY <1>24, <1>0 DEF Holds, Inside, Within, Running, Roles, Known, EverListed, vars,
        ctlVars, libVars, lockVars, slotVars, regVars, runVars
<1> QED
    BY <1>1, <1>2, <1>3, <1>4, <1>5, <1>6, <1>7, <1>8, <1>9, <1>10, <1>11, <1>12, <1>13,
        <1>14, <1>15, <1>16, <1>17, <1>18, <1>19, <1>20, <1>21, <1>22, <1>23, <1>24
    DEF Next, RunStep, CtxStep, CtlStep

(* A listed plugin owns its slot. *)
LEMMA OwnersStep ==
    ASSUME IInv, [Next]_vars
    PROVE  Owners'
<1>0. /\ Owners
      /\ Roles
      /\ pc \in [Ops -> Places]
      /\ plugins \subseteq Objects
    BY DEF IInv, TypeOK
<1>1. ASSUME NEW o \in Ops, Lookup(o) PROVE Owners'
    BY <1>1, <1>0, NameFacts
    DEF Lookup, Goto, Same, Owners, OwnsSlot, Roles, Locked,
        ctlVars, libVars, lockVars, slotVars, regVars, runVars
<1>2. ASSUME NEW o \in Ops, Iterate(o) PROVE Owners'
    BY <1>2, <1>0, NameFacts
    DEF Iterate, Goto, Same, Owners, OwnsSlot, Roles, Locked,
        ctlVars, libVars, lockVars, slotVars, regVars, runVars
<1>3. ASSUME NEW o \in Ops, RunEnter(o) PROVE Owners'
    <2>1. RunEnterDoes(o)
        BY <1>3, RunEnterEffect
    <2> QED
        BY <2>1, <1>0, NameFacts DEF RunEnterDoes, Owners, OwnsSlot, Roles, Locked
<1>4. ASSUME NEW o \in Ops, CallbackFails(o) PROVE Owners'
    BY <1>4, <1>0, NameFacts
    DEF CallbackFails, Goto, Same, Owners, OwnsSlot, Roles, Locked,
        ctlVars, libVars, lockVars, slotVars, regVars, runVars
<1>5. ASSUME NEW o \in Ops, CallbackAllocs(o) PROVE Owners'
    BY <1>5, <1>0, NameFacts
    DEF CallbackAllocs, Goto, Same, Owners, OwnsSlot, Roles, Locked,
        ctlVars, libVars, lockVars, slotVars, regVars, runVars
<1>6. ASSUME NEW o \in Ops, LibReturns(o) PROVE Owners'
    BY <1>6, <1>0, NameFacts
    DEF LibReturns, Goto, Same, Owners, OwnsSlot, Roles, Locked,
        ctlVars, libVars, lockVars, slotVars, regVars, runVars
<1>7. ASSUME NEW o \in Ops, Free(o) PROVE Owners'
    BY <1>7, <1>0, NameFacts
    DEF Free, Goto, Same, Owners, OwnsSlot, Roles, Locked,
        ctlVars, libVars, lockVars, slotVars, regVars, runVars
<1>8. ASSUME NEW o \in Ops, RunLeave(o) PROVE Owners'
    BY <1>8, <1>0, NameFacts
    DEF RunLeave, Goto, Same, RUnlock, Owners, OwnsSlot, Roles, Locked,
        ctlVars, libVars, lockVars, slotVars, regVars, runVars
<1>9. ASSUME NEW o \in Ops, Cancel(o) PROVE Owners'
    BY <1>9, <1>0, NameFacts
    DEF Cancel, Goto, Same, Owners, OwnsSlot, Roles, Locked,
        ctlVars, libVars, lockVars, slotVars, regVars, runVars
<1>10. ASSUME NEW o \in Ops, CtxWake(o) PROVE Owners'
    BY <1>10, <1>0, NameFacts
    DEF CtxWake, Goto, Same, Owners, OwnsSlot, Roles, Locked,
        ctlVars, libVars, lockVars, slotVars, regVars, runVars
<1>11. ASSUME NEW o \in Ops, CtxEnter(o) PROVE Owners'
    <2>1. CtxEnterDoes(o)
        BY <1>11, CtxEnterEffect
    <2> QED
        BY <2>1, <1>0, NameFacts DEF CtxEnterDoes, Owners, OwnsSlot, Roles, Locked
<1>12. ASSUME NEW o \in Ops, CtxLeave(o) PROVE Owners'
    BY <1>12, <1>0, NameFacts
    DEF CtxLeave, Goto, Same, RUnlock, Owners, OwnsSlot, Roles, Locked,
        ctlVars, libVars, lockVars, slotVars, regVars, runVars
<1>13. ASSUME NEW o \in Ops, Withdraw(o) PROVE Owners'
    <2>1. WithdrawDoes(o)
        BY <1>13, WithdrawEffect
    <2> QED
        BY <2>1, <1>0, NameFacts DEF WithdrawDoes, Owners, OwnsSlot, Roles, Locked
<1>14. ASSUME NEW o \in Ops, StartLoad(o) PROVE Owners'
    BY <1>14, <1>0, NameFacts
    DEF StartLoad, Goto, Same, Owners, OwnsSlot, Roles, Locked,
        ctlVars, libVars, lockVars, slotVars, regVars, runVars
<1>15. ASSUME NEW o \in Ops, LockCtl(o) PROVE Owners'
    BY <1>15, <1>0, NameFacts
    DEF LockCtl, Goto, Same, Owners, OwnsSlot, Roles, Locked,
        ctlVars, libVars, lockVars, slotVars, regVars, runVars
<1>16. ASSUME NEW o \in Ops, FindToUnload(o) PROVE Owners'
    <2>1. FindToUnloadDoes(o)
        BY <1>16, FindToUnloadEffect
    <2> QED
        BY <2>1, <1>0, NameFacts DEF FindToUnloadDoes, Owners, OwnsSlot, Roles, Locked
<1>17. ASSUME NEW o \in Ops, UnloadLibrary(o) PROVE Owners'
    <2>1. UnloadLibraryDoes(o)
        BY <1>17, UnloadLibraryEffect
    <2> QED
        BY <2>1, <1>0, NameFacts DEF UnloadLibraryDoes, Owners, OwnsSlot, Roles, Locked
<1>18. ASSUME NEW o \in Ops, Deregister(o) PROVE Owners'
    <2>1. DeregisterDoes(o)
        BY <1>18, DeregisterEffect
    <2> QED
        BY <2>1, <1>0, NameFacts DEF DeregisterDoes, Owners, OwnsSlot, Roles, Locked
<1>19. ASSUME NEW o \in Ops, OpenLibrary(o) PROVE Owners'
    <2>1. OpenLibraryDoes(o)
        BY <1>19, OpenLibraryEffect
    <2> QED
        BY <2>1, <1>0, NameFacts DEF OpenLibraryDoes, Owners, OwnsSlot, Roles, Locked
<1>20. ASSUME NEW o \in Ops, TakeSlot(o) PROVE Owners'
    <2>1. TakeSlotDoes(o)
        BY <1>20, TakeSlotEffect
    <2> QED
        BY <2>1, <1>0, NameFacts DEF TakeSlotDoes, Owners, OwnsSlot, Roles, Locked
<1>21. ASSUME NEW o \in Ops, Setup(o) PROVE Owners'
    <2>1. SetupDoes(o)
        BY <1>21, SetupEffect
    <2> QED
        BY <2>1, <1>0, NameFacts DEF SetupDoes, Owners, OwnsSlot, Roles, Locked
<1>22. ASSUME NEW o \in Ops, FetchReloaded(o) PROVE Owners'
    <2>1. FetchReloadedDoes(o)
        BY <1>22, FetchReloadedEffect
    <2> QED
        BY <2>1, <1>0, NameFacts DEF FetchReloadedDoes, Owners, OwnsSlot, Roles, Locked
<1>23. ASSUME NEW o \in Ops, RegisterPlugin(o) PROVE Owners'
    BY <1>23, <1>0, NameFacts
    DEF RegisterPlugin, Goto, Same, Register, Owners, OwnsSlot, Roles, Locked,
        ctlVars, libVars, lockVars, slotVars, regVars, runVars
<1>24. CASE UNCHANGED vars
    BY <1>24, <1>0 DEF Owners, OwnsSlot, Roles, Locked, vars, ctlVars, libVars, lockVars,
        slotVars, regVars, runVars
<1> QED
    BY <1>1, <1>2, <1>3, <1>4, <1>5, <1>6, <1>7, <1>8, <1>9, <1>10, <1>11, <1>12, <1>13,
        <1>14, <1>15, <1>16, <1>17, <1>18, <1>19, <1>20, <1>21, <1>22, <1>23, <1>24
    DEF Next, RunStep, CtxStep, CtlStep

(* The invariant holds at first: only the plugin that the daemon loads     *)
(* when it starts is there.                                                *)
LEMMA InitIInv == Init => IInv
<1> SUFFICES ASSUME Init PROVE IInv
    OBVIOUS
<1>1. TypeOK
    <2>1. slots \in Seq(Objects \cup {None}) /\ names \in Seq(Names)
        BY PluginsAssumption DEF Init, Objects
    <2> QED
        BY <2>1, PluginsAssumption DEF Init, TypeOK, Places, Kinds, Objects, Ops
<1>2. Roles /\ Holds
    BY NameFacts DEF Init, Roles, Holds, Locked, Running, Within
<1>3. Known /\ Listing
    BY NameFacts DEF Init, Known, Listing, EverListed, Running, Within
<1>4. Stages
    BY NameFacts DEF Init, Stages
<1>5. Owners
    BY NameFacts DEF Init, Owners, OwnsSlot
<1> QED
    BY <1>1, <1>2, <1>3, <1>4, <1>5 DEF IInv

(* Every step keeps the invariant.                                         *)
LEMMA NextIInv == IInv /\ [Next]_vars => IInv'
    BY TypeStep, RolesStep, KnownStep, ListingStep, StagesStep, HoldsStep, OwnersStep DEF IInv

(* The inductive invariant of Plugins.                                     *)
THEOREM Invariant == Spec => []IInv
    BY InitIInv, NextIInv, PTL DEF Spec
-----------------------------------------------------------------------------
(* The types, for any commands and plugins.                                *)
THEOREM TypeCorrect == Spec => []TypeOK
<1>1. IInv => TypeOK
    BY DEF IInv
<1> QED
    BY <1>1, Invariant, PTL

(* No thread is in the code of a library that was released: a thread       *)
(* inside holds the lock of a library that can be unloaded, so the library *)
(* is not marked, and what was listed and is not marked is open.           *)
THEOREM ReleasedIsLeft == Spec => []NoCallAfterRelease
<1>1. IInv => NoCallAfterRelease
    <2> SUFFICES ASSUME IInv, NEW o \in Ops, InLibrary(o)
                 PROVE  lib[obj[o]] = "open"
        BY DEF NoCallAfterRelease
    <2>1. ~unloaded[obj[o]]
        BY DEF InLibrary, IInv, Holds, Inside, Within
    <2>2. obj[o] \in EverListed
        BY DEF InLibrary, IInv, Known, Running, Within
    <2> QED
        BY <2>1, <2>2 DEF IInv, Listing, EverListed
<1> QED
    BY <1>1, Invariant, PTL

(* A library that runs calls back through a slot of its own: it is listed, *)
(* since it is not marked, and a listed plugin owns its slot.              *)
THEOREM SlotIsOwn == Spec => []CallbackOwner
<1>1. IInv => CallbackOwner
    <2> SUFFICES ASSUME IInv, NEW o \in Ops, pc[o] \in {"inlib", "alloc"}
                 PROVE  slotOf[obj[o]] \in DOMAIN slots /\ slots[slotOf[obj[o]]] = obj[o]
        BY DEF CallbackOwner
    <2>1. ~unloaded[obj[o]]
        BY DEF IInv, Holds, Inside, Within
    <2>2. obj[o] \in EverListed
        BY DEF IInv, Known, Running, Within
    <2> QED
        BY <2>1, <2>2 DEF IInv, Owners, OwnsSlot, EverListed
<1> QED
    BY <1>1, Invariant, PTL

(* While nobody has the controller's lock what is listed is open or half   *)
(* unloaded, each under a name and with a slot of its own: what is open    *)
(* and not listed, or released and listed, is at a stage that only the     *)
(* lock's holder reaches.                                                  *)
THEOREM ListIsTrue == Spec => []ListIsAccountedFor
<1>1. IInv => ListIsAccountedFor
    <2> SUFFICES ASSUME IInv
                 PROVE  ListIsAccountedFor
        OBVIOUS
    <2>1. \A i, j \in plugins : nameOf[i] = nameOf[j] => i = j
        BY DEF IInv, Listing
    <2>2. ASSUME ctlLock = None
          PROVE  plugins = {i \in Objects : lib[i] = "open" \/ HalfUnloaded(i)}
        <3>1. \A o \in Ops : pc[o] \notin Locked
            BY <2>2, NameFacts DEF IInv, Roles
        <3>2. \A i \in plugins : unloaded[i] => lib[i] = "stuck"
            BY <3>1 DEF IInv, Stages, Locked
        <3>3. \A i \in plugins : i \in Objects /\ (lib[i] = "open" \/ HalfUnloaded(i))
            BY <3>2 DEF IInv, TypeOK, Listing, HalfUnloaded
        <3>4. \A i \in Objects : lib[i] = "open" => i \in plugins
            BY <3>1, NameFacts DEF IInv, Stages, Locked
        <3>5. \A i \in Objects : HalfUnloaded(i) => i \in plugins
            BY DEF IInv, Stages, HalfUnloaded
        <3> QED
            BY <3>3, <3>4, <3>5
    <2>3. \A i \in plugins : slotOf[i] \in DOMAIN slots /\ slots[slotOf[i]] = i
        BY DEF IInv, Owners, OwnsSlot
    <2> QED
        BY <2>1, <2>2, <2>3 DEF ListIsAccountedFor
<1> QED
    BY <1>1, Invariant, PTL
=============================================================================
