------------------------------- MODULE Regions -------------------------------
(***************************************************************************)
(* The table of memory regions of a process (memory.Regions), as it is     *)
(* built from /proc/<pid>/maps, the objects that own them, and the         *)
(* resolution of a pointer through the memory of the process.              *)
(*                                                                         *)
(* Names are compared without regard to case in the code; here a name is   *)
(* its lower-case form. A region of no file has the object NoObject.       *)
(***************************************************************************)
EXTENDS Integers, Sequences, FiniteSets

CONSTANTS
    AddrLimit,   \* addresses wrap around here (2^64 in the code)
    NoObject     \* the inode 0 of a line, and the name that is not there

ASSUME AddrAssumption == AddrLimit \in Nat \ {0}

Addrs == 0 .. AddrLimit - 1

(* One line of the file: no more than name, range, permission and inode.   *)
LineToRegion(line) ==
    [base |-> line.base, end |-> line.end, readable |-> line.readable,
     id |-> line.inode, name |-> IF line.inode = NoObject THEN NoObject ELSE line.name]

EmptyRegions == [regions |-> <<>>, objects |-> <<>>]

objectIndex(t, id) == {k \in DOMAIN t.objects : t.objects[k].id = id}

Lesser(a, b) == IF b < a THEN b ELSE a
Greater(a, b) == IF b > a THEN b ELSE a

Widen(obj, r) == [obj EXCEPT !.base = Lesser(@, r.base), !.end = Greater(@, r.end)]

(* Regions.Add: the region's object grows by it, or starts with it.        *)
Add(t, r) ==
    LET new == [id |-> r.id, base |-> r.base, end |-> r.end, name |-> r.name]
    IN [regions |-> Append(t.regions, r),
        objects |-> IF r.id = NoObject THEN t.objects
                    ELSE IF objectIndex(t, r.id) = {} THEN Append(t.objects, new)
                    ELSE [k \in DOMAIN t.objects |->
                             IF k \in objectIndex(t, r.id) THEN Widen(t.objects[k], r) ELSE t.objects[k]]]

(* The table after each line; what the kernel writes is in order.          *)
Tables(lines) ==
    LET table[n \in 0 .. Len(lines)] ==
            IF n = 0 THEN EmptyRegions ELSE Add(table[n - 1], LineToRegion(lines[n]))
    IN table
Vmmap(lines) == Tables(lines)[Len(lines)]

MemoryMap(lines) ==
    /\ \A i \in 1 .. Len(lines) : lines[i].base \in Addrs /\ lines[i].end \in Addrs /\ lines[i].base < lines[i].end
    /\ \A i, j \in 1 .. Len(lines) : i < j => lines[i].end <= lines[j].base

(* sort.Search of HasAddr: bisection for the first region that ends above  *)
(* the address. The mutant looks for the first that does not begin below.  *)
EndsAboveStart(t, addr, i) == addr <= t.regions[i].base
EndsAbove(t, addr, i) == addr < t.regions[i].end
Bisect(t, addr, range) ==
    LET mid == (range[1] + range[2]) \div 2
    IN IF range[1] >= range[2] THEN range
       ELSE IF EndsAbove(t, addr, mid) THEN <<range[1], mid>> ELSE <<mid + 1, range[2]>>
Bisections(t, addr) ==
    LET range[k \in 0 .. Len(t.regions)] ==
            IF k = 0 THEN <<1, Len(t.regions) + 1>> ELSE Bisect(t, addr, range[k - 1])
    IN range
FirstAbove(t, addr) == Bisections(t, addr)[Len(t.regions)][1]

(* Regions.HasAddr: the region that holds the address, or 0. *)
HasAddr(t, addr) ==
    LET i == FirstAbove(t, addr)
    IN IF i <= Len(t.regions) /\ addr >= t.regions[i].base /\ addr < t.regions[i].end THEN i ELSE 0

(* Regions.FirstObjectMatching: the first object of that name, or 0. *)
FirstObjectMatching(t, name) ==
    LET m == {k \in DOMAIN t.objects : t.objects[k].name = name}
    IN IF m = {} THEN 0 ELSE CHOOSE k \in m : \A l \in m : k <= l
-----------------------------------------------------------------------------
(* Pointers: [mod, addrs], as CreatePointerFromString makes them. One      *)
(* number is an absolute address, whatever stands before it.               *)

AbsoluteAddrPointer(a) == [mod |-> NoObject, addrs |-> <<a>>]
IsChain(ptr) == Len(ptr.addrs) > 1

Failed == -1

(* resolvePointerChain: every offset but the last is added and followed;   *)
(* read[a] is the pointer at a, or Failed.                                 *)
Offset(a, n) == (a + n) % AddrLimit
Followed(base, offsets, read) ==
    LET follow[k \in 0 .. Len(offsets) - 1] ==
            IF k = 0 THEN base
            ELSE IF follow[k - 1] = Failed THEN Failed ELSE read[Offset(follow[k - 1], offsets[k])]
    IN follow
ResolvePointerChain(base, offsets, read) ==
    LET n == Len(offsets)
        last == Followed(base, offsets, read)[n - 1]
    IN IF last = Failed THEN Failed ELSE Offset(last, offsets[n])

(* Ctl.resolvePointer, with the base of the executable. *)
ResolvePointer(t, exeBase, ptr, read) ==
    LET k == FirstObjectMatching(t, ptr.mod)
    IN IF ~IsChain(ptr) THEN ptr.addrs[1]
       ELSE IF ptr.mod = NoObject THEN ResolvePointerChain(exeBase, ptr.addrs, read)
       ELSE IF k = 0 THEN Failed
       ELSE ResolvePointerChain(t.objects[k].base, ptr.addrs, read)
-----------------------------------------------------------------------------
(***************************************************************************)
(* LookupFinds: in the table of any memory map, an address is found where  *)
(* it is mapped and only there, and a file's object spans all its regions, *)
(* from the lowest to the highest.                                         *)
(***************************************************************************)
LookupFinds(lines) ==
    LET t == Vmmap(lines)
        holds(i, a) == t.regions[i].base <= a /\ a < t.regions[i].end
        owned(id) == {i \in DOMAIN t.regions : t.regions[i].id = id}
    IN /\ \A a \in Addrs : LET i == HasAddr(t, a) IN
              IF i = 0 THEN \A j \in DOMAIN t.regions : ~holds(j, a) ELSE holds(i, a)
       /\ \A i \in DOMAIN t.regions : t.regions[i].id # NoObject => Cardinality(objectIndex(t, t.regions[i].id)) = 1
       /\ \A k \in DOMAIN t.objects : LET o == t.objects[k] IN
              /\ \A i \in owned(o.id) : o.base <= t.regions[i].base /\ t.regions[i].end <= o.end
              /\ \E i, j \in owned(o.id) : o.base = t.regions[i].base /\ o.end = t.regions[j].end
=============================================================================
