------------------------------ MODULE DataTypes ------------------------------
(***************************************************************************)
(* The commands readm, writem and scan: how a value becomes bytes in the   *)
(* memory of the process and bytes become a value again. Every user types  *)
(* command lines, which CommandLine parses; a command looks its address up *)
(* and then makes one access for every instance it reads or writes, or for *)
(* every byte of a C string. The lock of the process is shared by all of   *)
(* them: in between other users write, also over the pointers the address  *)
(* went through. The kernel copies an access in one go, and a pointer is   *)
(* followed in one step. The regions of the process stay as they are.      *)
(*                                                                         *)
(* A value is a sequence of numbers: <<n>> for a number, bytes for a       *)
(* string, 16-bit units for a wide one. The process keeps its regions.     *)
(***************************************************************************)
EXTENDS Regions, CommandLine

CONSTANTS
    Users,
    Lines,        \* the command lines users type
    Commands,     \* the declarations of readm and writem, by name
    Styles,       \* the output parameters that hexdumpStyle accepts
    ByteLimit,    \* 256 in the code
    Width,        \* the bytes of a number, by family
    TypeOf,       \* datatype name -> [family, order]
    Space,        \* the byte of a space
    NumberOf,     \* text -> number, for the texts in Numbers
    BytesOf,      \* text -> the bytes of a text
    PointerOf,    \* text -> pointer, for the texts that are addresses
    Maps,         \* the lines of /proc/<pid>/maps
    ExeBase,      \* where the executable begins
    InitialMem,   \* the memory, a function of the addresses of the regions
    MaxCalls      \* bound on the commands typed

ASSUME ByteAssumption == ByteLimit \in Nat \ {0, 1}
ASSUME TypeAssumption ==
    /\ \A f \in DOMAIN Width : Width[f] \in Nat \ {0}
    /\ DOMAIN Width \cap {"utf16", "cstring"} = {}
    /\ "uint16be" \in DOMAIN TypeOf => TypeOf["uint16be"].order = "be"
ASSUME TextAssumption ==
    /\ \A text \in Numbers : NumberOf[text] \in Nat
    /\ \A text \in DOMAIN BytesOf : BytesOf[text] \in Seq(0 .. ByteLimit - 1)
    /\ \A text \in DOMAIN PointerOf :
          PointerOf[text].addrs \in Seq(Addrs) /\ Len(PointerOf[text].addrs) > 0
ASSUME ProcessAssumption == Len(Maps) \in Nat /\ MemoryMap(Maps) /\ ExeBase \in Nat

VARIABLES
    mem,      \* address -> byte
    origin,   \* address -> who wrote it: the value, and which of its bytes
    job,      \* the command a user runs: what, and its parameters
    next,     \* where its next access goes; 0 before the lookup
    left,     \* the instances it has left
    got,      \* the bytes of a C string so far, with their origins
    shown,    \* what the user was shown: a sequence of instances
    wrote,    \* what the user's write wrote: a sequence of <<address, length>>
    calls

vars == <<mem, origin, job, next, left, got, shown, wrote, calls>>

Table == Vmmap(Maps)
Mapped(a) == HasAddr(Table, a) # 0 /\ Table.regions[HasAddr(Table, a)].readable
ASSUME MemoryAssumption ==
    /\ \A a \in Addrs : Mapped(a) => a \in DOMAIN InitialMem
    /\ InitialMem \in [DOMAIN InitialMem -> 0 .. ByteLimit - 1]
NoOrigin == [type |-> "none", value |-> <<>>, at |-> 0, of |-> 0]
NoJob == [what |-> "idle"]
-----------------------------------------------------------------------------
(* Values and bytes. *)

Numeric == DOMAIN Width

(* A number shifted by so many bytes, its bytes and whether they are all.  *)
Shifted(n, w) ==
    LET shift[i \in 0 .. w] == IF i = 0 THEN n ELSE shift[i - 1] \div ByteLimit
    IN shift
Fits(n, w) == Shifted(n, w)[w] = 0
Digits(n, w) == [i \in 1 .. w |-> Shifted(n, w)[w - i] % ByteLimit]
NumbersOf(s) ==
    LET number[i \in 0 .. Len(s)] == IF i = 0 THEN 0 ELSE number[i - 1] * ByteLimit + s[i]
    IN number
FromDigits(s) == NumbersOf(s)[Len(s)]
InOrder(s, big) == IF big THEN s ELSE Reverse(s)

(* Numbers of w bytes, one after the other, and what such bytes mean.      *)
Units(s, w, big) ==
    [k \in 1 .. w * Len(s) |-> InOrder(Digits(s[((k - 1) \div w) + 1], w), big)[((k - 1) % w) + 1]]
FromUnits(b, w, big) ==
    [i \in 1 .. Len(b) \div w |-> FromDigits(InOrder([j \in 1 .. w |-> b[w * (i - 1) + j]], big))]

(* writem's choice of byte order; the mutant has it the wrong way round.   *)
WriteBigSwapped(d) == TypeOf[d].order # "be"
WriteBig(d) == TypeOf[d].order = "be"

(* readm's: every number but a 16-bit one compares its type with uint16be. *)
ReadBig(d) == IF TypeOf[d].family \in Numeric THEN d = "uint16be" ELSE TypeOf[d].order = "be"

(* binary.Write of a value. The order means nothing to single bytes.       *)
Encode(d, v) ==
    LET f == TypeOf[d].family
    IN CASE f \in Numeric -> Units(v, Width[f], WriteBig(d))
         [] f = "utf16" -> Units(v, 2, WriteBig(d))
         [] f = "cstring" -> Append(v, 0)
         [] OTHER -> v

(* binary.Read of an instance, of so many bytes. *)
Decode(d, b) ==
    LET f == TypeOf[d].family
    IN CASE f \in Numeric -> FromUnits(b, Width[f], ReadBig(d))
         [] f = "utf16" -> FromUnits(b, 2, ReadBig(d))
         [] OTHER -> b

(***************************************************************************)
(* The pattern that scan makes of its words: the numbers one after the     *)
(* other, or the words with spaces between them. Three types it does not   *)
(* know yet; its own "pattern" and the search are the subject of Scan. The *)
(* mutant knows no big endian.                                             *)
(***************************************************************************)
Unsearchable == {"stringbe", "utf8be", "cstringbe"}
SearchBigNever(d) == FALSE
SearchBig(d) == TypeOf[d].order = "be"
Spaced(words) ==
    LET text[k \in 1 .. Len(words)] == IF k = 1 THEN words[1] ELSE text[k - 1] \o <<Space>> \o words[k]
    IN text[Len(words)]
Pattern(d, words) ==
    LET f == TypeOf[d].family
    IN CASE f \in Numeric -> Units([i \in DOMAIN words |-> words[i][1]], Width[f], SearchBig(d))
         [] f = "utf16" -> Units(Spaced(words), 2, SearchBig(d))
         [] f = "cstring" -> Append(Spaced(words), 0)
         [] OTHER -> Spaced(words)

(* A text as a value of a type: doUint16 and its like refuse a number that *)
(* does not fit, decodeDataStr what its format cannot decode.              *)
Parses(d, format, text) ==
    LET f == TypeOf[d].family
    IN /\ format = "raw"
       /\ IF f \in Numeric THEN text \in Numbers /\ Fits(NumberOf[text], Width[f]) ELSE text \in DOMAIN BytesOf
Value(d, text) == IF TypeOf[d].family \in Numeric THEN <<NumberOf[text]>> ELSE BytesOf[text]

(* The bytes of one access of a read. *)
ReadSize(d, size) ==
    LET f == TypeOf[d].family
    IN CASE f \in Numeric -> Width[f] [] f = "utf16" -> 2 * size [] f = "cstring" -> 1 [] OTHER -> size
-----------------------------------------------------------------------------
(* The memory and addresses. *)

ReadPtr == [a \in Addrs |-> IF Mapped(a) THEN mem[a] ELSE Failed]
Resolve(text) == IF text \in DOMAIN PointerOf THEN ResolvePointer(Table, ExeBase, PointerOf[text], ReadPtr) ELSE Failed
Accessible(a, n) == \A i \in 0 .. n - 1 : Mapped(a + i)

(* processReader and processWriter look their address up once and go on    *)
(* behind the access. The mutant looks it up each time.                    *)
BehindNothing(a, n) == 0
Behind(a, n) == (a + n) % AddrLimit
-----------------------------------------------------------------------------
Init ==
    /\ mem = InitialMem
    /\ origin = [a \in DOMAIN InitialMem |-> NoOrigin]
    /\ job = [u \in Users |-> NoJob]
    /\ next = [u \in Users |-> 0] /\ left = [u \in Users |-> 0]
    /\ got = [u \in Users |-> <<>>]
    /\ shown = [u \in Users |-> <<>>] /\ wrote = [u \in Users |-> <<>>]
    /\ calls = 0

Arg(p, name) == p.values[name][1]

(* The command a parsed line runs, or NoJob if it fails before it accesses *)
(* anything. A string needs a size.                                        *)
ReadJob(p) ==
    LET d == Arg(p, "datatype")
        size == NumberOf[Arg(p, "size")]
    IN IF d \notin DOMAIN TypeOf \/ (size = 0 /\ TypeOf[d].family \notin Numeric \cup {"cstring"}) THEN NoJob
       ELSE [what |-> "read", type |-> d, size |-> size, times |-> NumberOf[Arg(p, "times")], addr |-> Arg(p, "addr"),
             format |-> Arg(p, "output-format"), params |-> Arg(p, "params")]
WriteJob(p) ==
    LET d == Arg(p, "datatype")
    IN IF d \notin DOMAIN TypeOf \/ ~Parses(d, Arg(p, "input-format"), Arg(p, "value")) THEN NoJob
       ELSE [what |-> "write", type |-> d, value |-> Value(d, Arg(p, "value")),
             times |-> NumberOf[Arg(p, "times")], addr |-> Arg(p, "addr")]
JobOf(p) ==
    IF p.outcome # "run" THEN NoJob
    ELSE IF p.commands = <<"readm">> THEN ReadJob(p) ELSE WriteJob(p)
Jobs == {JobOf(Run(Commands[line.command], line.args)) : line \in Lines}

(* The flags of how often and how much are declared unsigned.              *)
ASSUME CountAssumption ==
    \A j \in Jobs \ {NoJob} : j.times \in Nat /\ (j.what = "read" => j.size \in Nat)

Start(u) ==
    /\ job[u] = NoJob /\ calls < MaxCalls
    /\ calls' = calls + 1
    /\ \E j \in Jobs :
          /\ job' = [job EXCEPT ![u] = j]
          /\ left' = [left EXCEPT ![u] = IF j = NoJob THEN 0 ELSE j.times]
    /\ next' = [next EXCEPT ![u] = 0]
    /\ got' = [got EXCEPT ![u] = <<>>]
    /\ shown' = [shown EXCEPT ![u] = <<>>] /\ wrote' = [wrote EXCEPT ![u] = <<>>]
    /\ UNCHANGED <<mem, origin>>

Finish(u) == job' = [job EXCEPT ![u] = NoJob]

(* The last instance is done, or an access fails: the output of a read     *)
(* that fails is not shown. *)
Done(u) ==
    /\ job[u].what \in {"read", "write"} /\ left[u] = 0
    /\ Finish(u)
    /\ UNCHANGED <<mem, origin, next, left, got, shown, wrote, calls>>

(* The lookup of the address the command was given. *)
Locate(u) ==
    LET a == Resolve(job[u].addr)
    IN /\ left[u] > 0 /\ next[u] = 0
       /\ a \notin {Failed, 0}
       /\ next' = [next EXCEPT ![u] = a]
       /\ UNCHANGED <<mem, origin, job, left, got, shown, wrote, calls>>

Size(j) == IF j.what = "read" THEN ReadSize(j.type, j.size) ELSE Len(Encode(j.type, j.value))
Fails(u) ==
    /\ left[u] > 0
    /\ IF next[u] = 0 THEN Resolve(job[u].addr) \in {Failed, 0} ELSE ~Accessible(next[u], Size(job[u]))
    /\ Finish(u)
    /\ shown' = [shown EXCEPT ![u] = <<>>]
    /\ left' = [left EXCEPT ![u] = 0]
    /\ UNCHANGED <<mem, origin, next, got, wrote, calls>>

(* One access of a read, of n bytes; `next` goes on behind them. A format  *)
(* that the type does not have ends the command after its first access.    *)
Prints(j) ==
    LET format == IF j.format = "" /\ TypeOf[j.type].family \notin Numeric THEN "hexdump" ELSE j.format
    IN format \in {"", "raw", "binary", "hex"} \/ (format = "hexdump" /\ j.params \in Styles)
Cells(a, n) == [i \in 1 .. n |-> [byte |-> mem[a + i - 1], origin |-> origin[a + i - 1]]]
Shows(u, cells, at, length) ==
    /\ shown' = [shown EXCEPT ![u] =
           IF ~Prints(job[u]) THEN <<>>
           ELSE Append(@, [type |-> job[u].type, at |-> at, length |-> length,
                           value |-> Decode(job[u].type, [i \in DOMAIN cells |-> cells[i].byte]),
                           origins |-> [i \in DOMAIN cells |-> cells[i].origin]])]
    /\ left' = [left EXCEPT ![u] = IF Prints(job[u]) THEN @ - 1 ELSE 0]
    /\ got' = [got EXCEPT ![u] = <<>>]

Read(u) ==
    LET n == ReadSize(job[u].type, job[u].size)
        a == next[u]
    IN /\ job[u].what = "read" /\ TypeOf[job[u].type].family # "cstring" /\ left[u] > 0
       /\ a > 0 /\ Accessible(a, n)
       /\ Shows(u, Cells(a, n), a, n)
       /\ next' = [next EXCEPT ![u] = Behind(a, n)]
       /\ UNCHANGED <<mem, origin, job, wrote, calls>>

(* readOneCstring, one byte: a zero ends the string and is consumed, and   *)
(* so does the size, which consumes no zero.                               *)
EndsBySize(size, cells) == size > 0 /\ Len(cells) = size
ReadOneCstring(u) ==
    LET a == next[u]
        cell == Cells(a, 1)
        start(length) == a + 1 - length
    IN /\ job[u].what = "read" /\ TypeOf[job[u].type].family = "cstring" /\ left[u] > 0
       /\ a > 0 /\ Accessible(a, 1)
       /\ IF cell[1].byte = 0
          THEN Shows(u, got[u], start(Len(got[u]) + 1), Len(got[u]) + 1)
          ELSE IF EndsBySize(job[u].size, got[u] \o cell)
          THEN Shows(u, got[u] \o cell, start(Len(got[u]) + 1), Len(got[u]) + 1)
          ELSE got' = [got EXCEPT ![u] = @ \o cell] /\ UNCHANGED <<shown, left>>
       /\ next' = [next EXCEPT ![u] = Behind(a, 1)]
       /\ UNCHANGED <<mem, origin, job, wrote, calls>>

(* doWrite, one instance. *)
Write(u) ==
    LET b == Encode(job[u].type, job[u].value)
        a == next[u]
        written == a .. a + Len(b) - 1
    IN /\ job[u].what = "write" /\ left[u] > 0
       /\ a > 0 /\ Accessible(a, Len(b))
       /\ mem' = [x \in DOMAIN mem |-> IF x \in written THEN b[x - a + 1] ELSE mem[x]]
       /\ origin' = [x \in DOMAIN mem |-> IF x \in written
                        THEN [type |-> job[u].type, value |-> job[u].value, at |-> x - a + 1, of |-> Len(b)]
                        ELSE origin[x]]
       /\ wrote' = [wrote EXCEPT ![u] = Append(@, <<a, Len(b)>>)]
       /\ left' = [left EXCEPT ![u] = @ - 1]
       /\ next' = [next EXCEPT ![u] = Behind(a, Len(b))]
       /\ UNCHANGED <<job, got, shown, calls>>

-----------------------------------------------------------------------------
Next == \E u \in Users : Start(u) \/ Done(u) \/ Locate(u) \/ Fails(u) \/ Read(u) \/ ReadOneCstring(u) \/ Write(u)

Spec == Init /\ [][Next]_vars
-----------------------------------------------------------------------------
(* The instances a user was shown whose bytes are, in order, all those of  *)
(* values of that very type that somebody wrote.                           *)
Whole(e) ==
    LET n == Len(e.origins)
        first == e.origins[1]
    IN /\ n > 0
       /\ \A i \in 1 .. n : /\ e.origins[i].type # "none" /\ TypeOf[e.origins[i].type] = TypeOf[e.type]
                             /\ e.origins[i].value = first.value /\ e.origins[i].at = i
       /\ n = IF TypeOf[e.type].family = "cstring" THEN first.of - 1 ELSE first.of
Misread == {d \in DOMAIN TypeOf : WriteBig(d) /\ TypeOf[d].family \in Numeric /\ d # "uint16be"}

(***************************************************************************)
(* RoundTrip: what one user wrote as a type, another who reads it as that  *)
(* type gets back, whichever instance of which command wrote each byte.    *)
(* The types that readm reads in the wrong order are left out.             *)
(***************************************************************************)
RoundTrip ==
    \A u \in Users : \A i \in DOMAIN shown[u] :
        LET e == shown[u][i] IN Whole(e) /\ e.type \notin Misread => e.value = e.origins[1].value

(***************************************************************************)
(* OrderHonoured: RoundTrip for every type, as the help of memshonk has    *)
(* it: "A 32-bit unsigned integer in big endian byte order".               *)
(***************************************************************************)
OrderHonoured ==
    \A u \in Users : \A i \in DOMAIN shown[u] :
        LET e == shown[u][i] IN Whole(e) => e.value = e.origins[1].value

(***************************************************************************)
(* InstancesAdjoin: the instances of one readm or writem lie behind one    *)
(* another in memory, also when somebody, or the command itself, writes    *)
(* over the pointers its address went through.                             *)
(***************************************************************************)
InstancesAdjoin ==
    \A u \in Users :
        /\ \A i \in 1 .. Len(shown[u]) - 1 : shown[u][i + 1].at = shown[u][i].at + shown[u][i].length
        /\ \A i \in 1 .. Len(wrote[u]) - 1 : wrote[u][i + 1][1] = wrote[u][i][1] + wrote[u][i][2]

(***************************************************************************)
(* PatternIsWritten: scan of a type and a value searches for exactly the   *)
(* bytes that writem left in memory for them.                              *)
(***************************************************************************)
PatternIsWritten ==
    \A a \in DOMAIN mem :
        LET o == origin[a]
            intact == \A i \in 1 .. o.of : a + i - 1 \in DOMAIN mem /\ origin[a + i - 1] = [o EXCEPT !.at = i]
        IN o.at = 1 /\ intact /\ o.type \notin Unsearchable
              => [i \in 1 .. o.of |-> mem[a + i - 1]] = Pattern(o.type, <<o.value>>)
=============================================================================
