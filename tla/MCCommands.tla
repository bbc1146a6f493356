----------------------------- MODULE MCCommands -----------------------------
(***************************************************************************)
(* Instance of DataTypes: two users, a process of an executable at 2, a    *)
(* heap of cells that point at each other, and a library of two regions.   *)
(* A byte has four values, so that a number of four bytes stays small.     *)
(***************************************************************************)
EXTENDS DataTypes, CommandTrees

MCWidth == [uint16 |-> 2, uint32 |-> 3, uint64 |-> 4, float32 |-> 3, float64 |-> 4]

Named(names, family, order) == [n \in names |-> [family |-> family, order |-> order]]
MCTypeOf ==
    Named({"raw", "string", "stringle", "utf8", "utf8le"}, "string", "le") @@ Named({"stringbe", "utf8be"}, "string", "be")
    @@ Named({"cstring", "cstringle"}, "cstring", "le") @@ Named({"cstringbe"}, "cstring", "be")
    @@ Named({"utf16", "utf16le", "wstring", "wstringle"}, "utf16", "le") @@ Named({"utf16be", "wstringbe"}, "utf16", "be")
    @@ Named({"uint16", "uint16le"}, "uint16", "le") @@ Named({"uint16be"}, "uint16", "be")
    @@ Named({"uint32", "uint32le"}, "uint32", "le") @@ Named({"uint32be"}, "uint32", "be")
    @@ Named({"uint64", "uint64le"}, "uint64", "le") @@ Named({"uint64be"}, "uint64", "be")
    @@ Named({"float32", "float32le"}, "float32", "le") @@ Named({"float32be"}, "float32", "be")
    @@ Named({"float64", "float64le"}, "float64", "le") @@ Named({"float64be"}, "float64", "be")

MCNumberOf == ("0" :> 0) @@ ("1" :> 1) @@ ("2" :> 2) @@ ("3" :> 3) @@ ("6" :> 6) @@ ("16" :> 16) @@ ("27" :> 27)
MCBytesOf == ("x" :> <<1>>) @@ ("xy" :> <<1, 2>>) @@ ("" :> <<>>)

(* The heap's cell 4 points at itself through the executable, cell 6 at    *)
(* the heap, and the library's first cell at a hole. *)
Cell(base, end, inode, name, readable) == [base |-> base, end |-> end, inode |-> inode, name |-> name, readable |-> readable]
MCMaps == <<Cell(2, 4, "i1", "exe", TRUE), Cell(4, 12, "0", "", TRUE),
            Cell(13, 14, "i2", "lib", TRUE), Cell(14, 15, "i2", "lib", FALSE)>>
MCInitialMem == [a \in 2 .. 14 |-> CASE a = 2 -> 3 [] a = 4 -> 3 [] a = 13 -> 3 [] OTHER -> 0]

MCPointerOf ==
    ("heap" :> AbsoluteAddrPointer(8)) @@ ("chain" :> [mod |-> "0", addrs |-> <<0, 5>>])
    @@ ("self" :> [mod |-> "0", addrs |-> <<2, 1>>]) @@ ("mod" :> [mod |-> "lib", addrs |-> <<0, 10>>])
    @@ ("none" :> [mod |-> "dll", addrs |-> <<0, 1>>])

FlagWith(name, text) == <<[form |-> "flag", name |-> name, value |-> "", text |-> ""],
                          [form |-> "word", name |-> "", value |-> "", text |-> text]>>
Writes(type, value, addr, times) ==
    [command |-> "writem", args |-> FlagWith("d", type) \o FlagWith("v", value) \o FlagWith("a", addr) \o FlagWith("t", times)]
Reads(type, addr, times, size) ==
    [command |-> "readm", args |-> FlagWith("d", type) \o FlagWith("a", addr) \o FlagWith("t", times) \o FlagWith("s", size)]
MCLines ==
    {Writes("uint16be", "6", "self", "2"), Writes("uint32be", "27", "heap", "1"), Writes("uint16", "6", "chain", "2"),
     Writes("cstring", "xy", "heap", "1"), Writes("utf16be", "xy", "heap", "1"), Writes("raw", "x", "chain", "3"),
     Writes("uint16", "27", "heap", "1"), Writes("uint64", "27", "mod", "1"),
     Reads("uint16be", "self", "2", "0"), Reads("uint32be", "heap", "1", "0"), Reads("uint16", "heap", "2", "0"),
     Reads("cstring", "chain", "2", "2"), Reads("utf16be", "heap", "1", "2"), Reads("raw", "heap", "1", "0"), Reads("raw", "none", "1", "1")}
MCCommands == ("readm" :> Readm) @@ ("writem" :> Writem)
MCStyles == {"", "s=heap"}
-----------------------------------------------------------------------------
Lexicon == <<"a", "addr", "d", "datatype", "e", "end-pointer", "f", "flat", "force", "h", "help", "i", "input-format",
    "m", "match", "o", "output-format", "p", "params", "pid", "property", "r", "region", "s",
    "show-windows-inaccessible", "size", "start-pointer", "t", "times", "v", "value">>
Trees == {Readm, Writem, ScanCommand, Watch, VmmapCommand, AttachCommand, DetachCommand, DebugCommand, Daemon, JobsCommand,
    SessionCommand, Quit, Prev, HelpCommand, Shonkset, Mrun, PluginCommand(TRUE),
    PluginCommands("p", <<"rm">>, <<"load">>)}
(* With their subcommands, down to those of a plugin's parsers. *)
Below(cmds) == UNION {ToSet(cmd.subs) : cmd \in cmds}
AllCommands == Trees \cup Below(Trees) \cup Below(Below(Trees))
ASSUME TreesAssumption == \A cmd \in AllCommands : WellDeclared(cmd) /\ ToSet(cmd.subs) \subseteq AllCommands
(* The usage of every command lists all its flags under both names.        *)
ASSUME UsageAssumption == \A cmd \in AllCommands : UsageListsAll(cmd)
Tree == [name \in {cmd.name : cmd \in Trees} |-> CHOOSE cmd \in Trees : cmd.name = name]

Typing(form, name, value, text) == [form |-> form, name |-> name, value |-> value, text |-> text]
TypedArgs == {Typing("flag", "a", "", "-a"), Typing("flag", "value", "", "-value"), Typing("assign", "size", "3", "-size=3"),
              Typing("flag", "f", "", "-f"), Typing("flag", "r", "", "-r"), Typing("flag", "h", "", "-h"),
              Typing("word", "", "", "3"), Typing("word", "", "", "rm"),
              Typing("word", "", "", "load"), Typing("end", "", "", "--")}
ArgLists == (UNION {[1 .. n -> TypedArgs] : n \in 0 .. 3})
                \cup {FlagWith("v", "3") \o FlagWith("a", "3"), FlagWith("a", "3") \o FlagWith("value", "rm"), FlagWith("s", "3") \o FlagWith("p", "") \o <<Typing("word", "", "", "3")>>}

(* The memory maps looked at: up to three regions below 7, in order, of no *)
(* file or of one of two. *)
MapLines == {Cell(b, e, id, "n", TRUE) : b \in 0 .. 6, e \in 0 .. 6, id \in {"0", "i1", "i2"}}
Segments == {l \in MapLines : l.base < l.end}
ShortMaps == UNION {[1 .. n -> Segments] : n \in 0 .. 2}
LongMaps == {<<a, b, c>> : a \in {l \in Segments : l.end <= 2}, b \in {l \in Segments : l.base >= 1 /\ l.end <= 4},
                           c \in {l \in Segments : l.base >= 2}}
SortedMaps == {lines \in ShortMaps \cup LongMaps : MemoryMap(lines)}

(* Every line for every command, and every memory map, has a state of its  *)
(* own, in which nothing else happens; in the others users run commands.   *)
VARIABLE probe

NoProbe == [kind |-> "none"]
MCInit ==
    /\ Init
    /\ probe \in {NoProbe} \cup [kind : {"line"}, cmd : DOMAIN Tree, args : ArgLists] \cup [kind : {"maps"}, maps : SortedMaps]
MCNext == probe = NoProbe /\ Next /\ UNCHANGED probe
MCSpec == MCInit /\ [][MCNext]_<<vars, probe>>

Typed(holds(_, _)) == probe.kind = "line" => holds(Tree[probe.cmd], probe.args)

(* A flag means the same by either name and in either form, on every line. *)
FlagsAgree == Typed(AliasesAgree)
(* No command or subcommand runs without what it requires, whatever line   *)
(* is typed.                                                               *)
RequiredGivenTyped == Typed(RequiredGiven)
(* Lookups by address and by file are right in every memory map.           *)
MapsLookedUp == probe.kind = "maps" => LookupFinds(probe.maps)
=============================================================================
