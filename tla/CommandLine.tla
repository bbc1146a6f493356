----------------------------- MODULE CommandLine -----------------------------
(***************************************************************************)
(* The command lines of memshonk (package fx): a command declares flags,   *)
(* each with a short alias where its first letter is free, and positional  *)
(* arguments; a line is parsed by the flag package of Go, then checked for *)
(* what is required, then handed to the command or to a subcommand.        *)
(*                                                                         *)
(* An argument is a record: form "flag" (-name), "assign" (-name=value),   *)
(* "word" or "end" (--), its name, its value and its text as typed. What   *)
(* a flag was given is a sequence of texts: one for a plain flag, any      *)
(* number for a slice. A flag has a name, its first letter, a kind         *)
(* ("bool", "uint", "string", "strings"), a default and perhaps is         *)
(* required.                                                               *)
(***************************************************************************)
EXTENDS Naturals, Sequences, FiniteSets, SequencesExt

CONSTANTS
    Numbers,   \* the texts that strconv accepts as a number
    Lexical    \* the names of flags in the order of VisitAll

Argument(T) == [form : {"flag", "assign", "word", "end"}, name : T, value : T, text : T]

Help == [name |-> "help", letter |-> "h", kind |-> "bool", default |-> <<"false">>, required |-> FALSE]

(* A variable, or the entry of a table, that is given a value.             *)
Assigned(f, x, y) == [n \in DOMAIN f \cup {x} |-> IF n = x THEN y ELSE f[n]]

(***************************************************************************)
(* FlagSet.registerFlag: the long name, the alias if nobody has it, and    *)
(* for a required flag the names of which one must be given. The mutant    *)
(* lets only the long name do.                                             *)
(***************************************************************************)
LongOnly(f) == {f.name}
Candidates(f) == {f.name, f.letter}
RegisterFlag(set, f) ==
    LET long == Assigned(set.alias, f.name, f.name)
        free == f.name # f.letter /\ f.letter \notin DOMAIN long
    IN [alias |-> IF free THEN Assigned(long, f.letter, f.name) ELSE long,
        required |-> IF f.required THEN set.required \cup {Candidates(f)} ELSE set.required]

Declared(cmd) == <<Help>> \o cmd.flags
FlagSets(cmd) ==
    LET set[k \in 0 .. Len(Declared(cmd))] ==
            IF k = 0 THEN [alias |-> <<>>, required |-> {}] ELSE RegisterFlag(set[k - 1], Declared(cmd)[k])
    IN set
FlagSet(cmd) == FlagSets(cmd)[Len(Declared(cmd))]

(* No two flags of a command go by the same name, long or short.           *)
Kinds == {"bool", "uint", "string", "strings"}
WellDeclared(cmd) ==
    /\ cmd.flags \in Seq([name : STRING, letter : STRING, kind : Kinds, default : Seq(STRING), required : BOOLEAN])
    /\ cmd.nonflags \in Seq([name : STRING, slice : BOOLEAN, required : BOOLEAN, kind : Kinds])
    /\ \A i, j \in DOMAIN Declared(cmd) :
           Candidates(Declared(cmd)[i]) \cap Candidates(Declared(cmd)[j]) # {} => i = j
    /\ \A f \in ToSet(Declared(cmd)) : f.name # f.letter /\ "" \notin Candidates(f)
    /\ cmd.custom => cmd.flags = <<>>

FlagNamed(cmd, name) == CHOOSE f \in ToSet(Declared(cmd)) : f.name = name
Defaults(cmd) == [n \in {f.name : f \in ToSet(Declared(cmd))} |-> FlagNamed(cmd, n).default]

(* The typed flags and positional arguments: what their setters accept and *)
(* what they store. *)
Accepts(kind, text) ==
    CASE kind = "bool" -> text \in {"true", "false"}
      [] kind = "uint" -> text \in Numbers
      [] OTHER -> TRUE
Stored(kind, old, text) == IF kind = "strings" THEN Append(old, text) ELSE <<text>>
-----------------------------------------------------------------------------
(***************************************************************************)
(* flag.FlagSet.Parse, one argument after the other. `pending` is a flag   *)
(* that waits for its value; after the first word, or --, the rest is      *)
(* positional.                                                             *)
(***************************************************************************)
NothingParsed(cmd) == [pending |-> "", rest |-> <<>>, done |-> FALSE, err |-> FALSE,
                       provided |-> {}, values |-> Defaults(cmd)]

SetFlag(cmd, acc, token, text) ==
    LET f == FlagNamed(cmd, FlagSet(cmd).alias[token])
    IN IF ~Accepts(f.kind, text) THEN [acc EXCEPT !.err = TRUE]
       ELSE [acc EXCEPT !.pending = "", !.provided = @ \cup {token},
                        !.values = [acc.values EXCEPT ![f.name] = Stored(f.kind, @, text)]]

ParseFlag(cmd, acc, a) ==
    IF a.name \notin DOMAIN FlagSet(cmd).alias THEN [acc EXCEPT !.err = TRUE]
    ELSE LET f == FlagNamed(cmd, FlagSet(cmd).alias[a.name])
         IN IF a.form = "assign" THEN SetFlag(cmd, acc, a.name, a.value)
            ELSE IF f.kind = "bool" THEN SetFlag(cmd, acc, a.name, "true")
            ELSE [acc EXCEPT !.pending = a.name]

ParseArg(cmd, acc, a) ==
    IF acc.err THEN acc
    ELSE IF acc.done THEN [acc EXCEPT !.rest = Append(@, a)]
    ELSE IF acc.pending # "" THEN SetFlag(cmd, acc, acc.pending, a.text)
    ELSE IF a.form = "word" THEN [acc EXCEPT !.done = TRUE, !.rest = <<a>>]
    ELSE IF a.form = "end" THEN [acc EXCEPT !.done = TRUE]
    ELSE ParseFlag(cmd, acc, a)

ParsedUpTo(cmd, args) ==
    LET acc[k \in 0 .. Len(args)] ==
            IF k = 0 THEN NothingParsed(cmd) ELSE ParseArg(cmd, acc[k - 1], args[k])
    IN acc
ParseFlags(cmd, args) ==
    LET acc == ParsedUpTo(cmd, args)[Len(args)]
    IN [acc EXCEPT !.err = acc.err \/ acc.pending # ""]

(***************************************************************************)
(* The positional arguments: each takes one word, a slice takes the rest;  *)
(* one that is not there keeps the value it has. A variable that a command *)
(* shares with its subcommands goes by one name in both. The mutant        *)
(* forgets that a required slice needs a word.                             *)
(***************************************************************************)
EnoughAny(nf, words) == nf.slice \/ ~nf.required \/ words # <<>>
Enough(nf, words) == ~nf.required \/ words # <<>>
SetNonflag(acc, nf) ==
    LET words == [i \in DOMAIN acc.left |-> acc.left[i].text]
        taken == IF nf.slice \/ words = <<>> THEN words ELSE <<Head(words)>>
        kept == IF nf.name \in DOMAIN acc.values /\ taken = <<>> THEN acc.values[nf.name] ELSE taken
    IN IF acc.err \/ ~Enough(nf, words) \/ \E i \in DOMAIN taken : ~Accepts(nf.kind, taken[i])
       THEN [acc EXCEPT !.err = TRUE]
       ELSE [err |-> FALSE, left |-> SubSeq(acc.left, Len(taken) + 1, Len(acc.left)),
             values |-> Assigned(acc.values, nf.name, kept)]

(* FlagSet.Parse: flags, then what is required, then the positional ones,  *)
(* on top of what the commands before it stored.                           *)
Missing(cmd, provided) == \E c \in FlagSet(cmd).required : c \cap provided = {}
NonflagsSet(cmd, rest, stored) ==
    LET acc[k \in 0 .. Len(cmd.nonflags)] ==
            IF k = 0 THEN [err |-> FALSE, left |-> rest, values |-> stored]
            ELSE SetNonflag(acc[k - 1], cmd.nonflags[k])
    IN acc
SetNonflags(cmd, rest, stored) == NonflagsSet(cmd, rest, stored)[Len(cmd.nonflags)]
Parsed(cmd, flags, nonflags) ==
    [help |-> flags.values["help"] = <<"true">>,
     err |-> flags.err \/ Missing(cmd, flags.provided) \/ nonflags.err,
     values |-> flags.values, positional |-> nonflags.values, rest |-> flags.rest]
ParseRest(cmd, flags, stored) == Parsed(cmd, flags, SetNonflags(cmd, flags.rest, stored))
Parse(cmd, args, stored) == ParseRest(cmd, ParseFlags(cmd, args), stored)

(***************************************************************************)
(* Command.runRecurse: help comes before any error, a command may be       *)
(* disabled, a first word that names a subcommand goes there with what     *)
(* follows it, and another one is an error unless the command has          *)
(* positional arguments of its own. A custom command gets the line as it   *)
(* is. A call has an outcome, or it is followed by the call of a           *)
(* subcommand, with fewer arguments. `names` is the way down to a command. *)
(***************************************************************************)
Outcome(names, what, p) == [outcome |-> what, commands |-> names, values |-> p.values, positional |-> p.positional]

Call(names, cmd, args, stored) ==
    [ended |-> FALSE, names |-> Append(names, cmd.name), cmd |-> cmd, args |-> args, stored |-> stored]
Ended(outcome) == [ended |-> TRUE, outcome |-> outcome]

RunCustom(names, args) ==
    [outcome |-> "run", commands |-> names, values |-> <<>>,
     positional |-> [name \in {"args"} |-> [i \in DOMAIN args |-> args[i].text]]]
RunParsed(names, cmd, args, p) ==
    LET subs == {s \in ToSet(cmd.subs) : p.rest # <<>> /\ s.name = p.rest[1].text}
    IN IF cmd.custom THEN Ended(RunCustom(names, args))
       ELSE IF p.help THEN Ended(Outcome(names, "help", p))
       ELSE IF p.err \/ ~cmd.enabled THEN Ended(Outcome(names, "error", p))
       ELSE IF subs # {} THEN Call(names, CHOOSE s \in subs : TRUE, Tail(p.rest), p.positional)
       ELSE IF cmd.subs # <<>> /\ p.rest # <<>> /\ cmd.nonflags = <<>> THEN Ended(Outcome(names, "error", p))
       ELSE Ended(Outcome(names, "run", p))
RunRecurse(call) ==
    IF call.ended THEN call
    ELSE RunParsed(call.names, call.cmd, call.args, Parse(call.cmd, call.args, call.stored))

Calls(cmd, args) ==
    LET call[k \in 0 .. Len(args) + 1] ==
            IF k = 0 THEN Call(<<>>, cmd, args, <<>>) ELSE RunRecurse(call[k - 1])
    IN call
Run(cmd, args) == Calls(cmd, args)[Len(args) + 1].outcome
-----------------------------------------------------------------------------
(***************************************************************************)
(* LongArgsUsage: the names in order, a short one kept for the long one    *)
(* that follows; a long one without a short one ends the listing. A        *)
(* capital letter would stand alone; no command has one.                   *)
(***************************************************************************)
UsageStep(cmd, acc, name) ==
    IF acc.err THEN acc
    ELSE IF \E f \in ToSet(Declared(cmd)) : f.letter = name THEN [acc EXCEPT !.last = name]
    ELSE IF acc.last = "" THEN [acc EXCEPT !.err = TRUE]
    ELSE [acc EXCEPT !.listed = Append(@, <<acc.last, name>>), !.last = ""]

LongArgsUsage(cmd) ==
    LET names == SelectSeq(Lexical, LAMBDA n : n \in DOMAIN FlagSet(cmd).alias)
    IN FoldLeft(LAMBDA acc, n : UsageStep(cmd, acc, n), [last |-> "", listed |-> <<>>, err |-> FALSE], names).listed
-----------------------------------------------------------------------------
(* The arguments of a list that the parser takes for flags. *)
FlagPlaces(cmd, args) ==
    {i \in DOMAIN args : LET acc == ParsedUpTo(cmd, args)[i - 1]
                         IN /\ ~acc.err /\ ~acc.done /\ acc.pending = ""
                            /\ args[i].form \in {"flag", "assign"} /\ args[i].name \in DOMAIN FlagSet(cmd).alias}

(***************************************************************************)
(* AliasesAgree: a line means the same with the other name of a flag of    *)
(* the command, and with its value joined to it: the subcommands it        *)
(* reaches, the values and the errors, also the one for a required flag    *)
(* that is missing.                                                        *)
(***************************************************************************)
OtherName(cmd, a) ==
    LET f == FlagNamed(cmd, FlagSet(cmd).alias[a.name])
    IN [a EXCEPT !.name = IF a.name = f.name THEN f.letter ELSE f.name]
Joined(args, i) == SubSeq(args, 1, i - 1) \o <<[args[i] EXCEPT !.form = "assign", !.value = args[i + 1].text]>>
                      \o SubSeq(args, i + 2, Len(args))
AliasesAgree(cmd, args) ==
    \A i \in FlagPlaces(cmd, args) :
        LET f == FlagNamed(cmd, FlagSet(cmd).alias[args[i].name])
        IN /\ Run(cmd, args) = Run(cmd, [args EXCEPT ![i] = OtherName(cmd, @)])
           /\ args[i].form = "flag" /\ f.kind # "bool" /\ i < Len(args)
                 => Run(cmd, args) = Run(cmd, Joined(args, i))

(***************************************************************************)
(* RequiredGiven: a command or subcommand runs only if its own part of the *)
(* line, and that of every command on the way down to it, gives each       *)
(* required flag, and its own part gives each required positional argument *)
(* that it runs with (not the commands before it, whose variable it may    *)
(* share). A custom command looks at nothing.                              *)
(***************************************************************************)
FlagsGiven(c) ==
    \A f \in ToSet(Declared(c.cmd)) : f.required =>
        \E i \in FlagPlaces(c.cmd, c.args) : FlagSet(c.cmd).alias[c.args[i].name] = f.name
WordsGiven(c, positional) ==
    \A nf \in ToSet(c.cmd.nonflags) : nf.required =>
        /\ positional[nf.name] # <<>>
        /\ ToSet(positional[nf.name]) \subseteq {a.text : a \in ToSet(c.args)}
RequiredGiven(cmd, args) ==
    LET r == Run(cmd, args) IN
    r.outcome = "run" =>
        \A k \in 0 .. Len(args) + 1 :
            LET c == Calls(cmd, args)[k] IN
            ~c.ended /\ ~c.cmd.custom =>
                FlagsGiven(c) /\ (c.names = r.commands => WordsGiven(c, r.positional))

(* UsageListsAll: the help of a command lists every flag by both names.    *)
UsageListsAll(cmd) == ToSet(LongArgsUsage(cmd)) = {<<f.letter, f.name>> : f \in ToSet(Declared(cmd))}
=============================================================================
