---------------------------- MODULE CommandTrees ----------------------------
(***************************************************************************)
(* The commands of memshonk as they declare themselves: names, flags with  *)
(* their defaults, positional arguments and subcommands. What they do is   *)
(* modelled where their subject is.                                        *)
(***************************************************************************)
EXTENDS Sequences, SequencesExt

Flag(name, letter, kind, default, required) ==
    [name |-> name, letter |-> letter, kind |-> kind, default |-> default, required |-> required]
Option(name, letter) == Flag(name, letter, "string", <<"">>, FALSE)
Switch(name, letter) == Flag(name, letter, "bool", <<"false">>, FALSE)

Word(name, kind, required) == [name |-> name, slice |-> FALSE, required |-> required, kind |-> kind]
Words(name, required) == [name |-> name, slice |-> TRUE, required |-> required, kind |-> "string"]

Command(name, flags, nonflags, subs) ==
    [name |-> name, flags |-> flags, nonflags |-> nonflags, subs |-> subs, custom |-> FALSE, enabled |-> TRUE]
-----------------------------------------------------------------------------
Readm == Command("readm",
    <<Flag("datatype", "d", "string", <<"raw">>, FALSE), Flag("size", "s", "uint", <<"16">>, FALSE),
      Flag("times", "t", "uint", <<"1">>, FALSE), Option("output-format", "o"),
      Flag("addr", "a", "string", <<"">>, TRUE), Option("params", "p")>>, <<>>, <<>>)

Writem == Command("writem",
    <<Flag("datatype", "d", "string", <<"raw">>, FALSE), Flag("input-format", "i", "string", <<"raw">>, FALSE),
      Flag("times", "t", "uint", <<"1">>, FALSE), Flag("value", "v", "string", <<"">>, TRUE),
      Flag("addr", "a", "string", <<"">>, TRUE)>>, <<>>, <<>>)

ScanCommand == Command("scan",
    <<Flag("datatype", "d", "string", <<"pattern">>, FALSE), Flag("input-format", "i", "string", <<"raw">>, FALSE),
      Option("start-pointer", "s"), Option("end-pointer", "e"), Flag("region", "r", "strings", <<>>, FALSE)>>,
    <<Words("search-value", TRUE)>>, <<>>)

Watch == Command("watch", <<Flag("size", "s", "uint", <<"0">>, TRUE), Option("params", "p")>>,
    <<Words("addrs", TRUE)>>, <<>>)

VmmapCommand == Command("vmmap",
    <<Option("match", "m"), Option("addr", "a"), Option("region", "r"), Option("property", "p"),
      Switch("show-windows-inaccessible", "s"), Switch("flat", "f")>>, <<>>, <<>>)

AttachCommand == Command("attach", <<Flag("pid", "p", "uint", <<"0">>, FALSE)>>, <<>>, <<>>)
DetachCommand == Command("detach", <<>>, <<>>, <<>>)
DebugCommand == Command("debug", <<>>, <<>>,
    <<Command("pause", <<>>, <<>>, <<>>), Command("resume", <<>>, <<>>, <<>>)>>)

Daemon == Command("daemon", <<>>, <<>>, <<Command("kill", <<Switch("force", "f")>>, <<>>, <<>>)>>)
JobsCommand == Command("jobs", <<>>, <<>>,
    <<Command("ls", <<>>, <<>>, <<>>), Command("rm", <<>>, <<Word("job-id", "string", TRUE)>>, <<>>)>>)
SessionCommand == Command("session", <<>>, <<>>,
    <<Command("info", <<>>, <<Words("session-ids", FALSE)>>, <<>>), Command("ls", <<>>, <<>>, <<>>),
      Command("rm", <<>>, <<Words("session-ids", TRUE)>>, <<>>)>>)
Quit == Command("quit", <<>>, <<>>, <<>>)

Prev == Command("prev", <<>>, <<Word("command-name", "string", FALSE), Word("index", "uint", FALSE)>>, <<>>)
HelpCommand == Command("help", <<>>, <<Word("command-or-topic", "string", FALSE)>>, <<>>)
Shonkset == Command("shonkset", <<>>,
    <<Word("configuration-item", "string", TRUE), Word("configuration-value", "string", FALSE)>>, <<>>)
Mrun == Command("mrun", <<>>, <<Word("script-file-path", "string", TRUE)>>, <<>>)

(* One variable holds the plugin's name, whichever subcommand it is for.   *)
PluginName(required) == <<Word("plugin-name-or-path", "string", required)>>
PluginCommand(enabled) ==
    [Command("plugin", <<>>, PluginName(FALSE),
        <<Command("ls", <<>>, PluginName(FALSE), <<>>), Command("load", <<>>, PluginName(TRUE), <<>>),
          Command("reload", <<>>, PluginName(TRUE), <<>>), Command("unload", <<>>, PluginName(TRUE), <<>>)>>)
     EXCEPT !.enabled = enabled]

(* RegisterPlugin: the custom commands of a plugin, which parse their own  *)
(* lines, and its parsers below "parsers". *)
PluginCommands(name, custom, parsers) ==
    Command(name, <<>>, <<>>,
        [i \in DOMAIN custom |-> [Command(custom[i], <<>>, <<>>, <<>>) EXCEPT !.custom = TRUE]]
        \o IF parsers = <<>> THEN <<>>
           ELSE <<Command("parsers", <<>>, <<>>,
                    [i \in DOMAIN parsers |-> Command(parsers[i], <<>>, <<Word("address", "uint", FALSE)>>, <<>>)])>>)
=============================================================================
