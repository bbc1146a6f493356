# Verification of memshonk

memshonk is a command-line companion of a debugger. A daemon owns the target process;
clients on a Unix socket drive it through sessions that each have a shell. The daemon is
concurrent throughout: every connection, session, command, exit monitor and deadline is a
goroutine, and they meet in channels and behind read-write locks. This directory holds TLA+
models of those parts and of the sequential algorithms behind the commands, the TLC
configurations that check them on small instances, and TLAPS proofs, for all instances, of
every safety property that a run checks and of both refinements.

    tlc -config <Run>.cfg <Module>          tlapm <Module>Proofs.tla

(`MuxPartsProofs` is about `MuxHandshake` and `MuxChild`, `CommandsProofs` about `MCCommands`,
`DataTypes`, `CommandLine` and `Regions`.)

The module of each run is in `PROJECT.json`; `ConnMux*.cfg` belong to `MCConnMux`, `Scan.cfg` to
`MCScan`, `Commands.cfg` and `DataOrder.cfg` to `MCCommands`, `AttachLive.cfg` to `Attach`.

`PROJECT.json` lists the runs, the lines of Go behind every definition, the hazards with
the properties that watch them, and, for each property, a mutant of the model that breaks it.

## 1. Inventory of the system

Paths are relative to `src/internal/`.

| component | state | operations | what is hard | what makes it correct |
|---|---|---|---|---|
| `connmux.Mux` | number and parity of the handshake; maps of dialing and open connections; accept queue | start, dial, accept, route, close, cleanup | two loops with no shared state, unbuffered channels, time-outs, messages that cross, writes that block | disjoint identifiers; every dial answered once; payloads once and in order; a close reaches the peer; Close returns |
| `connmux.muxChild` | read buffer and its one-token channel, deadline goroutines | Read, Write, SetDeadline, Close | several Reads against the loop; deadlines replaced while due | no lost wakeup, no byte twice or skipped, Close and deadlines end every Read |
| `progctl.Ctl` and exit monitors | the attached process, `rwMu`, once-flags of monitors | Attach, Detach, exit report, automatic detach | the process exits during any of the calls; a re-attach overtakes the goroutine of the old one | lock released on every path; only the attached process is watched; an exited one is detached |
| `events` | subscribers per type of event, their channels, acknowledgements | Subscribe, Unsubscribe, Send, SendAndWait | subscribers that leave during a send, full channels | what is counted is acknowledged; nothing in flight once the sender returns |
| `shell` | prompt, subscriptions, the context of the running command | Run, handleEvents, Close | state read before the subscription; three channels in one select; Close before Run | the prompt shows the attached process; the session is removed when Run returns |
| `sessiond` server and sessions | map of sessions, listener, once-flag of each session | accept, Close, RemoveSession, goodbye | four goroutines close one session, two of them by name; a session closed by one of its own jobs | the map and the sessions agree; closing ends; no job outlives its session unseen |
| `jobsctl` | job table, identifiers in use, stopped flag | Register, Lookup, CancelSync, SetFinished, Shutdown | Shutdown waits under the lock that ending jobs need | distinct identifiers; no job registered after Shutdown |
| `sessiond` client, `main.go` | five connections of a client | SetupClient, beDaemon | handshake time-outs, start of the daemon | a client is refused or has all its connections |
| `plugins/libplugin` | loaded plugins, the unload lock of each, callback slots, contexts of calls | load, reload, unload, run, callbacks | the unload lock is taken twice around a waiting writer; reload and load can fail half way; slots are reused | nobody in a released library; a callback finds its own plugin; what is open is listed; a cancelled run ends |
| `ptrace`, `threadlock`, `process_unix.go` | stopped flag, memory mode and file, one locked thread | read, write, suspend, resume, set the mode, close | kernel and flag may disagree; calls against the end of the thread; the process dies | a suspended process stays suspended; nothing else stops it; every call answered |
| `progctl` watchers | last bytes, channel of changes | watch, poll, stop | a full channel; detach does not wait for the loop | every watcher ends; settled memory is shown |
| `memory` reader, `scan` (`scan.go`) | window, pool of workers, results | feed, search, collect, interrupt | matches over the seam of two reads; workers, feeder and collector wait for each other; others detach meanwhile | all matches of all regions, or an error; the scan ends |
| `memory` regions and pointers, `linuxmaps` | table of regions and objects | build, look up, follow a chain | seams, holes, regions of one file apart | an address is found where it is mapped and only there |
| `readm`, `writem`, `scan` | where the next access goes | read, write, make a pattern | three translations of one table of types; several instances while others write | what is written is read back and found; instances adjoin |
| `fx` and the commands' declarations | flags, aliases, positional arguments | register, parse, recurse, usage | aliases, required arguments, subcommands and help meet on one line | both names of a flag agree; nothing runs without what it requires |
| `apicompat` | command registry, stored outputs | register, look up, run | registration by plugins while commands run | a command found is a command of a loaded plugin |
| `cstlv` | none | read and write framed messages | lengths of 32 bits | what is written is read back |
| `flagsctl`, `ini`, `project`, `globalconfig`, `shvars` | none after start | parse | nothing concurrent | tests of the repository |
| `exedata`, `fbsdmaps`, `hexdump`, `dl`, `kernel32`, `vendored` | none | parsers, formatters, wrappers | external formats and system calls | out of scope |

How they interact. A client splits its socket with `connmux` into connections for input,
output and control. `sessiond.Server` accepts it, makes a `Session` with a `jobsctl.Ctl` and a
`Shell`, and runs the shell on a goroutine that removes the session afterwards. A line typed
into the shell is a command or a job; commands call `progctl.Ctl`, which all sessions share.
`Ctl` tells the shells what happens through `events`, holding its own lock until they have
acknowledged; each shell then changes its prompt. Reads, writes and watchers go through `Ctl` to the
one locked thread that may trace the process. Plugins register commands that every session can
run, and call back into the daemon from their own code.

## 2. Modules and how they correspond to the code

| module | models | composed with |
|---|---|---|
| `MuxHandshake` | `startMux` and the handshake cases of `Mux.handleMessage` on two sides | the state `ConnMux` starts from |
| `MuxService` | abstract: what two joined Muxes promise | implemented by `ConnMux` |
| `ConnMux` | two `Mux.loop`s with dial, accept, payloads, close, cleanup, and the callers around them | `ConnMuxProperties` (properties and the refinement mapping), `MCConnMux` (instances) |
| `ByteStream` | abstract: one direction of a connection as bytes in order | implemented by `MuxChild` |
| `MuxChild` | the read half of `muxChild`: buffer, token, Reads, deadlines, Close | details the read buffer that `ConnMux` keeps as a sequence |
| `Attach` | `Ctl.Attach`, `Ctl.Detach`, `ExitMonitor`, the event groups, and of each shell the subscriptions and the prompt | composes `progctl`, `events` and `shell` |
| `ProcessMemory` | one attached process: `process_unix.go`, `Tracer`, `threadlock.Thread`, `watcherCtl`, and the commands in front of them | composes `commands`, `progctl`, `ptrace` and `threadlock`; takes up after an `Attach` |
| `Sessions` | `Server`, `Session.Close`, `jobsctl.Ctl`, and of shell and commands what starts, ends or waits for them | composes `sessiond`, `jobsctl`, `shell` and `commands` |
| `Plugins` | `libplugin.Ctl`, `Plugin`, the callback slots, the command registry and the `plugin` command | composes `libplugin`, `apicompat` and `commands` |
| `Scan` | `scan`'s feeder, workers and collector; `FindAllBytes`; `BufferedReader` | `MCScan` (instances) |
| `Regions` | `/proc/<pid>/maps` to regions and objects, their lookup, pointer chains | used by `DataTypes` |
| `CommandLine` | `fx`: registration of flags, parsing, `runRecurse`, usage | used by `DataTypes` |
| `CommandTrees` | the commands of memshonk as they declare themselves | `MCCommands` |
| `DataTypes` | `readm`, `writem` and the patterns of `scan` over the memory of a process | composes `CommandLine`, `Regions` and the commands; `MCCommands` (instances) |
| `MuxPartsProofs`, `ConnMuxProofs`, `AttachProofs`, `SessionsProofs`, `PluginsProofs`, `ProcessMemoryProofs`, `ScanProofs`, `CommandsProofs` | theorems | each EXTENDS the module it is about; `MuxPartsProofs` both `MuxHandshake` and `MuxChild`, `CommandsProofs` all that `MCCommands` is made of |

Conventions. An action is a step between two points where another goroutine can be seen:
taking a lock, a channel operation, a close. A critical section with nothing of that kind
inside is one action. A write lock that is held over several steps is a variable; one that is
not is only a guard on the steps that need it. A `select` is a disjunction of its ready cases.
A definition whose comment begins with "Fault", or that a comment calls the mutant of the next
one, is not part of the specification: it is the mistake that a mutant makes.

*MuxHandshake.* `num` is `ourNum`, `hsDone` the closed channel `hsComplete`, `wire[s]` the
net.Conn with the goroutine that reads it. One action per branch of `handleMessage`; the
writes can fail, the five seconds can pass, the caller can close at any time.

*ConnMux.* `loop[s]` is where `Mux.loop` stands: in its select, in a write (`busy` holds the
message and what follows it), in the accept queue's one second, or in its deferred cleanup.
A direction of the net.Conn is a FIFO of `PipeCap` messages; a write to a full one blocks the
loop, as `writeMessage` does. `dial[c]` is a call of `DialContext` with its `dialCB`.

*MuxChild.* Bytes are numbered and a chunk is an interval, so that a lost, repeated or
reordered byte shows. `reads` is the channel of capacity one; `pc[r]` separates taking the
token from taking the lock, which the code does not do together. `timer` and `stale` are the
goroutines of `setDeadline`, the current one and the replaced ones.

*Attach.* `lock` is `Ctl.rwMu`. A thread in `"send"` is in `SendAndWait`: `left` are the
subscribers still to be sent to, `want` the acknowledgements counted, `acks` those received. A
shell subscribes to three groups in order and leaves them in the opposite one, by
`Unsubscribe`, which waits for the group while a send holds it. Each monitor's `sync.Once` is
the `mon` state that only one of exit and detach can leave.

*ProcessMemory.* The kernel's view (`alive`, `traced`, `halted`, `mem`) is kept apart from what
the program believes (`stopped`, `attached`, `mode`, `file`). `thread` is the locked thread
and `serving` the caller whose function it runs, one `step` at a time: stop the process, access
it, let it go. A command holds `Ctl.rwMu`, the loop of the watchers does not, so a detach meets
it in every place. `ptrace` calls are atomic and each of them may fail; waiting for the stop
may fail although the process does stop.

*Sessions.* `phase[s]` walks through `Session.Close`, which a `sync.Once` lets one thread run
and makes others wait for. Threads are named by what they are: the goroutine of a session
(`run`), a goodbye or `quit` (`bye`), a `session rm` (`job`), `Server.Close` (`stop`). Server
lock and map are `lock` and `sessions`; a job's fields are `job[j]`.

*Plugins.* A plugin object is named by the command that loaded it. `readers` and `writer` are
its `unloadRwMu` with Go's rule that a waiting writer keeps new readers out, so a second read
lock of the same goroutine can block. `slots` is `goCallbacksList`; `ctx` is the goroutine of
`maybeNewCtx` that tells the library about a cancelled call. `lib` is `"stuck"` after a release
that failed: `Ctl.unload` then returns before the plugin leaves the list. What a library does is
external: it returns, or calls back for memory, or waits until it is told.

*Scan.* A region is its position in the table and the bytes it has. `reader` has the fields
of `BufferedReader`, so that its arithmetic is the code's; `results` is the buffered channel.
`attached` says whether `progctl.Ctl` has a process: other sessions detach and attach at any
moment, reads fail meanwhile, and `refused` keeps the regions for which no reader could be made.
A pattern may be empty; a worker that then runs past the end of its data sets `crashed`.

*DataTypes, CommandLine, Regions.* A user's command line is parsed by `Run` of `CommandLine`
and becomes a job whose accesses are separate actions: other users write in between. `origin`
is a history variable that says who wrote each byte. A byte has `ByteLimit` values and numbers
have one, two, three or four of them; only their order matters to the properties. `CommandTrees`
lists every flag and positional argument with its kind, default and whether it is required.
`MCCommands` adds one variable, `probe`: each command line of up to three arguments for each
command, and each small memory map, is an initial state of its own in which nothing happens, so
that what the parser and the table of regions compute is an invariant like any other.

The algorithms - the parser, the descent through the subcommands, the table of regions, the
bisection of `HasAddr`, the chain of offsets, the conversions of numbers - are functions over
the steps of their loops (`ParsedUpTo(cmd, args)[k]` is what is parsed after k arguments,
`Bisections(t, a)[k]` the range after k halvings), which the provers can reason about.

## 3. Runs, what they show, and bounds

| run | instance | states | shows |
|---|---|---|---|
| `handshake` | numbers 0..2 | 1.9 K | identifiers of different parity, no late handshake, `startMux` returns |
| `connmux_stream` | one connection, three payloads, one close, one `Mux.Close` | 13 K | payloads once and in order, a close takes effect on both sides, silence at the end |
| `connmux_dials` | three dials, two from one side, one with a context that expires; queue of one | 50 K | identifiers do not collide, a refused dial is not accepted, all dials are answered |
| `muxchild` | two readers, chunks of one and two bytes, two deadlines | 20 K | no lost wakeup, bytes in order, every Read and goroutine ends |
| `attach` | two attachments, one detach, one shell, queue of one | 789 K | watched process, nothing in flight |
| `attach_live` | one of each | 13 K | calls return; an exited process is detached |
| `sessions` | two clients, one identifier, one job | 95 K | map, jobs and sessions agree; closers return and ended sessions leave |
| `plugins` | one run against two commands that load, reload or unload; two names, one of them unloadable | 52 K | nobody in a released library, callbacks find their plugin, the list is what is open or could not be released, cancelled runs end |
| `memory` | two clients, one watcher, two commands, one change of the memory, a channel of one | 39 K | suspension holds, nothing else stops the process, commands and watchers end, settled memory is shown |
| `scan` | two workers, three regions of up to four bytes, one of them not readable; five patterns, one of them empty | 432 K | the window is in its place, the result is whole or an error, the scan ends |
| `commands` | two users, three commands of fifteen; 1114 lines for each of 18 commands with their subcommands; maps of up to three regions | 76 K | values survive `writem` and `readm`, instances adjoin, `scan` looks for what was written; flags, required arguments down to the subcommand, and lookups; usage, as an assumption of `MCCommands` that TLC evaluates |
| `data_order` | the same | – | violates `OrderHonoured` |

Why the bounds are enough. The handshake compares two numbers only: three values give both
orders, ties, and a tie after a tie. Two payloads in one direction can be reordered or lost,
one in the other crosses them; three dials give two on one side, whose identifiers follow
each other, and one that crosses; a queue of one fills. `connmux_stream` and
`connmux_dials` give a direction room for four messages, enough that with so few calls the two
loops never wait for each other in a write, so that `CloseTakesEffect` and `DialsAnswered` are
about the protocol; section 5 tells what happens without that room. Two readers give every
race on the token, and two deadlines give one that is replaced. Two attachments give a
re-attach over an exited process; a channel of one event fills at once, so that the one second
of `Sub.send` passes. Two clients with one identifier give the reuse of a name while the old
session closes. One job is enough for what relates a session to a job of its own, and two for
their names; since `FirstFree` always finds place 1, a larger `MaxJid` adds no states.

One run against two commands gives an unload and a load, a load and a reload, or two reloads
around a call and its callbacks; the daemon has a plugin from the start, so that its slot is
there to be reused. In `memory` two commands give a suspend followed by an access, a change of
mode followed by one, and a detach against each; a channel of one drops the second change. In
`scan` a region is shorter than the reader's first read, as long, or longer, and
`MinRead` of two puts the seam inside it; two workers suffice for the last result to
overtake the first; the process may be gone, and back, at any moment. `commands` has a line for each family of data types, pointers into
themselves, several instances, and raw data; a parse has at most three arguments, which is one
more than the longest dependency between two of them.

The safety properties of every run are proved for every instance, so the bounds only matter to
the liveness properties, and to the lines and maps of `MCCommands` that say for which of them
the last three invariants are stated; section 4 has the theorems for all others. Two assumptions on constants are there
for the proofs alone and cost nothing: the calls of `ConnMux` and the shells of `Attach` are
finitely many, because both modules count them. `Scan` assumes that the reader reads at least
two bytes ahead (1 MiB in the code); with one, a pattern of one byte could empty the buffer
before the end of the region. The assumptions of `DataTypes` are what its constants stand for:
a byte has at least two values, a number at least one byte, no family is both one of numbers
and one of strings, and `uint16be` is big endian (`TypeAssumption`); the texts that parse as numbers, strings and pointers are numbers,
bytes and chains of addresses (`TextAssumption`); the maps are those of a process
(`ProcessAssumption`), whose mapped bytes are there (`MemoryAssumption`); a line has a number
of instances (`CountAssumption`). `TreesAssumption` says that no two flags of a command of
memshonk, or of one of its subcommands, go by one name. TLC evaluates them all.

Deadlock. All runs say `CHECK_DEADLOCK FALSE`: users may stop typing, a session may end and a
number of calls is spent, so all these systems may really stop. Every run in which something
must not stop has a liveness property for it.

### Fairness

* Goroutines that can run do run (weak fairness per goroutine). Go's scheduler is preemptive
  and a blocked channel operation that becomes possible is performed.
* A ready case of a `select` in a loop is taken in the end: Go picks among the ready ones at
  random. This is what weak fairness of `LoopClose` and of the deadline's end stands for, and
  strong fairness of `LoopEnds` in `ProcessMemory`, whose loop sees its context between ticks.
* `MuxChild` has strong fairness of `ReadTake`, and `ProcessMemory` of `Hand`: the waiters of a
  channel are a queue in Go, so one that waits gets its turn if turns keep coming.
* `Plugins` has strong fairness of `LibReturns`: the functions of a library end, unless they
  wait to be told that the call is cancelled. That is the contract plugins are written to.
* Time-outs pass: the five seconds of the handshake, the second of the accept queue, the second
  of `Sub.send` and the two seconds of `Shutdown`. A ticker keeps ticking.
* Programs and users owe nothing: no fairness for dialing, accepting, reading, closing,
  attaching, typing, leaving, cancelling. Processes need not exit, and a command need not look
  at its context. In `Attach` a shell's `Run` returns once its session is closed.
* In `ConnMux` the steps of callers share one weak fairness condition and so do the daemon's
  in `Sessions`. That is weaker than a condition each and enough there, since no step of a
  behaviour can be repeated for ever while another one waits.

## 4. What is proved

For every value of the constants, under the named assumptions of the modules (names that
stand for "none" are no other thing; sizes are natural numbers).

* **MuxHandshake** (`HandshakeTypes`, `DisjointIdentifiers`, `DecidedBeforeDone`,
  `HandshakeNeverLate`), for every range of handshake numbers. `DistinctParity` says nothing of
  messages under way and is not inductive. `Agreed` lists what the two directions can hold: both
  sides have one number under way (`Level`), one is a tie ahead (`Ahead`), one has decided
  (`Decided`), both have (`Acked`), or a write failed (`Dead`). It holds because each direction
  is a FIFO and a side draws again only in answer to a number.
* **MuxChild** (`ChildTypes`, `NoWakeupLost`, `SoleReadSucceeds`, `BufferInOrder`,
  `StreamImplemented`), for any number of readers and any sizes. `Buffer` adds to `Contiguous`
  that no chunk ends behind the last byte received; `Backed` says that as long as Reads do not
  overlap each token, in the channel or taken, stands for a chunk of its own. The refinement
  of `ByteStream` is proved step by step from it: a Read that copies is a `Get`, one that fails
  a `GetNothing`, a chunk that arrives a `Put`, everything else a stutter.
* **ConnMux** (`Invariant`, `TypeCorrect`, `IdentifiersAreFresh`, `UnroutedChildIsClosed`,
  `RefusedDialIsNotAccepted`, `RoutedPayloadsAreWhole`, `ServiceImplemented`), for any calls,
  payloads, capacities and bounds. Both sides number their own dials, so everything rests on
  what an identifier can mean at each place where it occurs: who has issued it (`Numbers`,
  `Calls`), which children carry it on either side (`Families`), what a message that carries it
  says about the side that sent it (`Messages`), and how the payloads that carry it follow each
  other (`Order`). The parts need each other: no payload is lost before a dialed child is routed
  because the acknowledgement of the dial precedes all its payloads in the pipe (`Announced`),
  and an identifier is fresh because every one in a message was issued.
  The refinement of `MuxService` is proved step by step: a step of a loop or a caller is one
  step of the service, or none, for each disjunct of `Next`. `NothingLostWhileRouted`
  describes the payloads under way element by element (their numbers, and that these grow
  along the pipe), since a filtered sequence is a recursive definition; `Order` speaks of the
  same elements.
* **Attach** (`LockIsHeld`, `OnlyCurrentIsWatched`, `TypeCorrect`, `NothingIsInFlight`), for any
  attachments, commands, shells and capacity of channels. The invariant adds `Started`: the
  goroutine of an Attach exists only after it returned, so the Return that starts it cannot
  restart a detach under way. `NothingInFlight` rests on counting: as long as no command was
  interrupted, an event in a channel belongs to the call that has the lock and is alone in the
  channel (`Carried`), and the subscribers still to be sent to, those that have the event and
  those that have acknowledged are not more than were counted (`Tallied`).
* **Sessions** (`TypeCorrect`, `ListedSessionsRun`, `OpenSessionsListed`, `NoSilentOrphans`),
  for any clients, identifiers and jobs. The invariant adds `Early` (what a session and its
  goroutine are before the first close), `HolderCloses` (who closes under the lock of the server
  holds it) and `RunCloses` (what a goroutine deletes is still what it found). `OpenAreListed`
  needs them because four kinds of thread close, and two of them delete by identifier. That
  Register finds a place when there is one rests on the well-foundedness of `<`.
* **Plugins** (`Invariant`, `TypeCorrect`, `ReleasedIsLeft`, `SlotIsOwn`, `ListIsTrue`), for any
  runs, commands, names and libraries. A session may use an object that was unloaded since it
  looked it up, so the invariant says of every object a session can name that it was listed
  once and is open or marked (`Known`), who inside a library has its unload lock (`Holds`), and
  what a command that has the controller's lock has done of a load or an unload (`Stages`).
  `ListIsTrue` covers the unload whose release fails: what stays listed without a library is
  what was marked before, and it keeps its name and its slot.
* **ProcessMemory** (`Invariant`, `TypeCorrect`, `SuspendedStays`, `AccessLeavesRunning`), for any
  clients and any queue. `Tracing` says how far the tracer's flag, the kernel and the user's
  wish may be apart at each step of a call on the tracer's thread; between calls they agree.
* **Scan** (`Invariant`, `TypeCorrect`, `WindowIsInPlace`, `ScanIsComplete`), for any number of
  workers, any tables, patterns, ranges and size of a read. Three arguments meet. `FindAllBytes`
  finds every occurrence once (`FindAllBytesLists`). The window of `BufferedReader` is where it
  says it is (`InPlace`): its buffer holds the last bytes read, and until the end of the region
  it has at least as many as the window and at least two, so that a step never empties it
  (`ChunkKeeps`); so the windows seen so far show exactly the occurrences before them
  (`WorkOf`). And each region is fed once and its matches are at one worker, in one result or
  with the collector (`Owned`, `Whole`, `Unique`). A scan that nobody interrupted has an error
  exactly if a reader was refused: there is none before (`NoErrors`), and that of a refusal is not
  lost on its way to the collector (`Refusals`).
  An empty pattern occurs nowhere by definition: for it the theorem only speaks of the scans
  that return, because nothing could be read, and says that they report nothing.

* **DataTypes** (`DataTypesTypes`, `ReadsWhatWasWritten`, `PatternMatchesMemory`,
  `InstancesAreAdjacent`), for any users, lines, maps, widths, types and number of values of a
  byte. `TypesInv` traces every byte to the value it is a byte of (`Traced`), also inside what a
  `readm` has collected while others wrote, and says what a job under way is (`Running`). Then
  `RoundTrip` is a fact about the codecs: the digits of a number in either order make up the
  number again (`DigitsRoundTrip`), the units of a wide string the string (`UnitsRoundTrip`), so
  decoding inverts encoding wherever the reader's order is the type's (`DecodeEncoded`);
  `PatternEncoded` says the same of the third translation. The types in which the orders differ
  are excepted in `RoundTrip` itself, and are the finding of section 5. `Adjoining` says where
  the next access of a job is in terms of the one before, whatever the memory holds by then.
* **Regions** (`LookupsAreRight`, `MapsAreLookedUp`), for every table of regions in the order of
  addresses, of any length: the bisection ends at the first region that ends above the address
  (an invariant of its halvings and a bound on how many there are), and the object of a file
  spans the regions of that file, because each step of building the table widens the one object
  there is (`HasObject`, `OnePerFile`, `Spans`).
* **CommandLine** (`RequirementsMet`, `NamesAgree`; `RequirementsAreGiven` and `FlagsMeanTheSame`
  for the lines of the run), for every command that is `WellDeclared`, with subcommands that
  are, and every line of any length. What an argument does is one of a few effects (`ArgEffect`); what is parsed after
  k arguments has an invariant of each kind. For required flags it is that every name given so far
  is that of an argument in the place of a flag (`GivenByLine`), for positional ones that those
  set so far have a value made of words of the line (`Filling`). That holds of each call on the
  way down to a subcommand, each of a declared command (`CallsOf`), and the outcome belongs to
  the last of them (`OutcomeBeyond`). For the two names it relates two lines: they agree on
  everything but on which of its names a flag was given by (`Alike`). Both names of a flag
  lead to the same flag because `FlagSetIs` says what registration leaves, whatever the order. A
  subcommand gets fewer arguments than its parent (`FewerArguments`), so the descent ends
  (`CallsEnd`) and what a line means is decided by its first parse (`SameFirstCall`).

Induction over data. The induction theorems of the library take an operator as a parameter,
which the provers cannot instantiate. `LeastNatural` does without: every nonempty set of natural
numbers has a least element, proved from the well-foundedness of the strict subset order on
finite sets. `Counting` is the induction that follows from it, over the steps of a loop. It shows
that a recursive function has a solution (`TurnsDefined`, `ParsedDefined`, `BisectionsDefined` and
their like) and then what it computes. A proof needs no operator for that, only a set of
numbers for which the claim holds; so no module here declares a RECURSIVE operator.

The type invariants, `ParityDecided`, `Contiguous` and `LockHeld` are only proved: a run on a
small instance would show less.

Only model-checked: all liveness properties (`StartReturns`, `DialsAnswered`,
`CloseTakesEffect`, `Quiesces`, `WaitsEnd`, `CallsReturn`, `ExitDetaches`, `ClosesFinish`,
`CancelledRunsEnd`, `CommandsReturn`, `SettledIsShown`, `ScanEnds`), which the provers do not
reach. That the usage of a command lists all its flags (`UsageAssumption`) is evaluated for the
commands of memshonk; it depends on the order of their names and is no law of `LongArgsUsage`.

## 5. Disagreements of code and documents

`data_order` shows one: `doUint32` and its like compare the type with `uint16beDataType`
(`commands/read.go:463`, 521, 579, 637), so that `readm` shows big endian numbers of 32 and
64 bits with their bytes reversed, while `writem` and `scan` honour the order that
`commands/help.go:146` describes. `RoundTrip` holds for all other types.

More of them are stated as properties of the modules, each marked in its comment as one that
the code does not keep. Put in place of the properties of the cfg named here, TLC shows how:

* `LoopEndsOrderly`, `ConnMuxDials.cfg` (`connmux.go:333`): a refused dial stays in the dialing
  map with its channel closed; the cleanup of the loop closes it again and the process panics.
* `CloseTakesEffect`, `ConnMuxStream.cfg` with `PipeCap = 1` (`connmux.go:515`): the loop writes
  without a deadline from the goroutine that must also read; two loops can block in a write,
  and then Close does not return.
* `AutoDetachesOwn`, `Attach.cfg` (`progctl.go:244`): the goroutine that an Attach leaves
  detaches whatever is attached when it gets the lock, even the process of a later Attach.
* `DetachReturns`, `AttachLive.cfg` (`events.go:109`): `SendAndWait` waits for the
  acknowledgement of a shell that has left, with the locks of `Ctl` and of the group held.
* `DistinctJids`, `Sessions.cfg` with `Jobs = {j1, j2}` and `MaxJid = 2` (`jobsctl.go:72`): the
  index of the range over `jids[1:]` is used on `jids`; every job of a session is job 1.
* `UnloadEnds`, `Plugins.cfg` (`libplugin.go:287`): a run takes the unload lock again to free
  its result; behind a waiting unload it cannot, and the unload waits for the run.
* `ListedAreOpen`, `Plugins.cfg` (`libctl.go:304`): an unload whose release of the library fails
  returns before it deregisters; the plugin stays listed with its library gone, its name
  cannot be loaded again, and later unloads say that it was unloaded already.
* `NeverCrashes`, `Scan.cfg` (`find.go:150`): an empty pattern is found behind the last byte
  too, and the search then slices past the end of the data; a worker panics. Neither the
  command line nor `ParsePattern` refuses an empty argument.
* `CutShortIsError`, `Scan.cfg` (`scan.go:361`): a scan that is interrupted while no worker is
  about to take up a region returns what it has without an error.
* `ModeHasBackend`, `ProcessMemory.cfg` (`process_unix.go:88`): `SetMemoryMode` stores the mode
  before it opens the file, so that after a failure the next access finds none.

Five more steps are part of the models and have no property: `DialContext` does not look at its
context once the loop has the call (`connmux.go:158`); `Shell.Run` reads the prompt's state
before it subscribes (`shell.go:112`); `Shell.Close` calls a function that is nil until
`Run` sets it (`shell.go:100`; `Sessions` has the variable `crashed` for it, and its liveness
properties are about a daemon that has not crashed); a watcher forgets a change that met a
full channel (`watcher.go:156`; `SettledIsShown` speaks of rows for which none was dropped);
and `plugin ls` lists the plugin of name "ls", because the parent's positional argument shares
its variable (`commands/plugin.go:44`).

## 6. What is not modelled

* Write deadlines of `muxChild`; the wrap of `nextID` after 2^31 dials.
* In `Session`: signals and window sizes from the client. In `Server`: the messages of the
  client's handshake, which are one step that is accepted or refused. The client itself opens
  its connections in a row and then copies bytes, which `ConnMux` has from the other side.
* In `ProcessMemory`: several cells of memory, and a second process; the release of what an
  attachment held when a re-attach replaces it. In `Plugins`: what is printed about a plugin,
  and debugging of plugins.
* The stored outputs of `prev`; `flagsctl`, which nothing calls yet; the ini files.
* The formats of input and output of `readm`, `writem` and `vmmap`, the text of a pattern and
  of a pointer, completion, readline, the interpreter of the shell language.
* In `Plugins` the limit of purego on the number of callbacks, at which it panics; a new slot
  never fails otherwise. In `Scan` the contents of a region do not change during a search, also
  when others attach again.
* Formats of executables, FreeBSD's memory maps, system calls of Windows and FreeBSD, the
  loader, and the framing of messages in `cstlv`: in `ConnMux` a message is read as a whole.

## 7. Plan

Done: connmux, muxChild, attach, sessions and jobs, plugins, memory access with tracer and
watchers, scan, regions and pointers, command lines and data types; every safety property of
every run and both refinements are proved. Still open:

1. A module for `CommandStorage` (the stored outputs of `prev`) and one for the framing of
   `cstlv` with lengths modulo 2^w.
2. `ResolvePointerChain` against a definition of its own: today the runs and `InstancesAdjoin`
   only say that the place it yields is kept.
3. The liveness properties on larger instances; they are out of the provers' reach.
