------------------------------ MODULE Sessions ------------------------------
(***************************************************************************)
(* The sessions of the daemon and their jobs: sessiond.Server,             *)
(* sessiond.Session and jobsctl.Ctl, with the part of shell.Shell and of   *)
(* the commands that starts and ends them.                                 *)
(*                                                                         *)
(* Server.rwMu is held while a client is accepted, and while a session is  *)
(* removed and closed.  Session.Close runs once: it cancels the context,   *)
(* waits up to two seconds for the jobs with the lock of jobsctl held,     *)
(* cancels the shell and tells the client.  Whoever else closes the same   *)
(* session waits for the first.  Four kinds of goroutine do it:            *)
(*   <<"run", s>>   the goroutine of newSession, when Shell.Run returns    *)
(*   <<"bye", s>>   the client's goodbye, or the quit command              *)
(*   <<"job", j>>   the command `session rm`, run as job j                 *)
(*   <<"stop", 0>>  Server.Close                                           *)
(***************************************************************************)
EXTENDS Naturals, FiniteSets

CONSTANTS
  Clients,  \* a session per client that connects
  Ids,      \* session identifiers that clients ask for
  Jobs,     \* the jobs of all sessions
  MaxJid,   \* the largest job identifier: 99999 in the code
  None      \* no session, no thread, no job

ASSUME NoneAssumption == None \notin Clients \cup Ids \cup Jobs
ASSUME MaxJidAssumption == MaxJid \in Nat \ {0}

Threads == ({"run", "bye"} \X Clients) \cup ({"job"} \X Jobs) \cup {<<"stop", 0>>}

ASSUME NoneThreadAssumption == None \notin Threads

VARIABLES
  lock,      \* who holds Server.rwMu for longer than a lookup
  sessions,  \* Server.sessions
  listening, \* the listener is open
  id,        \* SessionInfo.ID
  shell,     \* a connection, and what Shell.Run does with it
  phase,     \* how far Session.Close is
  closer,    \* who runs it
  late,      \* sessions whose jobs did not end within two seconds
  pc,        \* how far a thread is
  todo,      \* sessions a thread has still to close
  job,       \* the jobs, and the one `jobs rm` waits for
  cancelled, \* jobs whose own context is cancelled
  jids,      \* jobsctl.Ctl.jids
  crashed    \* a call of a nil function has ended the daemon

srvVars == <<lock, sessions, listening, id, crashed>>
closeVars == <<shell, phase, closer, late>>
jobVars == <<job, cancelled, jids>>
vars == <<lock, sessions, listening, id, crashed, shell, phase, closer, late,
          pc, todo, job, cancelled, jids>>

Kinds == {"work", "jobs rm", "session rm"}
Job == [st : {"off", "run", "exited", "gone"}, in : Clients \cup {None},
        jid : 0 .. MaxJid, kind : Kinds, wait : Jobs \cup {None}]

TypeOK ==
  /\ lock \in Threads \cup {None}
  /\ sessions \in [Ids -> Clients \cup {None}]
  /\ listening \in BOOLEAN
  /\ id \in [Clients -> Ids \cup {None}]
  /\ shell \in [Clients -> {"none", "conn", "start", "run", "ended"}]
  /\ phase \in [Clients -> {"open", "shutdown", "shell", "reply", "closed"}]
  /\ closer \in [Clients -> Threads \cup {None}]
  /\ late \in SUBSET Clients
  /\ pc \in [Threads -> {"idle", "want", "close", "done"}]
  /\ todo \in [Threads -> SUBSET Clients]
  /\ job \in [Jobs -> Job]
  /\ cancelled \in SUBSET Jobs
  /\ jids \in [Clients -> [0 .. MaxJid -> BOOLEAN]]
  /\ crashed \in BOOLEAN

Init ==
  /\ lock = None
  /\ sessions = [i \in Ids |-> None]
  /\ listening = TRUE
  /\ id = [s \in Clients |-> None]
  /\ shell = [s \in Clients |-> "none"]
  /\ phase = [s \in Clients |-> "open"]
  /\ closer = [s \in Clients |-> None]
  /\ late = {}
  /\ pc = [t \in Threads |-> "idle"]
  /\ todo = [t \in Threads |-> {}]
  /\ job = [j \in Jobs |-> [st |-> "off", in |-> None, jid |-> 0, kind |-> "work", wait |-> None]]
  /\ cancelled = {}
  /\ jids = [s \in Clients |-> [n \in 0 .. MaxJid |-> FALSE]]
  /\ crashed = FALSE

-----------------------------------------------------------------------------
(* Server: accepting clients.                                              *)

\* The loop has a connection and waits for the lock, one at a time.
Connect(s) ==
  /\ listening
  /\ shell[s] = "none"
  /\ \A r \in Clients : shell[r] # "conn"
  /\ shell' = [shell EXCEPT ![s] = "conn"]
  /\ UNCHANGED <<srvVars, phase, closer, late, pc, todo, jobVars>>

\* Fault: newSession replaces a session with the same identifier.
FreeAlways(i) == TRUE

Free(i) == sessions[i] = None

\* newSession: the identifier is free; Shell.Run starts on its own goroutine.
Accept(s, i) ==
  /\ shell[s] = "conn"
  /\ lock = None
  /\ Free(i)
  /\ sessions' = [sessions EXCEPT ![i] = s]
  /\ id' = [id EXCEPT ![s] = i]
  /\ shell' = [shell EXCEPT ![s] = "start"]
  /\ UNCHANGED <<lock, listening, crashed, phase, closer, late, pc, todo, jobVars>>

\* The handshake fails or takes a second, the identifier is in use, or the
\* shell cannot be made.
Refuse(s) ==
  /\ shell[s] = "conn"
  /\ lock = None
  /\ shell' = [shell EXCEPT ![s] = "ended"]
  /\ pc' = [pc EXCEPT ![<<"run", s>>] = "done"]
  /\ UNCHANGED <<srvVars, phase, closer, late, todo, jobVars>>

-----------------------------------------------------------------------------
(* Server: RemoveSession and Close.                                        *)

\* A thread closes one session after the other.
Closing(t) == \E s \in Clients : closer[s] = t /\ phase[s] # "closed"

\* Take the lock and see what there is to close.
Remove(t, i) ==
  /\ lock = None
  /\ IF sessions[i] = None
     THEN /\ pc' = [pc EXCEPT ![t] = "done"]
          /\ UNCHANGED <<lock, todo>>
     ELSE /\ lock' = t
          /\ pc' = [pc EXCEPT ![t] = "close"]
          /\ todo' = [todo EXCEPT ![t] = {sessions[i]}]
  /\ UNCHANGED <<sessions, listening, id, crashed, closeVars, jobVars>>

\* Shell.Run has returned.
RunRemoves(s) == pc[<<"run", s>>] = "want" /\ Remove(<<"run", s>>, id[s])

\* `session rm`; an identifier that is not there is an error of the command.
JobRemoves(j, i) ==
  /\ job[j].kind = "session rm"
  /\ job[j].st = "run"
  /\ pc[<<"job", j>>] = "idle"
  /\ Remove(<<"job", j>>, i)

\* Server.Close, for `daemon` or a signal.
Stop ==
  /\ lock = None
  /\ pc[<<"stop", 0>>] = "idle"
  /\ lock' = <<"stop", 0>>
  /\ listening' = FALSE
  /\ pc' = [pc EXCEPT ![<<"stop", 0>>] = "close"]
  /\ todo' = [todo EXCEPT ![<<"stop", 0>>] = {s \in Clients : \E i \in Ids : sessions[i] = s}]
  /\ UNCHANGED <<sessions, id, crashed, closeVars, jobVars>>

\* Goodbye and quit close the session without the lock of the server.
Goodbye(s) ==
  /\ shell[s] \in {"start", "run"}
  /\ pc[<<"bye", s>>] = "idle"
  /\ pc' = [pc EXCEPT ![<<"bye", s>>] = "close"]
  /\ todo' = [todo EXCEPT ![<<"bye", s>>] = {s}]
  /\ UNCHANGED <<srvVars, closeVars, jobVars>>

\* Fault: the session stays in the map.
RemainingAll(t) == sessions

\* RemoveSession deletes what it has closed, Server.Close deletes nothing.
Remaining(t) ==
  IF t[1] \in {"run", "job"}
  THEN [i \in Ids |-> IF sessions[i] \in todo[t] THEN None ELSE sessions[i]]
  ELSE sessions

\* All is closed; the lock is released.
Return(t) ==
  /\ pc[t] = "close"
  /\ \A s \in todo[t] : phase[s] = "closed"
  /\ sessions' = Remaining(t)
  /\ lock' = IF lock = t THEN None ELSE lock
  /\ pc' = [pc EXCEPT ![t] = "done"]
  /\ todo' = [todo EXCEPT ![t] = {}]
  /\ UNCHANGED <<listening, id, crashed, closeVars, jobVars>>

-----------------------------------------------------------------------------
(* Session.Close.                                                          *)

\* The Once lets the first thread in; Shutdown takes the lock of jobsctl.
StartClose(t, s) ==
  /\ pc[t] = "close"
  /\ s \in todo[t]
  /\ phase[s] = "open"
  /\ ~Closing(t)
  /\ phase' = [phase EXCEPT ![s] = "shutdown"]
  /\ closer' = [closer EXCEPT ![s] = t]
  /\ UNCHANGED <<srvVars, shell, late, pc, todo, jobVars>>

\* Running jobs of a session.
Running(s) == {j \in Jobs : job[j].in = s /\ job[j].st = "run"}

\* Fault: Shutdown does not look at its context.
ShutdownEndsPatient(s) == Running(s) = {} /\ UNCHANGED late

\* Every job has exited, or the two seconds are over.
ShutdownEnds(s) == late' = IF Running(s) = {} THEN late ELSE late \cup {s}

Shutdown(s) ==
  /\ phase[s] = "shutdown"
  /\ ShutdownEnds(s)
  /\ phase' = [phase EXCEPT ![s] = "shell"]
  /\ UNCHANGED <<srvVars, shell, closer, pc, todo, jobVars>>

\* Shell.Close calls the function that Run sets first.
CloseShell(s) ==
  /\ phase[s] = "shell"
  /\ phase' = [phase EXCEPT ![s] = "reply"]
  /\ crashed' = (shell[s] = "start")
  /\ UNCHANGED <<lock, sessions, listening, id, shell, closer, late, pc, todo, jobVars>>

\* The client is told within a second; the connection is closed.
Reply(s) ==
  /\ phase[s] = "reply"
  /\ phase' = [phase EXCEPT ![s] = "closed"]
  /\ UNCHANGED <<srvVars, shell, closer, late, pc, todo, jobVars>>

-----------------------------------------------------------------------------
(* Shell.Run, the commands and jobsctl.                                    *)

Run(s) ==
  /\ shell[s] = "start"
  /\ shell' = [shell EXCEPT ![s] = "run"]
  /\ UNCHANGED <<srvVars, phase, closer, late, pc, todo, jobVars>>

\* exit, the end of input, or the context; background jobs go on.
RunReturns(s) ==
  /\ shell[s] = "run"
  /\ shell' = [shell EXCEPT ![s] = "ended"]
  /\ pc' = [pc EXCEPT ![<<"run", s>>] = "want"]
  /\ UNCHANGED <<srvVars, phase, closer, late, todo, jobVars>>

\* The range over jids[1:] counts from 0: place n of the loop is jids[n + 1].
FirstFree(s) ==
  CHOOSE n \in 0 .. MaxJid - 1 : ~jids[s][n + 1] /\ \A m \in 0 .. n - 1 : jids[s][m + 1]

\* Fault: Register does not look at stopped.
AcceptsJobsAlways(s) == phase[s] # "shutdown"

AcceptsJobs(s) == phase[s] = "open"

\* A command line starts a job: the lock of jobsctl is free and not stopped.
Register(s, j, kind) ==
  /\ shell[s] = "run"
  /\ AcceptsJobs(s)
  /\ job[j].st = "off"
  /\ \E n \in 1 .. MaxJid : ~jids[s][n]
  /\ LET n == FirstFree(s)
     IN /\ jids' = [jids EXCEPT ![s][n] = TRUE]
        /\ job' = [job EXCEPT ![j] = [st |-> "run", in |-> s, jid |-> n + 1,
                                      kind |-> kind, wait |-> None]]
  /\ UNCHANGED <<srvVars, closeVars, pc, todo, cancelled>>

\* `jobs rm`: Lookup finds a job with that identifier; CancelSync cancels it.
JobsRm(j, k) ==
  LET s == job[j].in
  IN /\ job[j].kind = "jobs rm" /\ job[j].st = "run" /\ job[j].wait = None
     /\ phase[s] # "shutdown"
     /\ job[k].in = s /\ job[k].st \in {"run", "exited"}
     /\ cancelled' = cancelled \cup {k}
     /\ job' = [job EXCEPT ![j].wait = k]
     /\ UNCHANGED <<srvVars, closeVars, pc, todo, jids>>

\* The context of a job: its own is cancelled or its session is closed.
ContextDone(j) == j \in cancelled \/ phase[job[j].in] # "open"

\* What a command waits for before it returns.
MayFinish(j) ==
  CASE job[j].kind = "session rm" -> pc[<<"job", j>>] \in {"idle", "done"}
    [] job[j].kind = "jobs rm" ->
         job[j].wait # None /\ ~ContextDone(j) => job[job[j].wait].st # "run"
    [] OTHER -> TRUE

\* SetFinished closes the channel exited before it takes the lock of jobsctl.
JobExits(j) ==
  /\ job[j].st = "run"
  /\ MayFinish(j)
  /\ job' = [job EXCEPT ![j].st = "exited"]
  /\ UNCHANGED <<srvVars, closeVars, pc, todo, cancelled, jids>>

\* deregister does nothing once Shutdown has run.
Deregister(j) ==
  LET s == job[j].in
  IN /\ job[j].st = "exited"
     /\ phase[s] # "shutdown"
     /\ job' = [job EXCEPT ![j].st = "gone"]
     /\ jids' = IF phase[s] = "open" THEN [jids EXCEPT ![s][job[j].jid] = FALSE] ELSE jids
     /\ UNCHANGED <<srvVars, closeVars, pc, todo, cancelled>>

-----------------------------------------------------------------------------

CloseStep(s) == Shutdown(s) \/ CloseShell(s) \/ Reply(s)

ThreadStep(t) == Return(t) \/ \E s \in Clients : StartClose(t, s)

Next ==
  /\ ~crashed
  /\ \/ \E s \in Clients :
          \/ Connect(s) \/ Refuse(s) \/ Goodbye(s) \/ Run(s) \/ RunReturns(s)
          \/ RunRemoves(s) \/ CloseStep(s)
          \/ \E i \in Ids : Accept(s, i)
          \/ \E j \in Jobs, kind \in Kinds : Register(s, j, kind)
     \/ \E j \in Jobs :
          \/ JobExits(j) \/ Deregister(j)
          \/ \E i \in Ids : JobRemoves(j, i)
          \/ \E k \in Jobs : JobsRm(j, k)
     \/ \E t \in Threads : ThreadStep(t)
     \/ Stop

Spec == Init /\ [][Next]_vars

\* What the daemon does by itself, once a client or a user has begun it.
DaemonStep ==
  \/ \E t \in Threads : ThreadStep(t)
  \/ \E s \in Clients : CloseStep(s) \/ Run(s) \/ RunRemoves(s)
  \/ \E j \in Jobs : Deregister(j)

\* The goroutines of the daemon run and its time-outs pass.  No step is ever
\* repeated, so it is enough that one of them is taken while there is one.
\* Nothing is assumed of clients and users, and a command need not look at its
\* context.
Fairness == WF_vars(~crashed /\ DaemonStep)

FairSpec == Spec /\ Fairness

-----------------------------------------------------------------------------
(* Properties.                                                             *)

\* Every session in the map has a goroutine that will remove it, under its
\* own identifier (newSession, RemoveSession).
SessionsAreRun ==
  \A i \in Ids : sessions[i] # None =>
    /\ id[sessions[i]] = i
    /\ pc[<<"run", sessions[i]>>] # "done"

\* A session is in the map until it is closed: no other session that asks for
\* its identifier, and nobody who removes one, takes its place before
\* (newSession, RemoveSession).
OpenAreListed ==
  \A s \in Clients :
    id[s] # None /\ phase[s] # "closed" => sessions[id[s]] = s

\* When Shutdown has ended, a job of the session runs on only if it was given
\* its two seconds; none is registered behind its back (jobsctl.Ctl).
OrphansOnlyLate ==
  \A s \in Clients :
    phase[s] \in {"shell", "reply", "closed"} /\ s \notin late => Running(s) = {}

\* Whoever removes or closes sessions comes back, even if a job of a session
\* waits for the lock under which it is closed, or closes its own session.
ClosersReturn ==
  \A t \in Threads : (pc[t] = "close") ~> (pc[t] = "done" \/ crashed)

\* A session whose shell has returned leaves the map (newSession).
EndedLeaves ==
  \A s \in Clients :
    (shell[s] = "ended") ~> ((\A i \in Ids : sessions[i] # s) \/ crashed)

\* What is closed ends: its closers return, and its session leaves the map.
ClosesFinish == ClosersReturn /\ EndedLeaves

\* The jobs of a session that a user can name have names of their own.  The
\* code does not keep this: Register marks the place before the one it found.
DistinctJids ==
  \A j, k \in Jobs :
    j # k /\ job[j].in = job[k].in /\ job[j].st = "run" /\ job[k].st = "run"
      => job[j].jid # job[k].jid
=============================================================================
