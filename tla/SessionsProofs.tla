--------------------------- MODULE SessionsProofs ---------------------------
(***************************************************************************)
(* Proofs about Sessions, for any number of clients, identifiers and jobs. *)
(*                                                                         *)
(* That the map and the sessions agree is inductive only together with     *)
(* what the goroutine of a session removes: it holds the lock of the       *)
(* server from the moment it looks its identifier up (HolderCloses), so    *)
(* that what it deletes is still what it found (RunCloses).                *)
(***************************************************************************)
EXTENDS Sessions, TLAPS, WellFoundedInduction

\* How far a session and its goroutine are, before the first close.
Early ==
  \A s \in Clients :
    /\ shell[s] \in {"none", "conn"} => id[s] = None
    /\ shell[s] \in {"start", "run"} => id[s] \in Ids
    /\ shell[s] # "ended" => pc[<<"run", s>>] = "idle"
    /\ pc[<<"run", s>>] \in {"want", "close"} => id[s] \in Ids

\* Whoever closes sessions under the lock of the server holds it.
HolderCloses ==
  \A t \in Threads : t[1] # "bye" /\ pc[t] = "close" => lock = t

\* The goroutine of a session closes what the map has under its identifier.
RunCloses ==
  \A s \in Clients :
    pc[<<"run", s>>] = "close" =>
      /\ sessions[id[s]] # None
      /\ todo[<<"run", s>>] = {sessions[id[s]]}

IInv ==
  /\ TypeOK
  /\ Early
  /\ HolderCloses
  /\ RunCloses
  /\ SessionsAreRun
  /\ OpenAreListed
  /\ OrphansOnlyLate

\* Register finds a place whenever there is one: what the loop of the code
\* looks at is free, and the identifier it yields is in range.
LEMMA FirstFreeIsFree ==
  ASSUME NEW s \in Clients, \E n \in 1 .. MaxJid : ~jids[s][n]
  PROVE  /\ FirstFree(s) \in 0 .. MaxJid - 1
         /\ ~jids[s][FirstFree(s) + 1]
<1> DEFINE Places == {n \in 0 .. MaxJid - 1 : ~jids[s][n + 1]}
<1>1. PICK k \in 1 .. MaxJid : ~jids[s][k]
  OBVIOUS
<1>2. k - 1 \in Places
  <2>1. k - 1 \in 0 .. MaxJid - 1 /\ (k - 1) + 1 = k
    BY MaxJidAssumption
  <2> QED
    BY <1>1, <2>1
<1>3. Places \subseteq Nat /\ Places # {}
  <2>1. 0 .. MaxJid - 1 \subseteq Nat
    BY MaxJidAssumption
  <2>2. Places \subseteq Nat
    BY <2>1
  <2>3. Places # {}
    <3> HIDE DEF Places
    <3> QED
      BY <1>2
  <2> QED
    BY <2>2, <2>3
<1>4. \E n \in Places : \A m \in Places : ~(<<m, n>> \in OpToRel(<, Nat))
  <2> HIDE DEF Places
  <2> QED
    BY <1>3, NatLessThanWellFounded, WFMin, ZenonT(30)
<1>5. PICK n \in Places : \A m \in Places : ~(m < n)
  <2>1. \A m, n \in Nat : m < n => <<m, n>> \in OpToRel(<, Nat)
    BY DEF OpToRel
  <2> HIDE DEF Places
  <2> QED
    BY <1>3, <1>4, <2>1, Zenon
<1>6. n \in 0 .. MaxJid - 1 /\ ~jids[s][n + 1] /\ \A m \in 0 .. n - 1 : jids[s][m + 1]
  BY <1>5, MaxJidAssumption
<1> QED
  BY <1>6 DEF FirstFree

\* The kinds of goroutine that close sessions, and their names.
LEMMA ThreadKinds ==
  /\ <<"stop", 0>> \in Threads
  /\ \A s \in Clients : <<"run", s>> \in Threads /\ <<"bye", s>> \in Threads
  /\ \A j \in Jobs : <<"job", j>> \in Threads
  /\ \A s, r \in Clients : <<"run", s>> = <<"run", r>> => s = r
  BY DEF Threads

\* Before the first client the invariant holds.
LEMMA InitInv == Init => IInv
<1> SUFFICES ASSUME Init PROVE IInv
  OBVIOUS
<1>1. TypeOK
  <2>1. [st |-> "off", in |-> None, jid |-> 0, kind |-> "work", wait |-> None] \in Job
    BY MaxJidAssumption DEF Job, Kinds
  <2>2. job \in [Jobs -> Job]
    BY <2>1 DEF Init
  <2>3. jids \in [Clients -> [0 .. MaxJid -> BOOLEAN]]
    BY DEF Init
  <2> QED
    BY <2>2, <2>3 DEF Init, TypeOK
<1>2. Early /\ HolderCloses /\ RunCloses /\ SessionsAreRun /\ OpenAreListed
  BY ThreadKinds DEF Init, Early, HolderCloses, RunCloses, SessionsAreRun, OpenAreListed
<1>3. OrphansOnlyLate
  BY DEF Init, OrphansOnlyLate
<1> QED
  BY <1>1, <1>2, <1>3 DEF IInv

-----------------------------------------------------------------------------
(* One lemma per group of actions: types.                                  *)

\* Accepting clients keeps the types.
LEMMA AcceptTypes ==
  ASSUME TypeOK, NEW s \in Clients,
         Connect(s) \/ Refuse(s) \/ \E i \in Ids : Accept(s, i)
  PROVE  TypeOK'
<1>1. CASE Connect(s)
  BY <1>1 DEF TypeOK, Connect, srvVars, jobVars
<1>2. CASE Refuse(s)
  BY <1>2, ThreadKinds DEF TypeOK, Refuse, srvVars, jobVars
<1>3. ASSUME NEW i \in Ids, Accept(s, i)
      PROVE  TypeOK'
  BY <1>3 DEF TypeOK, Accept, jobVars
<1> QED
  BY <1>1, <1>2, <1>3

\* Looking up what to close keeps the types.
LEMMA RemoveTypes ==
  ASSUME TypeOK, NEW t \in Threads, NEW i \in Ids, Remove(t, i)
  PROVE  TypeOK'
<1>1. sessions[i] # None => {sessions[i]} \in SUBSET Clients
  BY DEF TypeOK
<1> QED
  BY <1>1 DEF TypeOK, Remove, closeVars, jobVars

\* Server.Close and a goodbye keep the types.
LEMMA StopTypes ==
  ASSUME TypeOK, Stop \/ \E s \in Clients : Goodbye(s)
  PROVE  TypeOK'
<1>1. CASE Stop
  <2> DEFINE all == {s \in Clients : \E i \in Ids : sessions[i] = s}
             t == <<"stop", 0>>
  <2>1. all \in SUBSET Clients /\ t \in Threads
    BY ThreadKinds
  <2>2. /\ todo' = [todo EXCEPT ![t] = all]
        /\ lock' = t
        /\ listening' = FALSE
        /\ pc' = [pc EXCEPT ![t] = "close"]
        /\ UNCHANGED <<sessions, id, crashed, closeVars, jobVars>>
    BY <1>1 DEF Stop
  <2> HIDE DEF all, t
  <2>3. todo' \in [Threads -> SUBSET Clients]
    BY <2>1, <2>2 DEF TypeOK
  <2> QED
    BY <2>1, <2>2, <2>3 DEF TypeOK, closeVars, jobVars
<1>2. ASSUME NEW s \in Clients, Goodbye(s)
      PROVE  TypeOK'
  <2>1. {s} \in SUBSET Clients
    OBVIOUS
  <2>2. todo' \in [Threads -> SUBSET Clients]
    BY <1>2, <2>1, ThreadKinds DEF TypeOK, Goodbye
  <2> QED
    BY <1>2, <2>2, ThreadKinds DEF TypeOK, Goodbye, srvVars, closeVars, jobVars
<1> QED
  BY <1>1, <1>2

\* What is left in the map are sessions.
LEMMA RemainingType ==
  ASSUME TypeOK, NEW t \in Threads
  PROVE  Remaining(t) \in [Ids -> Clients \cup {None}]
  BY DEF TypeOK, Remaining

\* Closing a session keeps the types.
LEMMA CloseTypes ==
  ASSUME TypeOK,
         \/ \E t \in Threads : ThreadStep(t)
         \/ \E s \in Clients : CloseStep(s)
  PROVE  TypeOK'
<1>1. ASSUME NEW t \in Threads, Return(t)
      PROVE  TypeOK'
  BY <1>1, RemainingType DEF TypeOK, Return, closeVars, jobVars
<1>2. ASSUME NEW t \in Threads, NEW s \in Clients, StartClose(t, s)
      PROVE  TypeOK'
  BY <1>2 DEF TypeOK, StartClose, srvVars, jobVars
<1>3. ASSUME NEW s \in Clients, CloseStep(s)
      PROVE  TypeOK'
  <2>1. CASE Shutdown(s)
    BY <2>1 DEF TypeOK, Shutdown, ShutdownEnds, srvVars, jobVars
  <2>2. CASE CloseShell(s)
    BY <2>2 DEF TypeOK, CloseShell, jobVars
  <2>3. CASE Reply(s)
    BY <2>3 DEF TypeOK, Reply, srvVars, jobVars
  <2> QED
    BY <1>3, <2>1, <2>2, <2>3 DEF CloseStep
<1> QED
  BY <1>1, <1>2, <1>3 DEF ThreadStep

\* The shell keeps the types.
LEMMA ShellTypes ==
  ASSUME TypeOK, NEW s \in Clients, Run(s) \/ RunReturns(s)
  PROVE  TypeOK'
<1>1. CASE Run(s)
  BY <1>1 DEF TypeOK, Run, srvVars, jobVars
<1>2. CASE RunReturns(s)
  BY <1>2, ThreadKinds DEF TypeOK, RunReturns, srvVars, jobVars
<1> QED
  BY <1>1, <1>2

\* Register keeps the types: the identifier is one of jobsctl.
LEMMA RegisterTypes ==
  ASSUME TypeOK, NEW s \in Clients, NEW j \in Jobs, NEW kind \in Kinds,
         Register(s, j, kind)
  PROVE  TypeOK'
<1> DEFINE n == FirstFree(s)
<1>1. /\ n \in 0 .. MaxJid /\ n + 1 \in 0 .. MaxJid
  <2>1. n \in 0 .. MaxJid - 1
    BY FirstFreeIsFree DEF Register
  <2> HIDE DEF n
  <2> QED
    BY <2>1, MaxJidAssumption
<1>2. /\ jids' = [jids EXCEPT ![s][n] = TRUE]
      /\ job' = [job EXCEPT ![j] = [st |-> "run", in |-> s, jid |-> n + 1,
                                    kind |-> kind, wait |-> None]]
  BY DEF Register
<1> HIDE DEF n
<1>3. jids' \in [Clients -> [0 .. MaxJid -> BOOLEAN]]
  BY <1>1, <1>2 DEF TypeOK
<1>4. job' \in [Jobs -> Job]
  BY <1>1, <1>2 DEF TypeOK, Job
<1> QED
  BY <1>3, <1>4 DEF TypeOK, Register, srvVars, closeVars

\* The other steps of jobs keep the types.
LEMMA JobTypes ==
  ASSUME TypeOK, NEW j \in Jobs,
         JobExits(j) \/ Deregister(j) \/ \E k \in Jobs : JobsRm(j, k)
  PROVE  TypeOK'
<1>1. job[j] \in Job
  BY DEF TypeOK
<1>2. CASE JobExits(j)
  <2>1. [job[j] EXCEPT !.st = "exited"] \in Job
    BY <1>1 DEF Job
  <2> QED
    BY <1>2, <2>1 DEF TypeOK, JobExits, srvVars, closeVars
<1>3. CASE Deregister(j)
  <2>1. [job[j] EXCEPT !.st = "gone"] \in Job
    BY <1>1 DEF Job
  <2>2. jids' \in [Clients -> [0 .. MaxJid -> BOOLEAN]]
    BY <1>3 DEF TypeOK, Deregister
  <2> QED
    BY <1>3, <2>1, <2>2 DEF TypeOK, Deregister, srvVars, closeVars
<1>4. ASSUME NEW k \in Jobs, JobsRm(j, k)
      PROVE  TypeOK'
  <2>1. [job[j] EXCEPT !.wait = k] \in Job
    BY <1>1 DEF Job
  <2> QED
    BY <1>4, <2>1 DEF TypeOK, JobsRm, srvVars, closeVars
<1> QED
  BY <1>2, <1>3, <1>4

-----------------------------------------------------------------------------
(* One lemma per group of actions: the map and the sessions.               *)

MapInv == Early /\ HolderCloses /\ RunCloses /\ SessionsAreRun /\ OpenAreListed

\* Steps of jobs and of Session.Close do not touch the map, and no session is
\* opened again.
LEMMA QuietMap ==
  ASSUME MapInv, UNCHANGED <<lock, sessions, id, shell, pc, todo>>,
         \A s \in Clients : phase'[s] # "closed" => phase[s] # "closed"
  PROVE  MapInv'
<1>1. Early' /\ HolderCloses' /\ RunCloses' /\ SessionsAreRun'
  BY DEF MapInv, Early, HolderCloses, RunCloses, SessionsAreRun
<1>2. OpenAreListed'
  BY DEF MapInv, OpenAreListed
<1> QED
  BY <1>1, <1>2 DEF MapInv

\* Accepting a client: its session is new, and its identifier was free.
LEMMA AcceptMap ==
  ASSUME TypeOK, MapInv, NEW s \in Clients, NEW i \in Ids, Accept(s, i)
  PROVE  MapInv'
<1>1. /\ shell[s] = "conn" /\ lock = None /\ sessions[i] = None
      /\ sessions' = [sessions EXCEPT ![i] = s]
      /\ id' = [id EXCEPT ![s] = i]
      /\ shell' = [shell EXCEPT ![s] = "start"]
      /\ UNCHANGED <<lock, phase, pc, todo>>
  BY DEF Accept, Free
<1>2. id[s] = None /\ pc[<<"run", s>>] = "idle"
  BY <1>1 DEF MapInv, Early
<1>3. Early'
  BY <1>1, <1>2 DEF TypeOK, MapInv, Early
<1>4. HolderCloses'
  BY <1>1 DEF MapInv, HolderCloses
<1>5. RunCloses'
  BY <1>1, ThreadKinds, NoneThreadAssumption DEF MapInv, HolderCloses, RunCloses
<1>6. SessionsAreRun'
  <2> SUFFICES ASSUME NEW k \in Ids, sessions'[k] # None
               PROVE  id'[sessions'[k]] = k /\ pc'[<<"run", sessions'[k]>>] # "done"
    BY DEF SessionsAreRun
  <2>1. CASE k = i
    BY <1>1, <1>2, <2>1 DEF TypeOK
  <2>2. CASE k # i
    <3>1. sessions'[k] = sessions[k] /\ sessions[k] \in Clients
      BY <1>1, <2>2 DEF TypeOK
    <3>2. id[sessions[k]] = k /\ pc[<<"run", sessions[k]>>] # "done"
      BY <3>1 DEF MapInv, SessionsAreRun
    <3>3. sessions[k] # s
      BY <1>2, <3>2, NoneAssumption
    <3> QED
      BY <1>1, <3>1, <3>2, <3>3 DEF TypeOK
  <2> QED
    BY <2>1, <2>2
<1>7. OpenAreListed'
  <2> SUFFICES ASSUME NEW r \in Clients, id'[r] # None, phase'[r] # "closed"
               PROVE  sessions'[id'[r]] = r
    BY DEF OpenAreListed
  <2>1. CASE r = s
    BY <1>1, <2>1 DEF TypeOK
  <2>2. CASE r # s
    <3>1. id'[r] = id[r] /\ id[r] \in Ids /\ sessions[id[r]] = r
      BY <1>1, <2>2 DEF TypeOK, MapInv, OpenAreListed
    <3>2. id[r] # i
      BY <1>1, <3>1, NoneAssumption
    <3> QED
      BY <1>1, <3>1, <3>2 DEF TypeOK
  <2> QED
    BY <2>1, <2>2
<1> QED
  BY <1>3, <1>4, <1>5, <1>6, <1>7 DEF MapInv

\* One goroutine of a session takes a step, and the others do not.
LEMMA RunThreadStep ==
  ASSUME TypeOK, NEW s \in Clients, NEW v, pc' = [pc EXCEPT ![<<"run", s>>] = v]
  PROVE  /\ pc'[<<"run", s>>] = v
         /\ \A r \in Clients : r # s => pc'[<<"run", r>>] = pc[<<"run", r>>]
<1>1. \A t \in Threads : pc'[t] = IF t = <<"run", s>> THEN v ELSE pc[t]
  <2> DEFINE u == <<"run", s>>
  <2>1. pc' = [pc EXCEPT ![u] = v]
    OBVIOUS
  <2> HIDE DEF u
  <2>2. \A t \in Threads : pc'[t] = IF t = u THEN v ELSE pc[t]
    BY <2>1 DEF TypeOK
  <2> QED
    BY <2>2 DEF u
<1> QED
  BY <1>1, ThreadKinds

\* The map does not change, and no listed session loses its goroutine.
LEMMA StillRun ==
  ASSUME TypeOK, SessionsAreRun, UNCHANGED <<sessions, id>>,
         \A s \in Clients :
           (\E i \in Ids : sessions[i] = s) /\ pc[<<"run", s>>] # "done"
             => pc'[<<"run", s>>] # "done"
  PROVE  SessionsAreRun'
<1> SUFFICES ASSUME NEW i \in Ids, sessions[i] # None
             PROVE  id[sessions[i]] = i /\ pc'[<<"run", sessions[i]>>] # "done"
  BY DEF SessionsAreRun
<1>1. sessions[i] \in Clients
  BY DEF TypeOK
<1>2. id[sessions[i]] = i /\ pc[<<"run", sessions[i]>>] # "done"
  BY DEF SessionsAreRun
<1> QED
  BY <1>1, <1>2

\* A connection that is not accepted has no session.
LEMMA RefuseMap ==
  ASSUME TypeOK, MapInv, NEW s \in Clients, Connect(s) \/ Refuse(s)
  PROVE  MapInv'
<1>1. /\ shell[s] \in {"none", "conn"}
      /\ \/ shell' = [shell EXCEPT ![s] = "conn"] /\ pc' = pc
         \/ /\ shell' = [shell EXCEPT ![s] = "ended"]
            /\ pc' = [pc EXCEPT ![<<"run", s>>] = "done"]
      /\ UNCHANGED <<lock, sessions, id, phase, todo>>
  BY DEF Connect, Refuse, srvVars
<1>2. id[s] = None /\ pc[<<"run", s>>] = "idle"
  BY <1>1 DEF MapInv, Early
<1>0. /\ \A r \in Clients : r # s => pc'[<<"run", r>>] = pc[<<"run", r>>]
      /\ pc'[<<"run", s>>] \in {"idle", "done"}
      /\ shell'[s] # "ended" => pc'[<<"run", s>>] = pc[<<"run", s>>]
  <2>1. CASE pc' = pc
    BY <1>2, <2>1
  <2>2. CASE /\ shell' = [shell EXCEPT ![s] = "ended"]
             /\ pc' = [pc EXCEPT ![<<"run", s>>] = "done"]
    BY <2>2, RunThreadStep DEF TypeOK
  <2> QED
    BY <1>1, <2>1, <2>2
<1>3. Early'
  <2> SUFFICES ASSUME NEW r \in Clients
               PROVE  /\ shell'[r] \in {"none", "conn"} => id'[r] = None
                      /\ shell'[r] \in {"start", "run"} => id'[r] \in Ids
                      /\ shell'[r] # "ended" => pc'[<<"run", r>>] = "idle"
                      /\ pc'[<<"run", r>>] \in {"want", "close"} => id'[r] \in Ids
    BY DEF Early
  <2>1. CASE r = s
    BY <1>1, <1>2, <1>0, <2>1 DEF TypeOK
  <2>2. CASE r # s
    BY <1>1, <1>0, <2>2 DEF TypeOK, MapInv, Early
  <2> QED
    BY <2>1, <2>2
<1>4. HolderCloses' /\ RunCloses'
  BY <1>1, ThreadKinds DEF TypeOK, MapInv, HolderCloses, RunCloses
<1>5. SessionsAreRun'
  <2>1. \A i \in Ids : sessions[i] # s
    BY <1>2, NoneAssumption DEF MapInv, SessionsAreRun
  <2> QED
    BY <1>1, <1>0, <2>1, StillRun DEF MapInv
<1>6. OpenAreListed'
  BY <1>1 DEF MapInv, OpenAreListed
<1> QED
  BY <1>3, <1>4, <1>5, <1>6 DEF MapInv

\* The shell starts, or returns and leaves its goroutine to remove the session.
LEMMA ShellMap ==
  ASSUME TypeOK, MapInv, NEW s \in Clients, Run(s) \/ RunReturns(s)
  PROVE  MapInv'
<1>1. /\ shell[s] \in {"start", "run"}
      /\ \/ shell' = [shell EXCEPT ![s] = "run"] /\ pc' = pc
         \/ /\ shell' = [shell EXCEPT ![s] = "ended"]
            /\ pc' = [pc EXCEPT ![<<"run", s>>] = "want"]
      /\ UNCHANGED <<lock, sessions, id, phase, todo>>
  BY DEF Run, RunReturns, srvVars
<1>2. id[s] \in Ids /\ pc[<<"run", s>>] = "idle"
  BY <1>1 DEF MapInv, Early
<1>0. /\ \A r \in Clients : r # s => pc'[<<"run", r>>] = pc[<<"run", r>>]
      /\ pc'[<<"run", s>>] \in {"idle", "want"}
      /\ shell'[s] # "ended" => pc'[<<"run", s>>] = pc[<<"run", s>>]
  <2>1. CASE pc' = pc
    BY <1>2, <2>1
  <2>2. CASE /\ shell' = [shell EXCEPT ![s] = "ended"]
             /\ pc' = [pc EXCEPT ![<<"run", s>>] = "want"]
    BY <2>2, RunThreadStep DEF TypeOK
  <2> QED
    BY <1>1, <2>1, <2>2
<1>3. Early'
  <2> SUFFICES ASSUME NEW r \in Clients
               PROVE  /\ shell'[r] \in {"none", "conn"} => id'[r] = None
                      /\ shell'[r] \in {"start", "run"} => id'[r] \in Ids
                      /\ shell'[r] # "ended" => pc'[<<"run", r>>] = "idle"
                      /\ pc'[<<"run", r>>] \in {"want", "close"} => id'[r] \in Ids
    BY DEF Early
  <2>1. CASE r = s
    BY <1>1, <1>2, <1>0, <2>1 DEF TypeOK
  <2>2. CASE r # s
    BY <1>1, <1>0, <2>2 DEF TypeOK, MapInv, Early
  <2> QED
    BY <2>1, <2>2
<1>4. HolderCloses' /\ RunCloses'
  BY <1>1, ThreadKinds DEF TypeOK, MapInv, HolderCloses, RunCloses
<1>5. SessionsAreRun'
  BY <1>1, <1>0, StillRun DEF MapInv
<1>6. OpenAreListed'
  BY <1>1 DEF MapInv, OpenAreListed
<1> QED
  BY <1>3, <1>4, <1>5, <1>6 DEF MapInv

\* A session's own goroutine takes the lock for its identifier, or finds that
\* the map has nothing under it and ends.
LEMMA RunRemovesMap ==
  ASSUME TypeOK, MapInv, NEW s \in Clients, RunRemoves(s)
  PROVE  MapInv'
<1> DEFINE t == <<"run", s>>
<1>1. /\ pc[t] = "want" /\ lock = None /\ t \in Threads
      /\ \/ sessions[id[s]] = None /\ pc' = [pc EXCEPT ![t] = "done"]
            /\ UNCHANGED <<lock, todo>>
         \/ /\ sessions[id[s]] # None
            /\ lock' = t
            /\ pc' = [pc EXCEPT ![t] = "close"]
            /\ todo' = [todo EXCEPT ![t] = {sessions[id[s]]}]
      /\ UNCHANGED <<sessions, id, shell, phase>>
  BY ThreadKinds DEF RunRemoves, Remove, closeVars
<1>2. shell[s] = "ended" /\ id[s] \in Ids
  BY <1>1 DEF MapInv, Early
<1>3. \A u \in Threads : u[1] # "bye" => pc[u] # "close"
  BY <1>1, NoneThreadAssumption DEF MapInv, HolderCloses
<1>4. Early'
  BY <1>1, <1>2, ThreadKinds DEF TypeOK, MapInv, Early
<1>5. HolderCloses'
  BY <1>1, <1>3 DEF TypeOK, HolderCloses
<1>6. RunCloses'
  <2> SUFFICES ASSUME NEW r \in Clients, pc'[<<"run", r>>] = "close"
               PROVE  /\ sessions'[id'[r]] # None
                      /\ todo'[<<"run", r>>] = {sessions'[id'[r]]}
    BY DEF RunCloses
  <2>1. r = s
    BY <1>1, <1>3, RunThreadStep, ThreadKinds
  <2>2. sessions[id[s]] # None /\ todo' = [todo EXCEPT ![t] = {sessions[id[s]]}]
    BY <1>1, <2>1, RunThreadStep
  <2>3. todo'[t] = {sessions[id[s]]}
    <3> HIDE DEF t
    <3> QED
      BY <1>1, <2>2 DEF TypeOK
  <2> QED
    BY <1>1, <2>1, <2>2, <2>3
<1>7. SessionsAreRun'
  <2>1. \A r \in Clients : r # s => pc'[<<"run", r>>] = pc[<<"run", r>>]
    BY <1>1, RunThreadStep
  <2>2. sessions[id[s]] # None => pc'[t] = "close"
    BY <1>1, RunThreadStep
  <2>3. (\E i \in Ids : sessions[i] = s) => sessions[id[s]] # None
    BY NoneAssumption DEF MapInv, SessionsAreRun
  <2> QED
    BY <1>1, <2>1, <2>2, <2>3, StillRun DEF MapInv
<1>8. OpenAreListed'
  BY <1>1 DEF MapInv, OpenAreListed
<1> QED
  BY <1>4, <1>5, <1>6, <1>7, <1>8 DEF MapInv

\* `session rm` and Server.Close take the lock and leave the map alone.
LEMMA OtherClosersMap ==
  ASSUME TypeOK, MapInv, NEW t \in Threads, t[1] \in {"job", "stop", "bye"},
         pc' = [pc EXCEPT ![t] = "done"] \/ pc' = [pc EXCEPT ![t] = "close"],
         \/ UNCHANGED lock /\ (t[1] = "bye" \/ pc'[t] = "done")
         \/ lock = None /\ lock' = t,
         \E c : todo' = [todo EXCEPT ![t] = c],
         UNCHANGED <<sessions, id, shell, phase>>
  PROVE  MapInv'
<1>1. \A s \in Clients : <<"run", s>> # t
  OBVIOUS
<1>2. \A u \in Threads : u # t => pc'[u] = pc[u] /\ todo'[u] = todo[u]
  BY DEF TypeOK
<1>3. \A s \in Clients : /\ pc'[<<"run", s>>] = pc[<<"run", s>>]
                         /\ todo'[<<"run", s>>] = todo[<<"run", s>>]
  BY <1>1, <1>2, ThreadKinds
<1>4. Early' /\ RunCloses' /\ OpenAreListed'
  BY <1>3 DEF MapInv, Early, RunCloses, OpenAreListed
<1>5. SessionsAreRun'
  BY <1>3, NoneAssumption DEF TypeOK, MapInv, SessionsAreRun
<1>6. HolderCloses'
  BY <1>2, NoneThreadAssumption DEF MapInv, HolderCloses
<1> QED
  BY <1>4, <1>5, <1>6 DEF MapInv

\* What is deleted is closed, and is what was looked up.
LEMMA ReturnMap ==
  ASSUME TypeOK, MapInv, NEW t \in Threads, Return(t)
  PROVE  MapInv'
<1>1. /\ pc[t] = "close"
      /\ \A s \in todo[t] : phase[s] = "closed"
      /\ sessions' = Remaining(t)
      /\ lock' = IF lock = t THEN None ELSE lock
      /\ pc' = [pc EXCEPT ![t] = "done"]
      /\ todo' = [todo EXCEPT ![t] = {}]
      /\ UNCHANGED <<id, shell, phase>>
  BY DEF Return, closeVars
<1>2. \A i \in Ids : \/ sessions'[i] = sessions[i]
                     \/ sessions'[i] = None /\ sessions[i] \in todo[t]
  BY <1>1 DEF Remaining
<1>3. t[1] \notin {"run", "job"} => sessions' = sessions
  BY <1>1 DEF Remaining
<1>4. Early'
  BY <1>1, ThreadKinds DEF TypeOK, MapInv, Early
<1>5. HolderCloses'
  BY <1>1 DEF TypeOK, MapInv, HolderCloses
<1>6. RunCloses'
  <2> SUFFICES ASSUME NEW s \in Clients, pc'[<<"run", s>>] = "close"
               PROVE  /\ sessions'[id'[s]] # None
                      /\ todo'[<<"run", s>>] = {sessions'[id'[s]]}
    BY DEF RunCloses
  <2> DEFINE u == <<"run", s>>
  <2>1. u # t /\ u \in Threads /\ pc[u] = "close"
    BY <1>1, ThreadKinds DEF TypeOK
  <2>2. t[1] \notin {"run", "job"}
    BY <1>1, <2>1 DEF MapInv, HolderCloses
  <2>3. sessions' = sessions /\ todo'[u] = todo[u]
    BY <1>1, <1>3, <2>1, <2>2 DEF TypeOK
  <2> QED
    BY <1>1, <2>1, <2>3 DEF MapInv, RunCloses
<1>7. SessionsAreRun'
  <2> SUFFICES ASSUME NEW i \in Ids, sessions'[i] # None
               PROVE  id'[sessions'[i]] = i /\ pc'[<<"run", sessions'[i]>>] # "done"
    BY DEF SessionsAreRun
  <2> DEFINE s == sessions[i]
  <2>1. sessions'[i] = s /\ s \in Clients /\ id[s] = i /\ pc[<<"run", s>>] # "done"
    BY <1>2 DEF TypeOK, MapInv, SessionsAreRun
  <2>2. t # <<"run", s>>
    <3> SUFFICES ASSUME t = <<"run", s>> PROVE FALSE
      OBVIOUS
    <3>1. todo[t] = {s}
      BY <1>1, <2>1 DEF MapInv, RunCloses
    <3>2. sessions'[i] = None
      BY <1>1, <3>1 DEF Remaining
    <3> QED
      BY <3>2
  <2> QED
    BY <1>1, <2>1, <2>2, ThreadKinds DEF TypeOK
<1>8. OpenAreListed'
  <2> SUFFICES ASSUME NEW s \in Clients, id[s] # None, phase[s] # "closed"
               PROVE  sessions'[id[s]] = s
    BY <1>1 DEF OpenAreListed
  <2>1. sessions[id[s]] = s /\ id[s] \in Ids
    BY DEF TypeOK, MapInv, OpenAreListed
  <2> QED
    BY <1>1, <1>2, <2>1
<1> QED
  BY <1>4, <1>5, <1>6, <1>7, <1>8 DEF MapInv

-----------------------------------------------------------------------------
(* The jobs of a session that has been shut down.                          *)

\* Only jobs and Shutdown have a say in it.
LEMMA QuietOrphans ==
  ASSUME OrphansOnlyLate, UNCHANGED <<job, phase, late>>
  PROVE  OrphansOnlyLate'
  BY DEF OrphansOnlyLate, Running

\* Closing a session waits for its jobs or gives up.
LEMMA CloseOrphans ==
  ASSUME TypeOK, OrphansOnlyLate, NEW s \in Clients,
         CloseStep(s) \/ \E t \in Threads : StartClose(t, s)
  PROVE  OrphansOnlyLate'
<1>1. CASE Shutdown(s)
  BY <1>1 DEF TypeOK, OrphansOnlyLate, Running, Shutdown, ShutdownEnds, jobVars
<1>2. CASE \/ CloseShell(s) \/ Reply(s)
  BY <1>2 DEF TypeOK, OrphansOnlyLate, Running, CloseShell, Reply, jobVars
<1>3. CASE \E t \in Threads : StartClose(t, s)
  BY <1>3 DEF TypeOK, OrphansOnlyLate, Running, StartClose, jobVars
<1> QED
  BY <1>1, <1>2, <1>3 DEF CloseStep

\* A job is registered with an open session only, and then it only ends.
LEMMA JobOrphans ==
  ASSUME TypeOK, OrphansOnlyLate, NEW j \in Jobs,
         \/ JobExits(j) \/ Deregister(j) \/ \E k \in Jobs : JobsRm(j, k)
         \/ \E s \in Clients, kind \in Kinds : Register(s, j, kind)
  PROVE  OrphansOnlyLate'
<1>1. UNCHANGED <<phase, late>>
  BY DEF JobExits, Deregister, JobsRm, Register, closeVars
<1>2. ASSUME NEW s \in Clients, NEW k \in Running(s)'
      PROVE  k \in Running(s) \/ phase[s] = "open"
  <2>1. CASE JobExits(j) \/ Deregister(j) \/ \E i \in Jobs : JobsRm(j, i)
    BY <1>2, <2>1 DEF TypeOK, Job, Running, JobExits, Deregister, JobsRm
  <2>2. ASSUME NEW r \in Clients, NEW kind \in Kinds, Register(r, j, kind)
        PROVE  k \in Running(s) \/ phase[s] = "open"
    <3> DEFINE new == [st |-> "run", in |-> r, jid |-> FirstFree(r) + 1,
                       kind |-> kind, wait |-> None]
    <3>1. phase[r] = "open" /\ job' = [job EXCEPT ![j] = new] /\ new.in = r
      BY <2>2 DEF Register, AcceptsJobs
    <3> HIDE DEF new
    <3> QED
      BY <1>2, <3>1 DEF TypeOK, Running
  <2> QED
    BY <2>1, <2>2
<1> QED
  BY <1>1, <1>2 DEF OrphansOnlyLate

-----------------------------------------------------------------------------

\* Every step keeps the invariant.
LEMMA StepInv == IInv /\ [Next]_vars => IInv'
<1> SUFFICES ASSUME IInv, [Next]_vars PROVE IInv'
  OBVIOUS
<1> USE DEF IInv, MapInv
<1>0. CASE UNCHANGED vars
  BY <1>0, QuietMap, QuietOrphans
     DEF vars, TypeOK, Job, Kinds
<1>1. ASSUME NEW s \in Clients, Connect(s) \/ Refuse(s)
      PROVE  IInv'
  <2>1. UNCHANGED <<job, phase, late>>
    BY <1>1 DEF Connect, Refuse, jobVars
  <2> QED
    BY <1>1, <2>1, AcceptTypes, RefuseMap, QuietOrphans
<1>2. ASSUME NEW s \in Clients, NEW i \in Ids, Accept(s, i)
      PROVE  IInv'
  <2>1. UNCHANGED <<job, phase, late>>
    BY <1>2 DEF Accept, jobVars
  <2> QED
    BY <1>2, <2>1, AcceptTypes, AcceptMap, QuietOrphans
<1>3. ASSUME NEW s \in Clients, Run(s) \/ RunReturns(s)
      PROVE  IInv'
  <2>1. UNCHANGED <<job, phase, late>>
    BY <1>3 DEF Run, RunReturns, jobVars
  <2> QED
    BY <1>3, <2>1, ShellTypes, ShellMap, QuietOrphans
<1>4. ASSUME NEW s \in Clients, RunRemoves(s)
      PROVE  IInv'
  <2>1. UNCHANGED <<job, phase, late>>
    BY <1>4 DEF RunRemoves, Remove, closeVars, jobVars
  <2>2. id[s] \in Ids
    BY <1>4 DEF RunRemoves, Early
  <2> QED
    BY <1>4, <2>1, <2>2, ThreadKinds, RemoveTypes, RunRemovesMap, QuietOrphans DEF RunRemoves
<1>5. ASSUME NEW j \in Jobs, NEW i \in Ids, JobRemoves(j, i)
      PROVE  IInv'
  <2> DEFINE t == <<"job", j>>
  <2>1. t \in Threads /\ t[1] = "job" /\ Remove(t, i)
    BY <1>5, ThreadKinds DEF JobRemoves
  <2>2. UNCHANGED <<job, phase, late>>
    BY <2>1 DEF Remove, closeVars, jobVars
  <2>3. TypeOK'
    BY <2>1, RemoveTypes
  <2> HIDE DEF t
  <2>4. /\ pc' = [pc EXCEPT ![t] = "done"] \/ pc' = [pc EXCEPT ![t] = "close"]
        /\ \/ UNCHANGED lock /\ pc'[t] = "done"
           \/ lock = None /\ lock' = t
        /\ \E c : todo' = [todo EXCEPT ![t] = c]
        /\ UNCHANGED <<sessions, id, shell, phase>>
    <3>1. CASE sessions[i] = None
      <4>1. UNCHANGED todo /\ todo' = [todo EXCEPT ![t] = todo[t]]
        BY <2>1, <3>1 DEF Remove, TypeOK
      <4> QED
        BY <2>1, <3>1, <4>1 DEF Remove, TypeOK, closeVars
    <3>2. CASE sessions[i] # None
      BY <2>1, <3>2 DEF Remove, closeVars
    <3> QED
      BY <3>1, <3>2
  <2>5. MapInv'
    BY <2>1, <2>4, OtherClosersMap
  <2> QED
    BY <2>2, <2>3, <2>5, QuietOrphans
<1>6. CASE Stop
  <2> DEFINE t == <<"stop", 0>>
             all == {s \in Clients : \E i \in Ids : sessions[i] = s}
  <2>1. /\ t \in Threads /\ t[1] = "stop"
        /\ lock = None /\ lock' = t
        /\ pc' = [pc EXCEPT ![t] = "close"]
        /\ todo' = [todo EXCEPT ![t] = all]
        /\ UNCHANGED <<sessions, id, shell, phase, late, job>>
    BY <1>6, ThreadKinds DEF Stop, closeVars, jobVars
  <2> HIDE DEF t, all
  <2>2. MapInv'
    BY <2>1, OtherClosersMap
  <2> QED
    BY <1>6, <2>1, <2>2, StopTypes, QuietOrphans
<1>7. ASSUME NEW s \in Clients, Goodbye(s)
      PROVE  IInv'
  <2> DEFINE t == <<"bye", s>>
  <2>1. /\ t \in Threads /\ t[1] = "bye"
        /\ pc' = [pc EXCEPT ![t] = "close"]
        /\ todo' = [todo EXCEPT ![t] = {s}]
        /\ UNCHANGED <<lock, sessions, id, shell, phase, late, job>>
    BY <1>7, ThreadKinds DEF Goodbye, srvVars, closeVars, jobVars
  <2> HIDE DEF t
  <2>2. MapInv'
    BY <2>1, OtherClosersMap
  <2> QED
    BY <1>7, <2>1, <2>2, StopTypes, QuietOrphans
<1>8. ASSUME NEW t \in Threads, Return(t)
      PROVE  IInv'
  <2>1. UNCHANGED <<job, phase, late>>
    BY <1>8 DEF Return, closeVars, jobVars
  <2> QED
    BY <1>8, <2>1, CloseTypes, ReturnMap, QuietOrphans DEF ThreadStep
<1>9. ASSUME NEW s \in Clients, CloseStep(s) \/ \E t \in Threads : StartClose(t, s)
      PROVE  IInv'
  <2>1. /\ UNCHANGED <<lock, sessions, id, shell, pc, todo>>
        /\ \E p \in {"shutdown", "shell", "reply", "closed"} : phase' = [phase EXCEPT ![s] = p]
        /\ phase[s] # "closed"
    BY <1>9 DEF CloseStep, StartClose, Shutdown, CloseShell, Reply, srvVars
  <2>2. \A r \in Clients : phase'[r] # "closed" => phase[r] # "closed"
    BY <2>1 DEF TypeOK
  <2>3. MapInv'
    BY <2>1, <2>2, QuietMap
  <2>4. TypeOK'
    BY <1>9, CloseTypes DEF ThreadStep
  <2> QED
    BY <1>9, <2>3, <2>4, CloseOrphans
<1>10. ASSUME NEW j \in Jobs,
              \/ JobExits(j) \/ Deregister(j) \/ \E k \in Jobs : JobsRm(j, k)
              \/ \E s \in Clients, kind \in Kinds : Register(s, j, kind)
       PROVE  IInv'
  <2>1. UNCHANGED <<lock, sessions, id, shell, phase, pc, todo>>
    BY <1>10 DEF JobExits, Deregister, JobsRm, Register, srvVars, closeVars
  <2>2. MapInv'
    BY <2>1, QuietMap
  <2>3. TypeOK'
    BY <1>10, JobTypes, RegisterTypes
  <2> QED
    BY <1>10, <2>2, <2>3, JobOrphans
<1> QED
  BY <1>0, <1>1, <1>2, <1>3, <1>4, <1>5, <1>6, <1>7, <1>8, <1>9, <1>10
     DEF Next, ThreadStep

\* The invariant holds in every reachable state.
THEOREM InvHolds == Spec => []IInv
  BY InitInv, StepInv, PTL DEF Spec

\* The daemon's bookkeeping keeps its types; the first free place that Register
\* looks for exists whenever it registers, whatever the order of jobs.
THEOREM TypeCorrect == Spec => []TypeOK
  BY InvHolds, PTL DEF IInv

\* Every session in the map has a goroutine that will remove it, under its own
\* identifier.
THEOREM ListedSessionsRun == Spec => []SessionsAreRun
  BY InvHolds, PTL DEF IInv

\* A session is in the map, under its identifier, until it is closed.
THEOREM OpenSessionsListed == Spec => []OpenAreListed
  BY InvHolds, PTL DEF IInv

\* A job outlives the Shutdown of its session only after its two seconds.
THEOREM NoSilentOrphans == Spec => []OrphansOnlyLate
  BY InvHolds, PTL DEF IInv
=============================================================================
