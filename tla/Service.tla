------------------------------ MODULE Service ------------------------------
(***************************************************************************)
(* The life of receiver processes on one data directory: what `serve`      *)
(* reads before it takes the lock (cli.py, receiver.py), the lock of the   *)
(* directory (process_lock.py), the shutdown that drains the handlers      *)
(* (receiver_service.py), also when it is interrupted itself, and the      *)
(* namespaces that handlers make for the labels of senders (for_sender in  *)
(* receiver_state.py, senders.py).                                         *)
(*                                                                         *)
(* Several processes are started at will, and killed; one that is started  *)
(* again is another process.  The threads of a process are its requests:   *)
(* each finds the state of its label, for which it may have to make the    *)
(* directory and then the configuration in it, and then works on that      *)
(* state.  What it works is Receiver's matter; here it replaces the        *)
(* configuration, or does nothing.  One thread more, the monitor, scans    *)
(* the namespaces that are there (monitoring.py).                          *)
(***************************************************************************)
EXTENDS Naturals, FiniteSets

CONSTANTS
  Process,     \* processes that may be started on the directory
  Request,     \* requests under way at the same time
  Tag,         \* sender labels other than "default"
  Default,     \* the label "default"
  Policy,      \* contents of sources.json
  None,        \* nothing: no file, no owner
  MaxSenders,  \* MAX_SENDERS
  Configured,  \* bound: configurations the directory may begin with
  Replacement, \* bound: configurations that requests bring
  Hasty        \* bound: processes that may be interrupted a second time

ASSUME ServiceAssumption ==
  /\ Default \notin Tag /\ None \notin Policy \cup Process \cup Tag
  /\ Configured \subseteq Policy /\ Replacement \subseteq Policy
  /\ Hasty \subseteq Process /\ MaxSenders \in Nat

VARIABLES
  sources,     \* by label: sources.json, or None
  directories, \* labels with a directory
  token,       \* the token file: the process that wrote it, or None
  owner,       \* the process that has locked the directory
  proc,        \* by process: stage, token, and the states it has made
  request      \* by request: process, label, stage

\* History, which nothing but properties looks at.
VARIABLES
  alone,       \* processes, up to where they give the directory back, that
               \* started when no other ran, and before they had the lock neither
               \* met one that made up a token as well nor had one lock it first
  overlapped   \* a process has locked the directory while requests of another
               \* were under way

files == <<sources, directories, token>>
history == <<alone, overlapped>>
vars == <<files, owner, proc, request, history>>

Label == Tag \cup {Default}

\* states: the configuration in memory for each label, None if not yet made.
NoStates == [t \in Label |-> None]
New == [at |-> "new", token |-> None, states |-> NoStates]
Down == [New EXCEPT !.at = "down"]

Free == [at |-> "free", process |-> None, tag |-> Default]

Init ==
  /\ sources \in {[t \in Label |-> IF t = Default THEN p ELSE None] :
                    p \in Configured}
  /\ directories = {}
  /\ token = None
  /\ owner = None
  /\ proc = [p \in Process |-> New]
  /\ request = [r \in Request |-> Free]
  /\ alone = {} /\ overlapped = FALSE

-----------------------------------------------------------------------------
(* Starting *)

Running == {p \in Process : proc[p].at \notin {"new", "down"}}
Starting == {p \in Running : proc[p].at \in {"token", "write", "lock"}}
Writing == {p \in Running : proc[p].at = "write"}

Goes(p, at) == proc' = [proc EXCEPT ![p].at = at]

\* configure: the state of the default label is made from sources.json.
Start(p) ==
  /\ proc[p].at = "new"
  /\ proc' = [proc EXCEPT ![p] =
                [New EXCEPT !.at = "token",
                            !.states[Default] = sources[Default]]]
  /\ alone' = IF Running = {} THEN {p} ELSE alone \ {p}
  /\ UNCHANGED <<files, owner, request, overlapped>>

\* ensure_token_file looks whether the file is there ...
ReadToken(p) ==
  /\ proc[p].at = "token"
  /\ IF token = None
     THEN Goes(p, "write")
     ELSE proc' = [proc EXCEPT ![p].at = "lock", ![p].token = token]
  /\ alone' = IF Writing = {} THEN alone ELSE alone \ (Writing \cup {p})
  /\ UNCHANGED <<files, owner, request, overlapped>>

\* ... and if not, makes up a token and writes it.
WriteToken(p) ==
  /\ proc[p].at = "write"
  /\ token' = p
  /\ proc' = [proc EXCEPT ![p].at = "lock", ![p].token = p]
  /\ UNCHANGED <<sources, directories, owner, request, history>>

\* DataDirectoryLock, which does not wait; then the port, tried until it is there.
Lock(p) ==
  /\ proc[p].at = "lock" /\ owner = None
  /\ owner' = p
  /\ Goes(p, "serve")
  /\ alone' = alone \ (Starting \ {p})
  /\ overlapped' = (overlapped \/ \E r \in Request : request[r].at # "free")
  /\ UNCHANGED <<files, request>>

\* "data directory already in use"
Refuse(p) ==
  /\ proc[p].at = "lock" /\ owner # None
  /\ proc' = [proc EXCEPT ![p] = Down]
  /\ alone' = alone \ {p}
  /\ UNCHANGED <<files, owner, request, overlapped>>

-----------------------------------------------------------------------------
(* Requests *)

Under(p) == {r \in Request : request[r].process = p}

\* A handler holds the lock of the default state while it makes a namespace.
Making(p) == {r \in Under(p) : request[r].at \in {"directory", "seed"}}

Step(r, at) == request' = [request EXCEPT ![r].at = at]

End(r) == request' = [request EXCEPT ![r] = Free]

Accept(r, p, t) ==
  /\ proc[p].at = "serve" /\ request[r].at = "free"
  /\ request' = [request EXCEPT
                   ![r] = [at |-> "find", process |-> p, tag |-> t]]
  /\ UNCHANGED <<files, owner, proc, history>>

\* The state of this label is made, from this configuration, and kept.
Keep(p, t, policy) == proc' = [proc EXCEPT ![p].states[t] = policy]

Initialized == {t \in Tag : sources[t] # None}
Cached(p) == {t \in Tag : proc[p].states[t] # None}

\* Faulty Turn: the limit is looked at without the lock.
TurnUnlocked(p) == TRUE

\* The handler gets the lock of the default state.
Turn(p) == Making(p) = {}

\* for_sender, where the namespace is there, or the limit is reached.  The state
\* of the default label is always there, and needs no lock.
Find(r) ==
  LET p == request[r].process  t == request[r].tag IN
  /\ request[r].at = "find" /\ (t = Default \/ Turn(p))
  /\ \/ proc[p].states[t] # None /\ Step(r, "work") /\ UNCHANGED proc
     \/ /\ proc[p].states[t] = None /\ sources[t] # None
        /\ Keep(p, t, sources[t]) /\ Step(r, "work")
     \/ /\ proc[p].states[t] = None /\ sources[t] = None
        /\ Cardinality(Initialized \cup Cached(p)) >= MaxSenders
        /\ End(r) /\ UNCHANGED proc
  /\ UNCHANGED <<files, owner, history>>

\* for_sender, where there is none: under the lock from here on.
Miss(r) ==
  LET p == request[r].process  t == request[r].tag IN
  /\ request[r].at = "find" /\ Turn(p)
  /\ proc[p].states[t] = None /\ sources[t] = None
  /\ Cardinality(Initialized \cup Cached(p)) < MaxSenders
  /\ Step(r, "directory")
  /\ UNCHANGED <<files, owner, proc, history>>

\* Faulty MakeDirectory: only the parent is made.
MakeParent(r) ==
  /\ request[r].at = "directory"
  /\ Step(r, "seed")
  /\ UNCHANGED <<files, owner, proc, history>>

MakeDirectory(r) ==
  /\ request[r].at = "directory"
  /\ directories' = directories \cup {request[r].tag}
  /\ Step(r, "seed")
  /\ UNCHANGED <<sources, token, owner, proc, history>>

\* The configuration of the default label, and nothing else, is copied.
Seed(r) ==
  LET p == request[r].process  t == request[r].tag IN
  /\ request[r].at = "seed"
  /\ sources' = [sources EXCEPT ![t] = proc[p].states[Default]]
  /\ Keep(p, t, proc[p].states[Default])
  /\ Step(r, "work")
  /\ UNCHANGED <<directories, token, owner, history>>

\* Faulty SeedFails: it is tried again, under the lock, until it succeeds.
SeedRetried(r) ==
  /\ request[r].at = "seed"
  /\ Step(r, "directory")
  /\ UNCHANGED <<files, owner, proc, history>>

\* A disk that is full: the request fails, its directory may be left.
SeedFails(r) ==
  /\ request[r].at \in {"directory", "seed"}
  /\ End(r)
  /\ UNCHANGED <<files, owner, proc, history>>

\* Faulty Replace: adopted though it could not be written.
ReplaceUnwritten(r, policy) ==
  LET p == request[r].process  t == request[r].tag IN
  /\ request[r].at = "work" /\ (t = Default => Turn(p))
  /\ sources' \in {sources, [sources EXCEPT ![t] = policy]}
  /\ Keep(p, t, policy)
  /\ End(r)
  /\ UNCHANGED <<directories, token, owner, history>>

\* The handler writes another configuration, and adopts it.
Replace(r, policy) ==
  LET p == request[r].process  t == request[r].tag IN
  /\ request[r].at = "work" /\ (t = Default => Turn(p))
  /\ sources' = [sources EXCEPT ![t] = policy]
  /\ Keep(p, t, policy)
  /\ End(r)
  /\ UNCHANGED <<directories, token, owner, history>>

\* Any other request, or one that fails, times out after 5 s, or is refused.
Answer(r) ==
  /\ request[r].at = "work"
  /\ End(r)
  /\ UNCHANGED <<files, owner, proc, history>>

-----------------------------------------------------------------------------
(* The monitor thread *)

\* In a scan initialized_states has for_sender make states of what is there.  The
\* thread ends with its process, which waits for it 15 s and no longer.
Scan(p, t) ==
  /\ proc[p].at \in {"serve", "drain", "exit", "cut"} /\ Turn(p)
  /\ proc[p].states[t] = None /\ sources[t] # None
  /\ Keep(p, t, sources[t])
  /\ UNCHANGED <<files, owner, request, history>>

-----------------------------------------------------------------------------
(* Stopping *)

\* An interrupt ends serve_forever.
Stop(p) ==
  /\ proc[p].at = "serve"
  /\ Goes(p, "drain")
  /\ UNCHANGED <<files, owner, request, history>>

\* Faulty Close: the handlers are left to themselves.
CloseAtOnce(p) ==
  /\ proc[p].at = "drain"
  /\ owner' = None
  /\ Goes(p, "exit")
  /\ UNCHANGED <<files, request, history>>

\* The monitor is waited for 15 s at most, and server_close joins the handlers;
\* then the lock is released, and the process ends.
Close(p) ==
  /\ proc[p].at = "drain" /\ Under(p) = {}
  /\ owner' = None
  /\ Goes(p, "exit") \/ proc' = [proc EXCEPT ![p] = Down]
  /\ alone' = alone \ {p}
  /\ UNCHANGED <<files, request, overlapped>>

\* A second interrupt while handlers are waited for: the lock is released on the
\* way out, and they go on.
CutShort(p) ==
  /\ proc[p].at = "drain" /\ Under(p) # {} /\ p \in Hasty
  /\ owner' = None
  /\ Goes(p, "cut")
  /\ alone' = alone \ {p}
  /\ UNCHANGED <<files, request, overlapped>>

\* The process ends: it waits for threads that are not daemons, the handlers.
Exit(p) ==
  /\ proc[p].at \in {"exit", "cut"} /\ Under(p) = {}
  /\ proc' = [proc EXCEPT ![p] = Down]
  /\ UNCHANGED <<files, owner, request, history>>

\* Killed: the operating system gives the lock back.
Crash(p) ==
  /\ p \in Running
  /\ owner' = IF owner = p THEN None ELSE owner
  /\ proc' = [proc EXCEPT ![p] = Down]
  /\ request' = [r \in Request |-> IF r \in Under(p) THEN Free ELSE request[r]]
  /\ alone' = alone \ {p}
  /\ UNCHANGED <<files, overlapped>>

-----------------------------------------------------------------------------
Handle(r) ==
  \/ Find(r) \/ Miss(r) \/ MakeDirectory(r) \/ Seed(r) \/ SeedFails(r)
  \/ Answer(r)
  \/ \E policy \in Replacement : Replace(r, policy)

Next ==
  \/ \E p \in Process :
       \/ Start(p) \/ ReadToken(p) \/ WriteToken(p) \/ Lock(p) \/ Refuse(p)
       \/ \E t \in Tag : Scan(p, t)
       \/ Stop(p) \/ Close(p) \/ CutShort(p) \/ Exit(p) \/ Crash(p)
       \/ \E r \in Request, t \in Label : Accept(r, p, t)
  \/ \E r \in Request : Handle(r)

Spec == Init /\ [][Next]_vars

\* Threads run: a handler's socket times out after 5 s, and who waits for the
\* lock of a state gets it.
FairSpec ==
  /\ Spec
  /\ \A r \in Request : SF_vars(Handle(r))
  /\ \A p \in Process : WF_vars(Close(p))

-----------------------------------------------------------------------------
(* Properties *)

\* Types; a label with a configuration has a directory to hold it.
TypeOK ==
  /\ sources \in [Label -> Policy \cup {None}] /\ sources[Default] # None
  /\ Initialized \subseteq directories /\ directories \subseteq Tag
  /\ token \in {None} \cup Process
  /\ owner \in Process \cup {None}
  /\ alone \subseteq Process /\ overlapped \in BOOLEAN
  /\ proc \in [Process ->
       [at : {"new", "token", "write", "lock", "serve", "drain", "exit", "cut",
              "down"},
        token : {None} \cup Process,
        states : [Label -> Policy \cup {None}]]]
  /\ request \in [Request ->
       [at : {"free", "find", "directory", "seed", "work"},
        process : Process \cup {None}, tag : Label]]

\* Handlers that work on the files of the directory are of the process that has
\* locked it, whatever other processes are started, stopped and killed, unless
\* their process was interrupted again while it waited for them.  (Not of this
\* kind are the token file, which is written before the lock is taken, and a
\* monitor thread that is late by 15 s, which goes on until its process ends.)
OneWriter ==
  \A r \in Request : request[r].at # "free" =>
    \/ owner = request[r].process
    \/ proc[request[r].process].at = "cut"

\* Handlers that make namespaces at the same time, and those left by a crash,
\* never make more of them than the limit allows, as long as no process was
\* given the directory while requests of another were still under way.
SendersBounded == overlapped \/ Cardinality(Initialized) <= MaxSenders

\* A receiver that was started when no other ran works with the token and the
\* configurations in the files, whatever failed and whoever else was started,
\* unless before it had the lock another took it, or made up a token as well:
\* two that both find no token file each write one, and one of them serves with
\* a token that is not in the file.
ServesWhatIsStored ==
  \A p \in alone : proc[p].at \in {"serve", "drain"} =>
    /\ proc[p].token = token
    /\ \A t \in Label : proc[p].states[t] \in {None, sources[t]}

\* A process that is told to stop gives the directory back.
StopReleases ==
  \A p \in Process : proc[p].at = "drain" ~> owner # p
=============================================================================
