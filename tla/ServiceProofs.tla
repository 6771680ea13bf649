---------------------------- MODULE ServiceProofs ----------------------------
(***************************************************************************)
(* Proofs, for every number of processes, requests and senders, about      *)
(* Service: handlers work under the lock of the directory, the limit of    *)
(* senders holds, and a receiver that started alone serves what the files  *)
(* say, with the exceptions that the properties name.                      *)
(***************************************************************************)
EXTENDS Service, FiniteSetTheorems, TLAPS

-----------------------------------------------------------------------------
(* The inductive invariants *)

Serving(p) == proc[p].at \in {"serve", "drain"}
Handling(p) == Serving(p) \/ proc[p].at = "cut"

\* A process that serves holds the lock; a request that is under way is handled
\* by one that does, or by one whose drain was cut short; and a process that runs
\* has read its configuration.
HandledUnderLock ==
  /\ \A p \in Process : Serving(p) => owner = p
  /\ \A r \in Request : request[r].at # "free" =>
       request[r].process \in Process /\ Handling(request[r].process)
  /\ \A p \in Running : proc[p].states[Default] # None

\* Until a process locks the directory beside the requests of another, those that
\* are under way are of one process: that which serves, if one does.
OneAtATime ==
  ~overlapped => \A r \in Request : request[r].at # "free" =>
    /\ \A p \in Process : Serving(p) => request[r].process = p
    /\ \A other \in Request : request[other].at # "free" =>
         request[other].process = request[r].process

Makes(r) == request[r].at \in {"directory", "seed"}

\* Unless processes overlapped, one handler makes a namespace at a time, and from
\* the moment it looked at the limit there is room for it, because nobody else
\* can add one: all others work on namespaces that are there.
RoomIsKept ==
  /\ IsFiniteSet(Initialized)
  /\ \A p \in Process : Cached(p) \subseteq Initialized
  /\ \A r \in Request :
       /\ request[r].at = "work" => request[r].tag \in Initialized \cup {Default}
       /\ Makes(r) => request[r].tag \in Tag
       /\ request[r].at = "seed" => request[r].tag \in directories
  /\ ~overlapped =>
       /\ Cardinality(Initialized) <= MaxSenders
       /\ \A r \in Request : Makes(r) =>
            /\ Cardinality(Initialized) < MaxSenders
            /\ \A other \in Request : Makes(other) => other = r

\* While a process is alone no other has the lock or handlers; from its look at
\* the token file on no other is about to write one; and its token, once it has
\* one, is that of the file.
StartedAlone ==
  \A p \in alone :
    /\ p \in Starting \/ Serving(p)
    /\ \A q \in Process \ {p} :
         /\ proc[q].at \in {"new", "token", "write", "lock", "down"}
         /\ proc[p].at # "token" => proc[q].at # "write"
    /\ proc[p].at = "write" => token = None
    /\ proc[p].at \in {"lock", "serve", "drain"} =>
         token # None /\ proc[p].token = token
    /\ \A t \in Label : proc[p].states[t] \in {None, sources[t]}

-----------------------------------------------------------------------------
(* What the steps change *)

Tokens == {None} \cup Process
ProcType ==
  [at : {"new", "token", "write", "lock", "serve", "drain", "exit", "cut",
         "down"},
   token : Tokens, states : [Label -> Policy \cup {None}]]
RequestType ==
  [at : {"free", "find", "directory", "seed", "work"},
   process : Process \cup {None}, tag : Label]

\* A process that is new or down, and a request that is over.
LEMMA NothingTyped ==
  /\ New \in ProcType /\ Down \in ProcType /\ Free \in RequestType
  /\ New.at = "new" /\ Down.at = "down"
  /\ Free.at = "free" /\ Free.process = None
  /\ \A t \in Label : New.states[t] = None /\ Down.states[t] = None
BY DEF New, Down, ProcType, Tokens, NoStates, Free, RequestType, Label

LEMMA Typed ==
  ASSUME TypeOK
  PROVE  /\ proc \in [Process -> ProcType]
         /\ request \in [Request -> RequestType]
         /\ token \in Tokens /\ sources \in [Label -> Policy \cup {None}]
BY DEF TypeOK, ProcType, RequestType, Tokens

\* A process that goes on.
LEMMA ProcessGoes ==
  ASSUME TypeOK, NEW p \in Process,
         NEW at \in {"write", "lock", "serve", "drain", "exit", "cut"}, Goes(p, at)
  PROVE  /\ proc' \in [Process -> ProcType]
         /\ proc'[p].at = at /\ proc'[p].token = proc[p].token
         /\ proc'[p].states = proc[p].states
         /\ \A q \in Process : q # p => proc'[q] = proc[q]
<1>1. proc[p] \in ProcType /\ proc \in [Process -> ProcType]
  BY Typed
<1>2. proc' = [proc EXCEPT ![p] = [proc[p] EXCEPT !.at = at]]
  BY DEF Goes
<1> QED BY <1>1, <1>2 DEF ProcType

\* A process with its token: one it found, or one it made.
LEMMA ProcessTakes ==
  ASSUME TypeOK, NEW p \in Process, NEW taken \in Tokens,
         proc' = [proc EXCEPT ![p].at = "lock", ![p].token = taken]
  PROVE  /\ proc' \in [Process -> ProcType]
         /\ proc'[p].at = "lock" /\ proc'[p].token = taken
         /\ proc'[p].states = proc[p].states
         /\ \A q \in Process : q # p => proc'[q] = proc[q]
<1>1. proc[p] \in ProcType /\ proc \in [Process -> ProcType]
  BY Typed
<1>2. proc' = [proc EXCEPT ![p] = [proc[p] EXCEPT !.at = "lock",
                                                 !.token = taken]]
  BY <1>1
<1> QED BY <1>1, <1>2 DEF ProcType

\* A process that starts.
LEMMA ProcessStarts ==
  ASSUME TypeOK, NEW p \in Process, Start(p)
  PROVE  /\ proc' \in [Process -> ProcType]
         /\ proc[p].at = "new" /\ proc'[p].at = "token"
         /\ \A t \in Label : proc'[p].states[t]
              = IF t = Default THEN sources[t] ELSE None
         /\ \A q \in Process : q # p => proc'[q] = proc[q]
<1> DEFINE begun == [New EXCEPT !.at = "token",
                                !.states[Default] = sources[Default]]
<1>1. [NoStates EXCEPT ![Default] = sources[Default]]
        \in [Label -> Policy \cup {None}]
  BY Typed DEF NoStates, Label
<1>2. /\ begun \in ProcType /\ begun.at = "token"
      /\ \A t \in Label : begun.states[t]
           = IF t = Default THEN sources[t] ELSE None
  BY <1>1 DEF New, NoStates, ProcType, Tokens, Label
<1>3. proc' = [proc EXCEPT ![p] = begun] /\ proc[p].at = "new"
  BY DEF Start
<1>4. proc \in [Process -> ProcType]
  BY Typed
<1> HIDE DEF begun
<1> QED BY <1>2, <1>3, <1>4

\* A process that ends.
LEMMA ProcessEnds ==
  ASSUME TypeOK, NEW p \in Process, proc' = [proc EXCEPT ![p] = Down]
  PROVE  /\ proc' \in [Process -> ProcType] /\ proc'[p] = Down
         /\ proc'[p].at = "down"
         /\ \A q \in Process : q # p => proc'[q] = proc[q]
BY Typed, NothingTyped

\* A process that leaves: it is down, or has threads left that were not waited
\* for.
LEMMA ProcessLeaves ==
  ASSUME TypeOK, NEW p \in Process,
         Refuse(p) \/ Close(p) \/ CutShort(p) \/ Exit(p) \/ Crash(p)
  PROVE  /\ proc' \in [Process -> ProcType]
         /\ p \in Running /\ proc'[p].at \in {"exit", "cut", "down"}
         /\ \A t \in Label : proc'[p].states[t] \in {None, proc[p].states[t]}
         /\ p \in Running' => proc'[p].states = proc[p].states
         /\ \A q \in Process : q # p => proc'[q] = proc[q]
         /\ UNCHANGED <<sources, directories, token, overlapped>>
<1>1. /\ p \in Running
      /\ \/ Goes(p, "exit") \/ Goes(p, "cut")
         \/ proc' = [proc EXCEPT ![p] = Down]
  BY DEF Refuse, Close, CutShort, Exit, Crash, Running
<1>2. UNCHANGED <<sources, directories, token, overlapped>>
  BY DEF Refuse, Close, CutShort, Exit, Crash, files, history
<1>3. CASE Goes(p, "exit") \/ Goes(p, "cut")
  BY <1>1, <1>2, <1>3, ProcessGoes
<1>4. CASE proc' = [proc EXCEPT ![p] = Down]
  BY <1>1, <1>2, <1>4, ProcessEnds, NothingTyped DEF Running
<1> QED BY <1>1, <1>3, <1>4

\* A process that keeps the state it has made.
LEMMA ProcessKeeps ==
  ASSUME TypeOK, NEW p \in Process, NEW t \in Label,
         NEW policy \in Policy \cup {None}, Keep(p, t, policy)
  PROVE  /\ proc' \in [Process -> ProcType]
         /\ proc'[p].at = proc[p].at /\ proc'[p].token = proc[p].token
         /\ \A u \in Label : proc'[p].states[u]
              = IF u = t THEN policy ELSE proc[p].states[u]
         /\ \A q \in Process : q # p => proc'[q] = proc[q]
<1>1. proc[p] \in ProcType /\ proc \in [Process -> ProcType]
  BY Typed
<1>2. [proc[p].states EXCEPT ![t] = policy] \in [Label -> Policy \cup {None}]
  BY <1>1 DEF ProcType
<1>3. proc' = [proc EXCEPT ![p] = [proc[p] EXCEPT
                 !.states = [proc[p].states EXCEPT ![t] = policy]]]
  BY DEF Keep
<1> QED BY <1>1, <1>2, <1>3 DEF ProcType

\* A request that goes on, and one that is over.
LEMMA RequestGoes ==
  ASSUME TypeOK, NEW r \in Request,
         NEW at \in {"find", "directory", "seed", "work"}, Step(r, at)
  PROVE  /\ request' \in [Request -> RequestType]
         /\ request'[r].at = at /\ request'[r].process = request[r].process
         /\ request'[r].tag = request[r].tag
         /\ \A q \in Request : q # r => request'[q] = request[q]
<1>1. request[r] \in RequestType /\ request \in [Request -> RequestType]
  BY Typed
<1>2. request' = [request EXCEPT ![r] = [request[r] EXCEPT !.at = at]]
  BY DEF Step
<1> QED BY <1>1, <1>2 DEF RequestType

LEMMA RequestEnds ==
  ASSUME TypeOK, NEW r \in Request, End(r)
  PROVE  /\ request' \in [Request -> RequestType]
         /\ request'[r].at = "free"
         /\ \A q \in Request : q # r => request'[q] = request[q]
BY Typed, NothingTyped DEF End

\* What is known of a request that is under way.
LEMMA RequestTyped ==
  ASSUME TypeOK, NEW r \in Request
  PROVE  request[r].tag \in Label /\ request[r].process \in Process \cup {None}
BY Typed DEF RequestType

\* Whatever a handler does: it is one of a process that handles requests, it keeps
\* states for that process only, and it leaves all other requests alone.
LEMMA HandlerSteps ==
  ASSUME TypeOK, HandledUnderLock, NEW r \in Request, Handle(r)
  PROVE  /\ request[r].process \in Process /\ Handling(request[r].process)
         /\ request[r].at # "free" /\ UNCHANGED <<token, owner, alone, overlapped>>
         /\ proc' \in [Process -> ProcType]
         /\ \A q \in Process :
              /\ proc'[q].at = proc[q].at /\ proc'[q].token = proc[q].token
              /\ q # request[r].process => proc'[q] = proc[q]
         /\ request' \in [Request -> RequestType]
         /\ \A other \in Request : other # r => request'[other] = request[other]
         /\ \/ request'[r].at = "free"
            \/ /\ request'[r].process = request[r].process
               /\ request'[r].tag = request[r].tag
<1>0. PICK p, t : p = request[r].process /\ t = request[r].tag
  OBVIOUS
<1>1. request[r].at # "free"
  BY DEF Handle, Find, Miss, MakeDirectory, Seed, SeedFails, Answer, Replace
<1>2. p \in Process /\ Handling(p) /\ t \in Label
  BY <1>0, <1>1, RequestTyped DEF HandledUnderLock
<1>3. proc \in [Process -> ProcType] /\ request \in [Request -> RequestType]
  BY Typed
<1>kept. ASSUME \/ UNCHANGED proc
                \/ \E policy \in Policy \cup {None} : Keep(p, t, policy)
         PROVE  /\ proc' \in [Process -> ProcType]
                /\ \A q \in Process :
                     /\ proc'[q].at = proc[q].at /\ proc'[q].token = proc[q].token
                     /\ q # p => proc'[q] = proc[q]
  BY <1>kept, <1>2, <1>3, ProcessKeeps
<1>goes. ASSUME \/ End(r)
                \/ \E at \in {"find", "directory", "seed", "work"} : Step(r, at)
         PROVE  /\ request' \in [Request -> RequestType]
                /\ \A other \in Request : other # r =>
                     request'[other] = request[other]
                /\ \/ request'[r].at = "free"
                   \/ /\ request'[r].process = request[r].process
                      /\ request'[r].tag = request[r].tag
  BY <1>goes, RequestEnds, RequestGoes
<1>4. \/ UNCHANGED proc
      \/ \E policy \in Policy \cup {None} : Keep(p, t, policy)
  <2>1. sources[t] \in Policy \cup {None}
        /\ proc[p].states[Default] \in Policy \cup {None}
    BY <1>2, <1>3, Typed DEF ProcType, Label
  <2>2. CASE Find(r)
    BY <1>0, <2>1, <2>2 DEF Find
  <2>3. CASE Seed(r)
    BY <1>0, <2>1, <2>3 DEF Seed
  <2>4. ASSUME NEW policy \in Replacement, Replace(r, policy)
        PROVE  policy \in Policy /\ Keep(p, t, policy)
    BY <1>0, <2>4, ServiceAssumption DEF Replace
  <2>5. CASE Miss(r) \/ MakeDirectory(r) \/ SeedFails(r) \/ Answer(r)
    BY <2>5 DEF Miss, MakeDirectory, SeedFails, Answer
  <2> QED BY <2>2, <2>3, <2>4, <2>5 DEF Handle
<1>5. \/ End(r)
      \/ \E at \in {"find", "directory", "seed", "work"} : Step(r, at)
  BY DEF Handle, Find, Miss, MakeDirectory, Seed, SeedFails, Answer, Replace
<1>6. UNCHANGED <<token, owner, alone, overlapped>>
  BY DEF Handle, Find, Miss, MakeDirectory, Seed, SeedFails, Answer, Replace,
     files, history
<1> QED BY <1>0, <1>1, <1>2, <1>4, <1>5, <1>6, <1>kept, <1>goes

\* So does the monitor: it keeps a state of its process and changes nothing else.
LEMMA ScanSteps ==
  ASSUME TypeOK, NEW p \in Process, NEW t \in Tag, Scan(p, t)
  PROVE  /\ proc' \in [Process -> ProcType]
         /\ proc[p].at \in {"serve", "drain", "exit", "cut"}
         /\ proc'[p].at = proc[p].at /\ proc'[p].token = proc[p].token
         /\ \A u \in Label : proc'[p].states[u]
              = IF u = t THEN sources[t] ELSE proc[p].states[u]
         /\ \A q \in Process : q # p => proc'[q] = proc[q]
         /\ sources[t] # None /\ t # Default
         /\ UNCHANGED <<sources, directories, token, owner, request, alone,
                        overlapped>>
<1>1. t \in Label /\ t # Default
  BY ServiceAssumption DEF Label
<1>2. sources[t] \in Policy \cup {None}
  BY <1>1, Typed
<1> QED BY <1>1, <1>2, ProcessKeeps DEF Scan, files, history

-----------------------------------------------------------------------------
(* Handlers work under the lock *)

LEMMA InitHandled == Init => HandledUnderLock /\ OneAtATime
BY NothingTyped DEF Init, HandledUnderLock, OneAtATime, Serving, Running

\* A step that takes nobody the lock and begins no request.
LEMMA HandledStays ==
  ASSUME HandledUnderLock,
         \A q \in Process : /\ Serving(q)' => Serving(q) /\ owner' = owner
                            /\ q \in Running' => proc'[q].states[Default] # None,
         \A r \in Request : request'[r].at # "free" =>
           /\ request[r].at # "free" /\ request'[r].process = request[r].process
           /\ Handling(request[r].process)'
  PROVE  HandledUnderLock'
<1>1. \A q \in Process : Serving(q)' => owner' = q
  BY DEF HandledUnderLock
<1>2. \A r \in Request : request'[r].at # "free" =>
        request'[r].process \in Process /\ Handling(request[r].process)'
  BY DEF HandledUnderLock
<1>3. \A q \in Running' : proc'[q].states[Default] # None
  BY DEF Running
<1> QED BY <1>1, <1>2, <1>3 DEF HandledUnderLock

\* A process that starts, and what it does before it asks for the lock.
LEMMA StartHandled ==
  ASSUME TypeOK, HandledUnderLock, NEW p \in Process,
         Start(p) \/ ReadToken(p) \/ WriteToken(p)
  PROVE  HandledUnderLock'
<1> USE ServiceAssumption
<1>1. /\ UNCHANGED <<owner, request>> /\ ~Handling(p)
      /\ proc[p].at \in {"new", "token", "write"}
  BY DEF Start, ReadToken, WriteToken, Handling, Serving
<1>2. /\ proc'[p].at \in {"token", "write", "lock"}
      /\ proc'[p].states[Default] # None
      /\ \A q \in Process : q # p => proc'[q] = proc[q]
  <2>1. CASE Start(p)
    BY <2>1, ProcessStarts DEF TypeOK, Label
  <2>2. proc[p].at # "new" => proc[p].states[Default] # None
    BY <1>1 DEF HandledUnderLock, Running
  <2>3. CASE ReadToken(p)
    BY <2>2, <2>3, ProcessGoes, ProcessTakes, Typed DEF ReadToken
  <2>4. CASE WriteToken(p)
    BY <2>2, <2>4, ProcessTakes DEF WriteToken, Tokens
  <2> QED BY <2>1, <2>3, <2>4
<1>3. \A q \in Process : /\ Serving(q)' => Serving(q)
                         /\ Handling(q) => Handling(q)'
                         /\ q \in Running' => proc'[q].states[Default] # None
  BY <1>1, <1>2 DEF HandledUnderLock, Serving, Handling, Running
<1> QED BY <1>1, <1>3, HandledStays DEF HandledUnderLock

LEMMA LeaveHandled ==
  ASSUME TypeOK, HandledUnderLock, NEW p \in Process,
         Refuse(p) \/ Close(p) \/ CutShort(p) \/ Exit(p) \/ Crash(p)
  PROVE  HandledUnderLock'
<1> USE ServiceAssumption
<1>1. /\ p \in Running /\ ~Serving(p)'
      /\ p \in Running' => proc'[p].states = proc[p].states
      /\ \A q \in Process : q # p => proc'[q] = proc[q]
  BY ProcessLeaves DEF Serving
<1>2. \A q \in Process : /\ Serving(q)' => Serving(q) /\ q # p
                         /\ q \in Running' => proc'[q].states[Default] # None
  BY <1>1 DEF HandledUnderLock, Serving, Running
\* Who still serves has the lock, and p does not.
<1>3. \A q \in Process : Serving(q)' => owner' = owner
  <2>1. CASE Refuse(p) \/ Exit(p) \/ Crash(p)
    BY <1>2, <2>1 DEF HandledUnderLock, Refuse, Exit, Crash
  <2>2. CASE Close(p) \/ CutShort(p)
    <3>1. Serving(p)
      BY <2>2 DEF Close, CutShort, Serving
    <3> QED BY <1>2, <3>1 DEF HandledUnderLock
  <2> QED BY <2>1, <2>2
\* The requests that are left are of others, or of p when its drain is cut short.
<1>4. \A r \in Request : request'[r].at # "free" =>
        /\ request'[r] = request[r]
        /\ request[r].process = p => CutShort(p)
  <2>1. CASE Refuse(p)
    BY <2>1 DEF Refuse, HandledUnderLock, Handling, Serving
  <2>2. CASE Close(p) \/ Exit(p)
    BY <2>2 DEF Close, Exit, Under
  <2>3. CASE CutShort(p)
    BY <2>3 DEF CutShort
  <2>4. CASE Crash(p)
    BY <2>4, NothingTyped DEF Crash, Under
  <2> QED BY <2>1, <2>2, <2>3, <2>4
<1>5. CutShort(p) => Handling(p)'
  BY ProcessGoes DEF CutShort, Handling
<1>6. \A r \in Request : request'[r].at # "free" =>
        Handling(request[r].process)'
  BY <1>1, <1>4, <1>5 DEF HandledUnderLock, Handling, Serving
<1> QED BY <1>2, <1>3, <1>4, <1>6, HandledStays

\* A handler keeps a configuration, and so does the monitor, never None.
LEMMA HandlerHandled ==
  ASSUME TypeOK, HandledUnderLock, NEW r \in Request, Handle(r)
  PROVE  HandledUnderLock'
<1> USE ServiceAssumption
<1>0. PICK p, t : p = request[r].process /\ t = request[r].tag
  OBVIOUS
<1>1. /\ p \in Process /\ Handling(p) /\ t \in Label /\ request[r].at # "free"
      /\ UNCHANGED owner /\ proc' \in [Process -> ProcType]
      /\ \A q \in Process : /\ proc'[q].at = proc[q].at
                            /\ q # p => proc'[q] = proc[q]
      /\ \A q \in Request : q # r => request'[q] = request[q]
      /\ request'[r].at = "free" \/ request'[r].process = request[r].process
  BY <1>0, HandlerSteps, RequestTyped
<1>2. proc[p].states[Default] # None /\ Default \in Label
  BY <1>1 DEF HandledUnderLock, Handling, Serving, Running, Label
<1>3. \/ UNCHANGED proc
      \/ \E policy \in Policy \cup {None} : policy # None /\ Keep(p, t, policy)
  <2>1. /\ sources[t] \in Policy \cup {None}
        /\ proc[p].states[Default] \in Policy \cup {None}
    BY <1>1, <1>2, Typed DEF ProcType
  <2>2. CASE Find(r)
    BY <1>0, <2>1, <2>2 DEF Find
  <2>3. CASE Seed(r)
    BY <1>0, <1>2, <2>1, <2>3 DEF Seed
  <2>4. ASSUME NEW policy \in Replacement, Replace(r, policy)
        PROVE  policy \in Policy /\ policy # None /\ Keep(p, t, policy)
    BY <1>0, <2>4 DEF Replace
  <2>5. CASE Miss(r) \/ MakeDirectory(r) \/ SeedFails(r) \/ Answer(r)
    BY <2>5 DEF Miss, MakeDirectory, SeedFails, Answer
  <2> QED BY <2>2, <2>3, <2>4, <2>5 DEF Handle
<1>4. proc'[p].states[Default] # None
  BY <1>1, <1>2, <1>3, ProcessKeeps
<1>5. \A q \in Process : /\ Serving(q)' => Serving(q)
                         /\ Handling(q) => Handling(q)'
                         /\ q \in Running' => proc'[q].states[Default] # None
  BY <1>1, <1>4 DEF HandledUnderLock, Serving, Handling, Running
<1>6. \A q \in Request : request'[q].at # "free" =>
        /\ request[q].at # "free" /\ request'[q].process = request[q].process
        /\ Handling(request[q].process)'
  BY <1>0, <1>1, <1>5 DEF HandledUnderLock
<1> QED BY <1>1, <1>5, <1>6, HandledStays

LEMMA NextHandled ==
  TypeOK /\ HandledUnderLock /\ [Next]_vars => HandledUnderLock'
<1> SUFFICES ASSUME TypeOK, HandledUnderLock, [Next]_vars
             PROVE  HandledUnderLock'
  OBVIOUS
<1> USE ServiceAssumption
\* Nobody serves while the lock is free.
<1>1. ASSUME NEW p \in Process, Lock(p) PROVE HandledUnderLock'
  <2>1. /\ proc[p].at = "lock" /\ owner = None /\ owner' = p
        /\ UNCHANGED request
    BY <1>1 DEF Lock
  <2>2. \A q \in Process : ~Serving(q)
    BY <2>1 DEF HandledUnderLock
  <2>3. /\ proc'[p].at = "serve"
        /\ proc'[p].states = proc[p].states
        /\ \A q \in Process : q # p => proc'[q] = proc[q]
    BY <1>1, <2>1, ProcessGoes DEF Lock
  <2>4. \A q \in Process : Handling(q) => Handling(q)'
    BY <2>1, <2>3 DEF Handling, Serving
  <2>5. \A q \in Running' : proc'[q].states[Default] # None
    BY <2>1, <2>3 DEF HandledUnderLock, Running
  <2>6. \A q \in Process : Serving(q)' => q = p
    BY <2>2, <2>3 DEF Serving
  <2> QED BY <2>1, <2>4, <2>5, <2>6 DEF HandledUnderLock
<1>2. ASSUME NEW p \in Process, Stop(p) PROVE HandledUnderLock'
  <2>1. proc[p].at = "serve" /\ UNCHANGED <<owner, request>>
    BY <1>2 DEF Stop, history, files
  <2>2. /\ proc'[p].at = "drain"
        /\ proc'[p].states = proc[p].states
        /\ \A q \in Process : q # p => proc'[q] = proc[q]
    BY <1>2, ProcessGoes DEF Stop
  <2>3. \A q \in Process : /\ Serving(q)' <=> Serving(q)
                           /\ Handling(q)' <=> Handling(q)
                           /\ q \in Running' => proc'[q].states[Default] # None
    BY <2>1, <2>2 DEF HandledUnderLock, Serving, Handling, Running
  <2> QED BY <2>1, <2>3, HandledStays DEF HandledUnderLock
<1>3. ASSUME NEW p \in Process, NEW r \in Request, NEW t \in Label,
             Accept(r, p, t)
      PROVE  HandledUnderLock'
  <2>1. /\ request'[r].process = p /\ Serving(p)
        /\ \A q \in Request : q # r => request'[q] = request[q]
        /\ UNCHANGED <<owner, proc>>
    BY <1>3, Typed DEF Accept, Serving
  <2> QED BY <2>1 DEF HandledUnderLock, Serving, Handling, Running
<1>4. ASSUME NEW p \in Process, NEW t \in Tag, Scan(p, t)
      PROVE  HandledUnderLock'
  <2>1. /\ UNCHANGED <<owner, request>> /\ proc'[p].at = proc[p].at
        /\ proc'[p].states[Default] = proc[p].states[Default]
        /\ \A q \in Process : q # p => proc'[q] = proc[q]
    BY <1>4, ScanSteps DEF Label
  <2>2. \A q \in Process : /\ Serving(q)' <=> Serving(q)
                           /\ Handling(q)' <=> Handling(q)
                           /\ q \in Running' => proc'[q].states[Default] # None
    BY <2>1 DEF HandledUnderLock, Serving, Handling, Running
  <2> QED BY <2>1, <2>2, HandledStays DEF HandledUnderLock
<1>5. CASE UNCHANGED vars
  BY <1>5 DEF vars, HandledUnderLock, Serving, Handling, Running
<1> QED BY <1>1, <1>2, <1>3, <1>4, <1>5, StartHandled, LeaveHandled,
           HandlerHandled DEF Next

\* No process begins to serve, and no request begins.
LEMMA OneAtATimeStays ==
  ASSUME OneAtATime, UNCHANGED overlapped,
         \A q \in Process : Serving(q)' => Serving(q),
         \A r \in Request : request'[r].at # "free" =>
           request[r].at # "free" /\ request'[r].process = request[r].process
  PROVE  OneAtATime'
BY DEF OneAtATime, Serving

LEMMA NextOneAtATime ==
  TypeOK /\ HandledUnderLock /\ OneAtATime /\ [Next]_vars => OneAtATime'
<1> SUFFICES ASSUME TypeOK, HandledUnderLock, OneAtATime, [Next]_vars
             PROVE  OneAtATime'
  OBVIOUS
<1> USE ServiceAssumption
<1>1. ASSUME NEW p \in Process, Start(p) \/ ReadToken(p) \/ WriteToken(p) \/ Stop(p)
      PROVE  OneAtATime'
  <2>1. UNCHANGED <<request, overlapped>>
    BY <1>1 DEF Start, ReadToken, WriteToken, Stop, history
  <2>2. CASE Start(p)
    BY <2>1, <2>2, ProcessStarts, OneAtATimeStays DEF Serving
  <2>3. CASE ReadToken(p)
    BY <2>1, <2>3, ProcessGoes, ProcessTakes, Typed, OneAtATimeStays
       DEF ReadToken, Serving
  <2>4. CASE WriteToken(p)
    BY <2>1, <2>4, ProcessTakes, OneAtATimeStays
       DEF WriteToken, Tokens, Serving
  <2>5. CASE Stop(p)
    BY <2>1, <2>5, ProcessGoes, OneAtATimeStays DEF Stop, Serving
  <2> QED BY <1>1, <2>2, <2>3, <2>4, <2>5
\* Requests beside a process that locks the directory are what `overlapped` says.
<1>2. ASSUME NEW p \in Process, Lock(p) PROVE OneAtATime'
  BY <1>2 DEF Lock, OneAtATime
<1>3. ASSUME NEW p \in Process,
             Refuse(p) \/ Close(p) \/ CutShort(p) \/ Exit(p) \/ Crash(p)
      PROVE  OneAtATime'
  <2>1. /\ UNCHANGED overlapped
        /\ \A q \in Process : Serving(q)' => Serving(q)
    BY <1>3, ProcessLeaves DEF Serving
  <2>2. \A r \in Request : request'[r].at # "free" => request'[r] = request[r]
    BY <1>3, NothingTyped DEF Refuse, Close, CutShort, Exit, Crash
  <2> QED BY <2>1, <2>2, OneAtATimeStays
<1>4. ASSUME NEW p \in Process, NEW r \in Request, NEW t \in Label,
             Accept(r, p, t)
      PROVE  OneAtATime'
  <2>1. /\ request'[r].process = p /\ Serving(p)
        /\ \A q \in Request : q # r => request'[q] = request[q]
        /\ UNCHANGED <<proc, overlapped>>
    BY <1>4, Typed DEF Accept, Serving, history
  <2>2. \A q \in Process : Serving(q) => q = p
    BY <2>1 DEF HandledUnderLock
  <2> QED BY <2>1, <2>2 DEF OneAtATime, Serving
<1>5. ASSUME NEW p \in Process, NEW t \in Tag, Scan(p, t) PROVE OneAtATime'
  BY <1>5, ScanSteps, OneAtATimeStays DEF Serving
<1>6. ASSUME NEW r \in Request, Handle(r) PROVE OneAtATime'
  <2>1. /\ UNCHANGED overlapped
        /\ \A q \in Process : proc'[q].at = proc[q].at
        /\ request[r].at # "free"
        /\ \A q \in Request : q # r => request'[q] = request[q]
        /\ request'[r].at = "free" \/ request'[r].process = request[r].process
    BY <1>6, HandlerSteps
  <2> QED BY <2>1, OneAtATimeStays DEF Serving
<1>7. CASE UNCHANGED vars
  BY <1>7, OneAtATimeStays DEF vars, history, Serving
<1> QED BY <1>1, <1>2, <1>3, <1>4, <1>5, <1>6, <1>7 DEF Next

-----------------------------------------------------------------------------
(* There is room for the namespaces that are made *)

LEMMA InitRoom == Init => RoomIsKept
<1> SUFFICES ASSUME Init PROVE RoomIsKept
  OBVIOUS
<1> USE ServiceAssumption
<1>1. Initialized = {}
  BY DEF Init, Initialized, Label
<1>2. \A p \in Process : Cached(p) = {}
  BY NothingTyped DEF Init, Cached, Label
<1>3. \A r \in Request : request[r].at = "free"
  BY NothingTyped DEF Init
<1>4. IsFiniteSet(Initialized) /\ Cardinality(Initialized) <= MaxSenders
  BY <1>1, FS_EmptySet
<1> QED BY <1>1, <1>2, <1>3, <1>4 DEF RoomIsKept, Makes

\* A step that makes no namespace, keeps no state and begins no work.
LEMMA RoomStays ==
  ASSUME RoomIsKept, UNCHANGED <<sources, directories>>,
         overlapped => overlapped',
         \A p \in Process, t \in Tag :
           proc'[p].states[t] \in {None, proc[p].states[t]},
         \A r \in Request : \/ request'[r] = request[r]
                            \/ request'[r].at \in {"free", "find"}
  PROVE  RoomIsKept'
<1>1. Initialized' = Initialized
  BY DEF Initialized
<1>2. \A p \in Process : Cached(p)' \subseteq Cached(p)
  BY DEF Cached
<1> QED BY <1>1, <1>2 DEF RoomIsKept, Makes

\* While one process at a time makes namespaces, one Turn is enough.
LEMMA OneMaker ==
  ASSUME OneAtATime, ~overlapped, NEW p \in Process, Turn(p),
         NEW r \in Request, request[r].process = p, request[r].at # "free",
         NEW other \in Request
  PROVE  ~Makes(other)
BY DEF OneAtATime, Turn, Making, Under, Makes

\* A handler that makes nothing keeps what is there: its own label is.
LEMMA HandlerKeepsRoom ==
  ASSUME TypeOK, HandledUnderLock, RoomIsKept, NEW r \in Request, Handle(r),
         UNCHANGED directories, request'[r].at \notin {"directory", "seed"},
         \A t \in Tag : sources[t] # None <=> sources'[t] # None,
         request'[r].at = "work" => request[r].tag \in Initialized \cup {Default},
         \A t \in Tag : proc'[request[r].process].states[t] # None =>
           t \in Initialized
  PROVE  RoomIsKept'
<1>1. Initialized' = Initialized
  BY DEF Initialized
<1>2. /\ \A p \in Process : p # request[r].process => proc'[p] = proc[p]
      /\ \A other \in Request : other # r => request'[other] = request[other]
      /\ request'[r].at = "free" \/ request'[r].tag = request[r].tag
      /\ UNCHANGED overlapped
  BY HandlerSteps
<1>3. \A p \in Process : Cached(p)' \subseteq Initialized
  BY <1>2 DEF RoomIsKept, Cached
<1>4. \A other \in Request : Makes(other)' => Makes(other) /\ other # r
  BY <1>2 DEF Makes
<1> QED BY <1>1, <1>2, <1>3, <1>4 DEF RoomIsKept, Makes

LEMMA HandlerRoom ==
  ASSUME TypeOK, HandledUnderLock, OneAtATime, RoomIsKept, NEW r \in Request, Handle(r)
  PROVE  RoomIsKept'
<1> USE ServiceAssumption DEF files
<1>0. PICK p, t : p = request[r].process /\ t = request[r].tag
  OBVIOUS
<1>1. /\ p \in Process /\ t \in Label
      /\ request[r].at # "free" /\ UNCHANGED overlapped
      /\ \A q \in Process : q # p => proc'[q] = proc[q]
      /\ \A other \in Request : other # r => request'[other] = request[other]
  BY <1>0, HandlerSteps, RequestTyped
<1>2. /\ Cached(p) \subseteq Initialized /\ t \in Tag \cup {Default}
      /\ sources[Default] # None /\ sources[t] \in Policy \cup {None}
      /\ proc[p].states[Default] \in Policy \cup {None}
  BY <1>1, Typed DEF RoomIsKept, TypeOK, Label, ProcType
<1>cached. ASSUME UNCHANGED proc
           PROVE  \A u \in Tag : proc'[p].states[u] # None => u \in Initialized
  BY <1>cached, <1>2 DEF Cached
<1>kept. ASSUME t \in Initialized \cup {Default}, NEW policy \in Policy \cup {None},
                Keep(p, t, policy)
         PROVE  \A u \in Tag : proc'[p].states[u] # None => u \in Initialized
  <2>1. \A u \in Label : proc'[p].states[u]
          = IF u = t THEN policy ELSE proc[p].states[u]
    BY <1>1, <1>kept, ProcessKeeps
  <2> QED BY <1>kept, <1>2, <2>1 DEF Cached, Label
<1>3. CASE Find(r)
  <2>1. /\ UNCHANGED <<sources, directories>>
        /\ Step(r, "work") \/ End(r)
    BY <1>3 DEF Find
  <2>2. request'[r].at \in {"work", "free"}
    BY <2>1, RequestGoes, RequestEnds
  <2>3. CASE proc[p].states[t] # None /\ UNCHANGED proc
    <3>1. t \in Initialized \cup {Default}
      BY <1>2, <2>3 DEF Cached
    <3> QED BY <1>0, <2>1, <2>2, <2>3, <3>1, <1>cached, HandlerKeepsRoom
  <2>4. CASE sources[t] # None /\ Keep(p, t, sources[t])
    <3>1. t \in Initialized \cup {Default}
      BY <1>2, <2>4 DEF Initialized
    <3> QED BY <1>0, <1>2, <2>1, <2>2, <2>4, <3>1, <1>kept, HandlerKeepsRoom
  <2>5. CASE UNCHANGED proc /\ End(r)
    <3>1. request'[r].at = "free"
      BY <2>5, RequestEnds
    <3> QED BY <1>0, <2>1, <2>5, <3>1, <1>cached, HandlerKeepsRoom
  <2> QED BY <1>0, <1>3, <2>3, <2>4, <2>5 DEF Find
\* The limit is looked at when nobody is making one.
<1>4. CASE Miss(r)
  <2>1. /\ UNCHANGED <<sources, directories, proc>> /\ Step(r, "directory")
        /\ sources[t] = None /\ Turn(p)
        /\ Cardinality(Initialized \cup Cached(p)) < MaxSenders
    BY <1>0, <1>4 DEF Miss
  <2>2. Initialized \cup Cached(p) = Initialized /\ t \in Tag
    BY <1>2, <2>1
  <2>3. ~overlapped => \A other \in Request : ~Makes(other)
    BY <1>0, <1>1, <2>1, OneMaker
  <2>4. request'[r].at = "directory" /\ request'[r].tag = t
    BY <1>0, <2>1, RequestGoes
  <2>5. /\ Initialized' = Initialized
        /\ \A q \in Process : Cached(q)' = Cached(q)
    BY <2>1 DEF Initialized, Cached
  <2>6. Cardinality(Initialized)' < MaxSenders
    BY <2>1, <2>2, <2>5
  <2>7. ~overlapped => \A other \in Request : Makes(other)' => other = r
    BY <1>1, <2>3 DEF Makes
  <2> QED BY <1>1, <2>1, <2>2, <2>4, <2>5, <2>6, <2>7
        DEF RoomIsKept, Makes
<1>5. CASE MakeDirectory(r)
  <2>1. /\ UNCHANGED <<sources, proc>> /\ Step(r, "seed") /\ Makes(r)
        /\ directories' = directories \cup {t}
    BY <1>0, <1>5 DEF MakeDirectory, Makes
  <2>2. request'[r].at = "seed" /\ request'[r].tag = t
    BY <1>0, <2>1, RequestGoes
  <2>3. /\ Initialized' = Initialized
        /\ \A q \in Process : Cached(q)' = Cached(q)
    BY <2>1 DEF Initialized, Cached
  <2>4. \A other \in Request : Makes(other)' => Makes(other)
    BY <1>1, <2>1 DEF Makes
  <2> QED BY <1>0, <1>1, <2>1, <2>2, <2>3, <2>4
        DEF RoomIsKept, Makes
\* The namespace is there, and with it one more than there were.
<1>6. CASE Seed(r)
  <2>1. PICK policy \in Policy \cup {None} :
          /\ sources' = [sources EXCEPT ![t] = policy]
          /\ Keep(p, t, policy) /\ Step(r, "work") /\ UNCHANGED directories
          /\ policy = proc[p].states[Default]
    BY <1>0, <1>2, <1>6 DEF Seed
  <2>2. policy # None /\ Makes(r) /\ t \in Tag
    <3>1. request[r].at = "seed"
      BY <1>6 DEF Seed
    <3> QED BY <1>0, <1>1, <2>1, <3>1, HandlerSteps
          DEF HandledUnderLock, RoomIsKept, Makes, Handling, Serving, Running
  <2>3. sources \in [Label -> Policy \cup {None}]
    BY Typed
  <2>4. Initialized' = Initialized \cup {t}
    BY <2>1, <2>2, <2>3 DEF Initialized, Label
  <2>5. /\ IsFiniteSet(Initialized)
        /\ ~overlapped => /\ Cardinality(Initialized) < MaxSenders
                          /\ \A other \in Request : Makes(other) => other = r
    BY <2>2 DEF RoomIsKept
  <2>6. /\ IsFiniteSet(Initialized')
        /\ ~overlapped => Cardinality(Initialized') <= MaxSenders
    <3>1. Cardinality(Initialized) \in Nat
      BY <2>5, FS_CardinalityType
    <3>2. /\ IsFiniteSet(Initialized \cup {t})
          /\ \/ Cardinality(Initialized \cup {t}) = Cardinality(Initialized)
             \/ Cardinality(Initialized \cup {t}) = Cardinality(Initialized) + 1
      BY <2>5, FS_AddElement
    <3>3. MaxSenders \in Nat
      OBVIOUS
    <3> QED BY <2>4, <2>5, <3>1, <3>2, <3>3
  <2>7. request'[r].at = "work" /\ request'[r].tag = t
    BY <1>0, <2>1, RequestGoes
  <2>8. \A q \in Process : Cached(q)' \subseteq Initialized'
    <3>1. \A u \in Label : proc'[p].states[u]
            = IF u = t THEN policy ELSE proc[p].states[u]
      BY <1>1, <2>1, ProcessKeeps
    <3>2. Cached(p)' \subseteq Cached(p) \cup {t}
      BY <3>1 DEF Cached, Label
    <3>3. \A q \in Process : q # p => Cached(q)' = Cached(q)
      BY <1>1 DEF Cached
    <3> QED BY <2>4, <3>2, <3>3 DEF RoomIsKept
  <2>9. ~overlapped => \A other \in Request : ~Makes(other)'
    BY <1>1, <2>5, <2>7 DEF Makes
  <2> QED BY <1>1, <2>1, <2>4, <2>6, <2>7, <2>8, <2>9
        DEF RoomIsKept, Makes
<1>7. ASSUME NEW policy \in Replacement, Replace(r, policy) PROVE RoomIsKept'
  <2>1. /\ sources' = [sources EXCEPT ![t] = policy] /\ Keep(p, t, policy)
        /\ End(r) /\ UNCHANGED directories /\ request[r].at = "work"
        /\ policy \in Policy
    BY <1>0, <1>7 DEF Replace
  <2>2. t \in Initialized \cup {Default} /\ policy # None
    BY <1>0, <2>1 DEF RoomIsKept
  <2>3. \A u \in Tag : sources[u] # None <=> sources'[u] # None
    BY <2>1, <2>2, Typed DEF Initialized, Label
  <2>4. request'[r].at = "free"
    BY <2>1, RequestEnds
  <2> QED BY <1>0, <2>1, <2>2, <2>3, <2>4, <1>kept, HandlerKeepsRoom
<1>8. CASE SeedFails(r) \/ Answer(r)
  <2>1. UNCHANGED <<sources, directories, proc>> /\ End(r)
    BY <1>8 DEF SeedFails, Answer
  <2>2. request'[r].at = "free"
    BY <2>1, RequestEnds
  <2> QED BY <1>0, <2>1, <2>2, <1>cached, HandlerKeepsRoom
<1> QED BY <1>3, <1>4, <1>5, <1>6, <1>7, <1>8 DEF Handle

LEMMA NextRoom ==
  TypeOK /\ HandledUnderLock /\ OneAtATime /\ RoomIsKept /\ [Next]_vars
    => RoomIsKept'
<1> SUFFICES ASSUME TypeOK, HandledUnderLock, OneAtATime, RoomIsKept, [Next]_vars
             PROVE  RoomIsKept'
  OBVIOUS
<1> USE DEF files, history
<1>1. ASSUME NEW p \in Process, Start(p) PROVE RoomIsKept'
  <2>1. \A t \in Tag : proc'[p].states[t] = None
    BY <1>1, ProcessStarts, ServiceAssumption DEF Label
  <2> QED BY <1>1, <2>1, ProcessStarts, RoomStays DEF Start
<1>2. ASSUME NEW p \in Process, ReadToken(p) \/ WriteToken(p) \/ Lock(p) \/ Stop(p)
      PROVE  RoomIsKept'
  <2>1. proc'[p].states = proc[p].states
        /\ \A q \in Process : q # p => proc'[q] = proc[q]
    <3>1. CASE Lock(p) \/ Stop(p)
      BY <3>1, ProcessGoes DEF Lock, Stop
    <3>2. CASE ReadToken(p)
      BY <3>2, ProcessGoes, ProcessTakes, Typed DEF ReadToken
    <3>3. CASE WriteToken(p)
      BY <3>3, ProcessTakes DEF WriteToken, Tokens
    <3> QED BY <1>2, <3>1, <3>2, <3>3
  <2>2. UNCHANGED <<sources, directories, request>>
    BY <1>2 DEF ReadToken, WriteToken, Lock, Stop
  <2>3. overlapped => overlapped'
    <3>1. CASE Lock(p)
      BY <3>1, Zenon DEF Lock
    <3>2. CASE ReadToken(p) \/ WriteToken(p) \/ Stop(p)
      BY <3>2 DEF ReadToken, WriteToken, Stop
    <3> QED BY <1>2, <3>1, <3>2
  <2> QED BY <2>1, <2>2, <2>3, RoomStays
<1>3. ASSUME NEW p \in Process,
             Refuse(p) \/ Close(p) \/ CutShort(p) \/ Exit(p) \/ Crash(p)
      PROVE  RoomIsKept'
  <2>1. /\ \A t \in Label : proc'[p].states[t] \in {None, proc[p].states[t]}
        /\ \A q \in Process : q # p => proc'[q] = proc[q]
        /\ UNCHANGED <<sources, directories, overlapped>>
    BY <1>3, ProcessLeaves
  <2>2. \A r \in Request : \/ request'[r] = request[r]
                           \/ request'[r].at \in {"free", "find"}
    BY <1>3, NothingTyped DEF Refuse, Close, CutShort, Exit, Crash
  <2> QED BY <2>1, <2>2, RoomStays DEF Label
<1>4. ASSUME NEW p \in Process, NEW r \in Request, NEW t \in Label,
             Accept(r, p, t)
      PROVE  RoomIsKept'
  <2>1. /\ request'[r].at = "find"
        /\ \A q \in Request : q # r => request'[q] = request[q]
        /\ UNCHANGED <<sources, directories, proc, overlapped>>
    BY <1>4, Typed DEF Accept
  <2> QED BY <2>1, RoomStays
\* The monitor makes no namespace: it finds those that are there.
<1>5. ASSUME NEW p \in Process, NEW t \in Tag, Scan(p, t) PROVE RoomIsKept'
  <2>1. /\ UNCHANGED <<sources, directories, request, overlapped>>
        /\ \A u \in Label : proc'[p].states[u]
             = IF u = t THEN sources[t] ELSE proc[p].states[u]
        /\ \A q \in Process : q # p => proc'[q] = proc[q]
        /\ t \in Initialized
    BY <1>5, ScanSteps DEF Initialized
  <2>2. Initialized' = Initialized
    BY <2>1 DEF Initialized
  <2>3. \A q \in Process : Cached(q)' \subseteq Initialized
    <3>1. Cached(p)' \subseteq Cached(p) \cup {t}
      BY <2>1 DEF Cached, Label
    <3>2. \A q \in Process : q # p => Cached(q)' = Cached(q)
      BY <2>1 DEF Cached
    <3> QED BY <2>1, <3>1, <3>2 DEF RoomIsKept
  <2> QED BY <2>1, <2>2, <2>3 DEF RoomIsKept, Makes
<1>6. CASE UNCHANGED vars
  BY <1>6, RoomStays DEF vars
<1> QED BY <1>1, <1>2, <1>3, <1>4, <1>5, <1>6, HandlerRoom DEF Next

-----------------------------------------------------------------------------
(* Types *)

LEMMA InitTyped == Init => TypeOK
<1> SUFFICES ASSUME Init PROVE TypeOK
  OBVIOUS
<1> USE ServiceAssumption
<1>1. /\ sources \in [Label -> Policy \cup {None}] /\ sources[Default] # None
      /\ Initialized = {}
  BY DEF Init, Label, Initialized
<1>2. proc \in [Process -> ProcType] /\ request \in [Request -> RequestType]
  BY NothingTyped DEF Init
<1> QED BY <1>1, <1>2 DEF Init, TypeOK, ProcType, RequestType, Tokens

\* A step that changes no file but the token.
LEMMA SameFilesTyped ==
  ASSUME TypeOK, UNCHANGED <<sources, directories>>, token' \in Tokens,
         owner' \in Process \cup {None}, overlapped' \in BOOLEAN,
         alone' \subseteq Process, proc' \in [Process -> ProcType],
         request' \in [Request -> RequestType]
  PROVE  TypeOK'
<1>1. Initialized' = Initialized
  BY DEF Initialized
<1> QED BY <1>1 DEF TypeOK, ProcType, RequestType, Tokens

LEMMA NextTyped ==
  TypeOK /\ HandledUnderLock /\ RoomIsKept /\ [Next]_vars => TypeOK'
<1> SUFFICES ASSUME TypeOK, HandledUnderLock, RoomIsKept, [Next]_vars
             PROVE  TypeOK'
  OBVIOUS
<1> USE ServiceAssumption DEF files, history
<1>types. /\ proc \in [Process -> ProcType] /\ request \in [Request -> RequestType]
          /\ token \in Tokens /\ sources \in [Label -> Policy \cup {None}]
          /\ owner \in Process \cup {None} /\ overlapped \in BOOLEAN
          /\ alone \subseteq Process
  BY Typed DEF TypeOK
<1>1. ASSUME NEW p \in Process, Start(p) PROVE TypeOK'
  <2>1. proc' \in [Process -> ProcType]
    BY <1>1, ProcessStarts
  <2>2. alone' \subseteq Process
    BY <1>1, <1>types DEF Start
  <2> QED BY <1>1, <1>types, <2>1, <2>2, SameFilesTyped DEF Start
<1>2. ASSUME NEW p \in Process, ReadToken(p) \/ Lock(p) \/ Stop(p)
      PROVE  TypeOK'
  <2>1. proc' \in [Process -> ProcType]
    <3>1. CASE Lock(p) \/ Stop(p)
      BY <3>1, ProcessGoes DEF Lock, Stop
    <3>2. CASE ReadToken(p)
      BY <3>2, <1>types, ProcessGoes, ProcessTakes DEF ReadToken
    <3> QED BY <1>2, <3>1, <3>2
  <2>2. UNCHANGED <<sources, directories, request, token>>
        /\ owner' \in Process \cup {None} /\ alone' \subseteq Process
    BY <1>2, <1>types DEF ReadToken, Lock, Stop
  <2>3. overlapped' \in BOOLEAN
    BY <1>2, <1>types DEF ReadToken, Lock, Stop
  <2> QED BY <1>types, <2>1, <2>2, <2>3, SameFilesTyped
<1>3. ASSUME NEW p \in Process, WriteToken(p) PROVE TypeOK'
  <2>1. proc' \in [Process -> ProcType] /\ token' \in Tokens
    BY <1>3, ProcessTakes DEF WriteToken, Tokens
  <2> QED BY <1>3, <1>types, <2>1, SameFilesTyped DEF WriteToken
<1>4. ASSUME NEW p \in Process,
             Refuse(p) \/ Close(p) \/ CutShort(p) \/ Exit(p) \/ Crash(p)
      PROVE  TypeOK'
  <2>1. proc' \in [Process -> ProcType]
        /\ UNCHANGED <<sources, directories, token, overlapped>>
    BY <1>4, ProcessLeaves
  <2>2. owner' \in Process \cup {None} /\ alone' \subseteq Process
    BY <1>4, <1>types DEF Refuse, Close, CutShort, Exit, Crash
  <2>3. request' \in [Request -> RequestType]
    BY <1>4, <1>types, NothingTyped DEF Refuse, Close, CutShort, Exit, Crash
  <2> QED BY <1>types, <2>1, <2>2, <2>3, SameFilesTyped
<1>5. ASSUME NEW p \in Process, NEW r \in Request, NEW t \in Label,
             Accept(r, p, t)
      PROVE  TypeOK'
  <2>1. [at |-> "find", process |-> p, tag |-> t] \in RequestType
    BY DEF RequestType
  <2>2. request' \in [Request -> RequestType]
    BY <1>5, <2>1, <1>types DEF Accept
  <2> QED BY <1>5, <1>types, <2>2, SameFilesTyped DEF Accept
\* Handlers write where their namespace has its directory.
<1>6. ASSUME NEW r \in Request, Handle(r) PROVE TypeOK'
  <2>0. PICK t : t = request[r].tag
    OBVIOUS
  <2>1. /\ UNCHANGED <<token, owner, alone, overlapped>> /\ t \in Label
        /\ proc' \in [Process -> ProcType] /\ request' \in [Request -> RequestType]
    BY <1>6, <2>0, HandlerSteps, RequestTyped
  <2>files. ASSUME /\ sources' \in [Label -> Policy \cup {None}]
                   /\ sources'[Default] # None
                   /\ Initialized' \subseteq directories'
                   /\ directories' \subseteq Tag
            PROVE  TypeOK'
    BY <2>files, <2>1, <1>types DEF TypeOK, ProcType, RequestType, Tokens
  <2>written. ASSUME NEW policy \in Policy \cup {None},
                     policy = None => t # Default,
                     sources' = [sources EXCEPT ![t] = policy],
                     UNCHANGED directories, t \in directories \cup {Default}
              PROVE  TypeOK'
    <3>1. sources' \in [Label -> Policy \cup {None}] /\ sources'[Default] # None
      BY <2>written, <2>1, <1>types DEF TypeOK, Label
    <3>2. Initialized' \subseteq Initialized \cup ({t} \ {Default})
      BY <2>written, <1>types DEF Initialized, Label
    <3> QED BY <2>written, <3>1, <3>2, <2>files DEF TypeOK
  <2>2. CASE Find(r) \/ Miss(r) \/ SeedFails(r) \/ Answer(r)
    BY <2>1, <2>2, <1>types, SameFilesTyped DEF Find, Miss, SeedFails, Answer
  <2>3. CASE MakeDirectory(r)
    <3>1. directories' = directories \cup {t} /\ t \in Tag /\ UNCHANGED sources
      BY <2>0, <2>3 DEF MakeDirectory, RoomIsKept, Makes
    <3>2. Initialized' = Initialized
      BY <3>1 DEF Initialized
    <3> QED BY <3>1, <3>2, <2>files DEF TypeOK
  <2>4. CASE Seed(r)
    <3>1. /\ t \in directories /\ t # Default /\ UNCHANGED directories
          /\ sources' = [sources EXCEPT
                           ![t] = proc[request[r].process].states[Default]]
      BY <2>0, <2>4 DEF Seed, RoomIsKept, Makes
    <3>2. proc[request[r].process].states[Default] \in Policy \cup {None}
      BY <1>6, <1>types, HandlerSteps DEF ProcType, Label
    <3> QED BY <3>1, <3>2, <2>written
  <2>5. ASSUME NEW policy \in Replacement, Replace(r, policy) PROVE TypeOK'
    <3>1. /\ sources' = [sources EXCEPT ![t] = policy] /\ UNCHANGED directories
          /\ policy \in Policy /\ t \in Initialized \cup {Default}
      BY <2>0, <2>5 DEF Replace, RoomIsKept
    <3>2. t \in directories \cup {Default} /\ policy # None
      BY <3>1 DEF TypeOK
    <3> QED BY <3>1, <3>2, <2>written
  <2> QED BY <1>6, <2>2, <2>3, <2>4, <2>5 DEF Handle
<1>7. ASSUME NEW p \in Process, NEW t \in Tag, Scan(p, t) PROVE TypeOK'
  BY <1>7, <1>types, ScanSteps, SameFilesTyped
<1>8. CASE UNCHANGED vars
  BY <1>8, <1>types, SameFilesTyped DEF vars
<1> QED BY <1>1, <1>2, <1>3, <1>4, <1>5, <1>6, <1>7, <1>8 DEF Next

-----------------------------------------------------------------------------
(* Who starts alone serves what is stored *)

LEMMA InitAlone == Init => StartedAlone
BY DEF Init, StartedAlone

\* What one has that is alone, next to another process.
LEMMA BesideAlone ==
  ASSUME TypeOK, StartedAlone, NEW q \in Process, q \notin Starting,
         proc[q].at \notin {"new", "down"}, NEW p \in alone
  PROVE  p = q /\ Serving(p)
<1>1. p \in Process
  BY DEF TypeOK
<1>2. proc[q].at \notin {"token", "write", "lock"}
  BY DEF Starting, Running
<1> QED BY <1>1, <1>2 DEF StartedAlone

\* A step that leaves those alone that are, and makes nobody alone.
LEMMA AloneStays ==
  ASSUME TypeOK, StartedAlone, NEW q \in Process, alone' \subseteq alone \ {q},
         \A p \in Process : p # q => proc'[p] = proc[p],
         UNCHANGED <<sources, token>>,
         proc'[q].at \in {"new", "token", "lock", "down"}
  PROVE  StartedAlone'
<1> SUFFICES ASSUME NEW p \in alone', NEW o \in Process, o # p
             PROVE  /\ (p \in Starting \/ Serving(p))'
                    /\ proc'[o].at \in {"new", "token", "write", "lock", "down"}
                    /\ proc'[p].at # "token" => proc'[o].at # "write"
                    /\ proc'[p].at = "write" => token' = None
                    /\ proc'[p].at \in {"lock", "serve", "drain"} =>
                         token' # None /\ proc'[p].token = token'
                    /\ \A t \in Label : proc'[p].states[t] \in {None, sources'[t]}
  <2>1. alone' \subseteq Process
    BY DEF TypeOK
  <2>2. \A p \in alone' :
          /\ p \in Process /\ p \in alone /\ p # q /\ proc'[p] = proc[p]
          /\ (p \in Starting \/ Serving(p))'
          /\ proc'[p].at = "write" => token' = None
          /\ proc'[p].at \in {"lock", "serve", "drain"} =>
               token' # None /\ proc'[p].token = token'
          /\ \A t \in Label : proc'[p].states[t] \in {None, sources'[t]}
    BY <2>1 DEF StartedAlone, Starting, Running, Serving
  <2> QED BY <2>2 DEF StartedAlone
<1>1. p \in alone /\ p # q /\ p \in Process /\ proc'[p] = proc[p]
  BY DEF TypeOK
<1>2. /\ p \in Starting \/ Serving(p)
      /\ proc[o].at \in {"new", "token", "write", "lock", "down"}
      /\ proc[p].at # "token" => proc[o].at # "write"
      /\ proc[p].at = "write" => token = None
      /\ proc[p].at \in {"lock", "serve", "drain"} =>
           token # None /\ proc[p].token = token
      /\ \A t \in Label : proc[p].states[t] \in {None, sources[t]}
  BY <1>1 DEF StartedAlone
<1>3. (p \in Starting \/ Serving(p))'
  BY <1>1, <1>2 DEF Starting, Running, Serving
<1>4. CASE o = q
  BY <1>1, <1>2, <1>3, <1>4
<1>5. CASE o # q
  BY <1>1, <1>2, <1>3, <1>5
<1> QED BY <1>4, <1>5

\* A process that is alone and goes on, while all others stay where they are.
LEMMA AloneGoes ==
  ASSUME TypeOK, StartedAlone, NEW q \in Process, alone' \subseteq {q}, q \in alone,
         \A p \in Process : p # q =>
           /\ proc'[p] = proc[p]
           /\ proc[p].at \in {"new", "token", "lock", "down"},
         proc'[q].at \in {"write", "lock", "serve", "drain"},
         proc'[q].at = "write" => token' = None,
         proc'[q].at # "write" => token' # None /\ proc'[q].token = token',
         \A t \in Label : proc'[q].states[t] \in {None, sources'[t]}
  PROVE  StartedAlone'
BY DEF StartedAlone, Starting, Running, Serving

LEMMA NextAlone ==
  TypeOK /\ HandledUnderLock /\ StartedAlone /\ [Next]_vars => StartedAlone'
<1> SUFFICES ASSUME TypeOK, HandledUnderLock, StartedAlone, [Next]_vars
             PROVE  StartedAlone'
  OBVIOUS
<1> USE ServiceAssumption DEF files, history
<1>0. alone \subseteq Process
  BY DEF TypeOK
<1>1. ASSUME NEW q \in Process, Start(q) PROVE StartedAlone'
  <2>1. /\ proc[q].at = "new" /\ proc'[q].at = "token"
        /\ \A t \in Label : proc'[q].states[t] \in {None, sources[t]}
        /\ \A p \in Process : p # q => proc'[p] = proc[p]
    BY <1>1, ProcessStarts
  <2>2. UNCHANGED <<sources, token>>
    BY <1>1 DEF Start
  <2>3. CASE Running = {}
    <3>1. alone' = {q}
      BY <1>1, <2>3 DEF Start
    <3>2. \A p \in Process : p # q => proc'[p].at \in {"new", "down"}
      BY <2>1, <2>3 DEF Running
    <3> QED BY <2>1, <2>2, <3>1, <3>2 DEF StartedAlone, Starting, Running
  <2>4. CASE Running # {}
    <3>1. alone' = alone \ {q}
      BY <1>1, <2>4 DEF Start
    <3> QED BY <2>1, <2>2, <3>1, AloneStays
  <2> QED BY <2>3, <2>4
\* If it is alone it takes its token into the lock; if not, one is there, or it
\* meets another that makes one up.
<1>2. ASSUME NEW q \in Process, ReadToken(q) PROVE StartedAlone'
  <2>1. /\ proc[q].at = "token" /\ UNCHANGED <<sources, token>>
        /\ token \in Tokens
        /\ alone' = IF Writing = {} THEN alone ELSE alone \ (Writing \cup {q})
    BY <1>2, Typed DEF ReadToken
  <2>2. /\ proc'[q].states = proc[q].states
        /\ \A p \in Process : p # q => proc'[p] = proc[p]
        /\ \/ token = None /\ proc'[q].at = "write"
           \/ token # None /\ proc'[q].at = "lock" /\ proc'[q].token = token
    BY <1>2, <2>1, ProcessGoes, ProcessTakes DEF ReadToken
  <2>3. CASE Writing = {}
    <3>1. \A p \in Process : proc[p].at # "write"
      BY <2>3 DEF Writing, Running
    <3> SUFFICES ASSUME NEW p \in alone, NEW o \in Process, o # p
                 PROVE  /\ (p \in Starting \/ Serving(p))'
                        /\ proc'[o].at \in {"new", "token", "write", "lock", "down"}
                        /\ proc'[p].at # "token" => proc'[o].at # "write"
                        /\ proc'[p].at = "write" => token = None
                        /\ proc'[p].at \in {"lock", "serve", "drain"} =>
                             token # None /\ proc'[p].token = token
                        /\ \A t \in Label : proc'[p].states[t] \in {None, sources[t]}
      <4>1. \A p \in alone :
              /\ (p \in Starting \/ Serving(p))'
              /\ proc'[p].at = "write" => token = None
              /\ proc'[p].at \in {"lock", "serve", "drain"} =>
                   token # None /\ proc'[p].token = token
              /\ \A t \in Label : proc'[p].states[t] \in {None, sources[t]}
        BY <1>0, <2>1, <2>2 DEF StartedAlone, Starting, Running, Serving
      <4> QED BY <2>1, <2>3, <4>1 DEF StartedAlone
    <3>2. /\ p \in Process /\ (p \in Starting \/ Serving(p))
          /\ proc[o].at \in {"new", "token", "write", "lock", "down"}
          /\ proc[p].at \in {"lock", "serve", "drain"} =>
               token # None /\ proc[p].token = token
          /\ \A t \in Label : proc[p].states[t] \in {None, sources[t]}
      BY <1>0 DEF StartedAlone
    <3>3. CASE p = q
      BY <2>1, <2>2, <3>1, <3>2, <3>3 DEF Starting, Running, Serving
    <3>4. CASE p # q
      <4>1. proc'[p] = proc[p] /\ (p \in Starting \/ Serving(p))'
        BY <2>2, <3>2, <3>4 DEF Starting, Running, Serving
      <4>2. proc[p].at # "token" => token # None
        BY <3>1, <3>2 DEF Starting, Running, Serving
      <4>3. proc'[o].at \in {"new", "token", "write", "lock", "down"}
            /\ (proc[p].at # "token" => proc'[o].at # "write")
        BY <2>2, <3>1, <3>2, <4>2
      <4> QED BY <3>1, <3>2, <4>1, <4>3
    <3> QED BY <3>3, <3>4
  <2>4. CASE Writing # {}
    <3>1. PICK w \in Process : proc[w].at = "write"
      BY <2>4 DEF Writing, Running
    <3>2. \A p \in alone' : p \in alone /\ p \in Process /\ p # w /\ p # q
      BY <1>0, <2>1, <2>4, <3>1 DEF Writing, Running
    <3>3. \A p \in alone' : proc'[p] = proc[p] /\ proc[p].at = "token"
      BY <2>2, <3>1, <3>2 DEF StartedAlone
    <3>4. \A p \in alone' : \A o \in Process \ {p} :
            proc'[o].at \in {"new", "token", "write", "lock", "down"}
      BY <2>2, <3>2 DEF StartedAlone
    <3>5. \A p \in alone' : /\ p \in Starting'
                            /\ \A t \in Label :
                                 proc'[p].states[t] \in {None, sources'[t]}
      BY <2>1, <3>2, <3>3 DEF StartedAlone, Starting, Running
    <3> QED BY <3>3, <3>4, <3>5 DEF StartedAlone
  <2> QED BY <2>3, <2>4
<1>3. ASSUME NEW q \in Process, WriteToken(q) PROVE StartedAlone'
  <2>1. /\ proc[q].at = "write" /\ UNCHANGED <<sources, alone>>
        /\ token' = q /\ q # None
    BY <1>3 DEF WriteToken
  <2>2. /\ proc'[q].states = proc[q].states
        /\ \A p \in Process : p # q => proc'[p] = proc[p]
        /\ proc'[q].at = "lock" /\ proc'[q].token = token'
    BY <1>3, <2>1, ProcessTakes DEF WriteToken, Tokens
  \* Who is alone beside it has not looked yet.
  <2>3. \A p \in alone : p # q => proc'[p] = proc[p] /\ proc[p].at = "token"
    BY <1>0, <2>1, <2>2 DEF StartedAlone
  <2>4. \A p \in alone : \A o \in Process \ {p} :
          /\ proc'[o].at \in {"new", "token", "write", "lock", "down"}
          /\ p = q => proc'[o].at # "write"
    BY <1>0, <2>1, <2>2 DEF StartedAlone
  <2>5. \A p \in alone : p \in Starting'
    BY <1>0, <2>2, <2>3 DEF Starting, Running
  <2>6. \A p \in alone : proc'[p].states = proc[p].states
    BY <1>0, <2>2
  <2>7. \A p \in alone : \A t \in Label : proc'[p].states[t] \in {None, sources'[t]}
    BY <2>1, <2>6 DEF StartedAlone
  <2> QED BY <2>1, <2>2, <2>3, <2>4, <2>5, <2>7 DEF StartedAlone
\* While it serves, or may, nobody else has been given the lock.
<1>4. ASSUME NEW q \in Process, Lock(q) PROVE StartedAlone'
  <2>1. /\ proc[q].at = "lock" /\ UNCHANGED <<sources, token>>
        /\ owner = None /\ None \notin Process
        /\ alone' = alone \ (Starting \ {q})
    BY <1>4 DEF Lock
  <2>2. /\ proc'[q].states = proc[q].states /\ proc'[q].token = proc[q].token
        /\ \A p \in Process : p # q => proc'[p] = proc[p]
        /\ proc'[q].at = "serve"
    BY <1>4, <2>1, ProcessGoes DEF Lock
  <2>3. \A p \in alone : p \in Starting
    BY <1>0, <2>1 DEF StartedAlone, HandledUnderLock
  <2>4. alone' \subseteq {q} /\ (q \in alone' => q \in alone)
    BY <2>1, <2>3
  <2>5. CASE q \in alone
    <3>1. /\ token # None /\ proc[q].token = token
          /\ \A t \in Label : proc[q].states[t] \in {None, sources[t]}
          /\ \A p \in Process \ {q} :
               /\ proc[p].at \in {"new", "token", "write", "lock", "down"}
               /\ proc[p].at # "write"
      BY <2>1, <2>5 DEF StartedAlone
    <3> QED BY <2>1, <2>2, <2>4, <2>5, <3>1, AloneGoes
  <2>6. CASE q \notin alone
    <3>1. alone' = {}
      BY <2>4, <2>6
    <3> QED BY <3>1 DEF StartedAlone
  <2> QED BY <2>5, <2>6
<1>5. ASSUME NEW q \in Process, Refuse(q) \/ Crash(q) PROVE StartedAlone'
  <2>1. /\ proc'[q].at = "down" /\ UNCHANGED <<sources, token>>
        /\ \A p \in Process : p # q => proc'[p] = proc[p]
    BY <1>5, ProcessEnds DEF Refuse, Crash
  <2>2. alone' = alone \ {q}
    BY <1>5 DEF Refuse, Crash
  <2> QED BY <2>1, <2>2, AloneStays
\* Who gives the directory back was the only one that could be alone.
<1>6. ASSUME NEW q \in Process, Close(q) \/ CutShort(q) \/ Exit(q)
      PROVE  StartedAlone'
  <2>1. /\ proc[q].at \in {"drain", "exit", "cut"} /\ q \notin Starting
        /\ alone' = IF Exit(q) THEN alone ELSE alone \ {q}
        /\ Exit(q) => proc[q].at \in {"exit", "cut"}
    BY <1>6 DEF Close, CutShort, Exit, Starting
  <2>2. \A p \in alone : p = q /\ Serving(p)
    BY <2>1, BesideAlone
  <2>3. alone' = {}
    BY <2>1, <2>2 DEF Serving
  <2> QED BY <2>3 DEF StartedAlone
<1>7. ASSUME NEW q \in Process, Stop(q) PROVE StartedAlone'
  <2>1. proc[q].at = "serve" /\ UNCHANGED <<sources, token, alone>>
    BY <1>7 DEF Stop
  <2>2. /\ proc'[q].states = proc[q].states /\ proc'[q].token = proc[q].token
        /\ \A p \in Process : p # q => proc'[p] = proc[p]
        /\ proc'[q].at = "drain"
    BY <1>7, ProcessGoes DEF Stop
  <2>3. \A p \in alone : p = q
    BY <2>1, BesideAlone DEF Starting
  <2>4. CASE q \in alone
    <3>1. /\ token # None /\ proc[q].token = token
          /\ \A t \in Label : proc[q].states[t] \in {None, sources[t]}
          /\ \A p \in Process \ {q} :
               /\ proc[p].at \in {"new", "token", "write", "lock", "down"}
               /\ proc[p].at # "write"
      BY <2>1, <2>4 DEF StartedAlone
    <3> QED BY <2>1, <2>2, <2>3, <2>4, <3>1, AloneGoes
  <2>5. CASE q \notin alone
    <3>1. alone' = {}
      BY <2>1, <2>3, <2>5
    <3> QED BY <3>1 DEF StartedAlone
  <2> QED BY <2>4, <2>5
\* Handlers and monitor keep what is in the file, or write what they keep.
<1>works. ASSUME NEW q \in Process, UNCHANGED <<token, alone>>,
                 proc[q].at \in {"serve", "drain", "exit", "cut"},
                 proc'[q].at = proc[q].at, proc'[q].token = proc[q].token,
                 \A p \in Process : p # q => proc'[p] = proc[p],
                 (\A t \in Label : proc[q].states[t] \in {None, sources[t]})
                   => \A t \in Label : proc'[q].states[t] \in {None, sources'[t]}
          PROVE  StartedAlone'
  <2>1. \A p \in alone : p = q /\ Serving(p)
    BY <1>works, BesideAlone DEF Starting
  <2>2. CASE q \in alone
    <3>1. /\ token # None /\ proc[q].token = token
          /\ \A t \in Label : proc[q].states[t] \in {None, sources[t]}
          /\ \A p \in Process \ {q} :
               /\ proc[p].at \in {"new", "token", "write", "lock", "down"}
               /\ proc[p].at # "write"
      BY <2>1, <2>2 DEF StartedAlone, Serving
    <3>2. proc'[q].at \in {"serve", "drain"}
      BY <1>works, <2>1, <2>2 DEF Serving
    <3> QED BY <1>works, <2>1, <2>2, <3>1, <3>2, AloneGoes
  <2>3. CASE q \notin alone
    <3>1. alone' = {}
      BY <1>works, <2>1, <2>3
    <3> QED BY <3>1 DEF StartedAlone
  <2> QED BY <2>2, <2>3
<1>8. ASSUME NEW q \in Process, NEW t \in Tag, Scan(q, t) PROVE StartedAlone'
  <2>1. \A u \in Label : proc'[q].states[u]
          = IF u = t THEN sources[t] ELSE proc[q].states[u]
    BY <1>8, ScanSteps
  <2> QED BY <1>8, <2>1, <1>works, ScanSteps
<1>9. ASSUME NEW r \in Request, Handle(r) PROVE StartedAlone'
  <2>0. PICK q, t : q = request[r].process /\ t = request[r].tag
    OBVIOUS
  <2>1. /\ q \in Process /\ Handling(q) /\ t \in Label
        /\ UNCHANGED <<token, alone>>
        /\ \A p \in Process : /\ proc'[p].at = proc[p].at
                              /\ proc'[p].token = proc[p].token
                              /\ p # q => proc'[p] = proc[p]
    BY <1>9, <2>0, HandlerSteps, RequestTyped
  <2>kept. ASSUME NEW policy \in Policy \cup {None}, Keep(q, t, policy),
                  \/ UNCHANGED sources /\ policy = sources[t]
                  \/ sources' = [sources EXCEPT ![t] = policy],
                  \A u \in Label : proc[q].states[u] \in {None, sources[u]}
           PROVE  \A u \in Label : proc'[q].states[u] \in {None, sources'[u]}
    <3>1. \A u \in Label : proc'[q].states[u]
            = IF u = t THEN policy ELSE proc[q].states[u]
      BY <2>1, <2>kept, ProcessKeeps
    <3> QED BY <2>1, <2>kept, <3>1, Typed
  <2>2. ASSUME \A u \in Label : proc[q].states[u] \in {None, sources[u]}
        PROVE  \A u \in Label : proc'[q].states[u] \in {None, sources'[u]}
    <3>1. /\ sources[t] \in Policy \cup {None}
          /\ proc[q].states[Default] \in Policy \cup {None}
      BY <2>1, Typed DEF ProcType, Label
    <3>2. CASE Find(r)
      BY <2>0, <2>2, <2>kept, <3>1, <3>2 DEF Find
    <3>3. CASE Seed(r)
      BY <2>0, <2>2, <2>kept, <3>1, <3>3 DEF Seed
    <3>4. ASSUME NEW policy \in Replacement, Replace(r, policy)
          PROVE  \A u \in Label : proc'[q].states[u] \in {None, sources'[u]}
      <4>1. policy \in Policy
        OBVIOUS
      <4> QED BY <2>0, <2>2, <2>kept, <3>4, <4>1 DEF Replace
    <3>5. CASE Miss(r) \/ MakeDirectory(r) \/ SeedFails(r) \/ Answer(r)
      BY <2>2, <3>5 DEF Miss, MakeDirectory, SeedFails, Answer
    <3> QED BY <1>9, <3>2, <3>3, <3>4, <3>5 DEF Handle
  <2>3. proc[q].at \in {"serve", "drain", "exit", "cut"}
    BY <2>1 DEF Handling, Serving
  <2> QED BY <2>1, <2>2, <2>3, <1>works
<1>10. CASE \/ UNCHANGED vars
            \/ \E p \in Process, r \in Request, t \in Label : Accept(r, p, t)
  BY <1>10 DEF Accept, vars, StartedAlone, Serving, Starting, Running
<1> QED BY <1>1, <1>2, <1>3, <1>4, <1>5, <1>6, <1>7, <1>8, <1>9, <1>10 DEF Next

-----------------------------------------------------------------------------
(* The theorems *)

Inv ==
  /\ TypeOK /\ HandledUnderLock /\ OneAtATime /\ RoomIsKept /\ StartedAlone

LEMMA Invariance == Spec => []Inv
<1>1. Init => Inv
  BY InitTyped, InitHandled, InitRoom, InitAlone DEF Inv
<1>2. Inv /\ [Next]_vars => Inv'
  BY NextTyped, NextHandled, NextOneAtATime, NextRoom, NextAlone DEF Inv
<1> QED BY <1>1, <1>2, PTL DEF Spec

\* Types, and no configuration without its directory (senders.py, for_sender).
THEOREM TypeCorrect == Spec => []TypeOK
BY Invariance, PTL DEF Inv

\* A handler at work is of the process that has locked the directory, for any
\* number of processes started, stopped and killed in any order, or of one that
\* was interrupted again while it drained (process_lock.py, receiver_service.py).
THEOREM OneWriterAtATime == Spec => []OneWriter
<1>1. HandledUnderLock => OneWriter
  BY DEF HandledUnderLock, OneWriter, Handling
<1> QED BY <1>1, Invariance, PTL DEF Inv

\* However many handlers make namespaces at the same time, the limit holds, until
\* a process gets the directory while requests of another are under way
\* (receiver_state.py, for_sender).
THEOREM LimitHolds == Spec => []SendersBounded
<1>1. RoomIsKept => SendersBounded
  BY DEF RoomIsKept, SendersBounded
<1> QED BY <1>1, Invariance, PTL DEF Inv

\* A receiver that started when no other ran works with the token and the
\* configurations in the files, also when others started after it, unless one of
\* those made up a token at the same time or had the lock first (cli.py:176-220).
THEOREM ServedIsStored == Spec => []ServesWhatIsStored
<1>1. TypeOK /\ StartedAlone => ServesWhatIsStored
  BY DEF StartedAlone, ServesWhatIsStored
<1> QED BY <1>1, Invariance, PTL DEF Inv
=============================================================================
