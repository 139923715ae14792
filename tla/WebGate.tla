------------------------------- MODULE WebGate -------------------------------
(***************************************************************************)
(* Logins of both web services and the file with the shared password:      *)
(* RateLimiter, login and protect_request of tv_controller/service.py and  *)
(* tv_observer/web.py, settings_password and _set_env_value of the latter, *)
(* and tv.sh, which rewrites the same file.                                *)
(*                                                                         *)
(* A worker is a process of either service and serves one request at a     *)
(* time; each has a limiter of its own.  A client is an address and its    *)
(* browser.  A hash is the password it was made of.                        *)
(***************************************************************************)
EXTENDS Naturals, Sequences, FiniteSets

CONSTANTS
    Workers,     \* processes of both services
    Observers,   \* those that offer to change the password
    Installer,   \* tv.sh
    Clients,
    Passwords,
    First,       \* the password when the services start
    Limit,       \* logins a limiter lets pass within a window
    Window,      \* length of a window
    NoClient,    \* nobody: the client of an idle process
    MaxTime,     \* bound: time
    MaxRequests, \* bound: logins and changes
    MaxFaults    \* bound: deaths of workers and calls of tv.sh

ASSUME ObserversAreWorkers == Observers \subseteq Workers
ASSUME InstallerIsNoWorker == Installer \notin Workers
ASSUME FirstIsPassword == First \in Passwords
ASSUME NumbersAreNatural ==
    /\ Limit \in Nat /\ Window \in Nat
    /\ MaxTime \in Nat /\ MaxRequests \in Nat /\ MaxFaults \in Nat

VARIABLES
    now,         \* time.monotonic
    events,      \* the limiter of each worker: the times it keeps for a client
    answers,     \* all that limiter has answered to a client
    file,        \* the lines of observer.env
    procs,       \* what each process is doing
    sessions,    \* clients that are logged in
    wanted,      \* the value last written to each key
    overlapped,  \* keys that a writer set back who had read the file before their last write
    requests, faults

limiterVars == <<now, events, answers>>
fileVars == <<file, wanted, overlapped>>
vars == <<limiterVars, fileVars, procs, sessions, requests, faults>>

-----------------------------------------------------------------------------
(* Types.                                                                  *)

Processes == Workers \cup {Installer}

\* TV_OBSERVER_PASSWORD_HASH, and a setting that only tv.sh writes.
Keys == {"password", "setting"}
Settings == {"old", "new"}
Line == [key : Keys, value : Passwords \cup Settings]

Process == [pc : {"idle", "hash", "answer", "current", "read", "write", "replace"},
            client : Clients \cup {NoClient},
            given : Passwords,         \* the password the request came with
            key : Keys, value : Passwords \cup Settings,  \* what it will write
            lines : Seq(Line),         \* the file as it has read it
            stale : SUBSET Keys,       \* keys others have written since
            held : SUBSET Passwords,   \* passwords of the file since the request came
            match : BOOLEAN]           \* check_password_hash

Answer == [at : Nat, allowed : BOOLEAN]

TypeOK ==
    /\ now \in Nat
    /\ events \in [Workers -> [Clients -> Seq(Nat)]]
    /\ answers \in [Workers -> [Clients -> Seq(Answer)]]
    /\ file \in Seq(Line)
    /\ procs \in [Processes -> Process]
    /\ sessions \subseteq Clients
    /\ wanted \in [Keys -> Passwords \cup Settings]
    /\ overlapped \subseteq Keys
    /\ requests \in Nat /\ faults \in Nat

-----------------------------------------------------------------------------
(* Helpers.                                                                *)

Idle == [pc |-> "idle", client |-> NoClient, given |-> First, key |-> "password",
         value |-> First, lines |-> << >>, stale |-> {}, held |-> {}, match |-> FALSE]

At(p, pc) == procs[p].pc = pc
Goto(p, pc) == procs' = [procs EXCEPT ![p].pc = pc]
Finish(p) == procs' = [procs EXCEPT ![p] = Idle]

LinesOf(lines, key) == {i \in DOMAIN lines : lines[i].key = key}
Least(S) == CHOOSE i \in S : \A j \in S : i <= j

\* _env_value: the first line with the key; without one the request fails.
ValuesIn(lines, key) ==
    IF LinesOf(lines, key) = {} THEN {} ELSE {lines[Least(LinesOf(lines, key))].value}
Readable(key) == ValuesIn(file, key) # {}
EnvValue(key) == CHOOSE value \in ValuesIn(file, key) : TRUE

\* Defect: the line is appended although the key has one.
UpdatedAtEnd(lines, key, value) == Append(lines, [key |-> key, value |-> value])

\* _set_env_value: the first line with the key is replaced, or one is appended.
Updated(lines, key, value) ==
    IF LinesOf(lines, key) = {} THEN Append(lines, [key |-> key, value |-> value])
    ELSE [lines EXCEPT ![Least(LinesOf(lines, key))].value = value]
-----------------------------------------------------------------------------
(* The limiter and the login.                                              *)

Tick ==
    /\ now < MaxTime /\ now' = now + 1
    /\ UNCHANGED <<events, answers, fileVars, procs, sessions, requests, faults>>

\* What is left of a queue whose head is dropped until it is one of kept.
From(queue, kept) ==
    IF kept = {} THEN << >> ELSE SubSeq(queue, Least(kept), Len(queue))

\* Defect: the event at the very edge of the window is dropped as well.
PrunedAtEdge(w, c) ==
    From(events[w][c], {i \in DOMAIN events[w][c] : events[w][c][i] + Window > now})

\* Times before the window leave the queue at its head.
Pruned(w, c) ==
    From(events[w][c], {i \in DOMAIN events[w][c] : events[w][c][i] + Window >= now})

\* POST /login: the limiter comes first, and a refusal ends the request.
Login(w, c, password) ==
    /\ At(w, "idle") /\ requests < MaxRequests /\ requests' = requests + 1
    /\ LET queue == Pruned(w, c)
           allowed == Len(queue) < Limit
       IN  /\ events' = [events EXCEPT ![w][c] =
                  IF allowed THEN Append(queue, now) ELSE queue]
           /\ answers' = [answers EXCEPT ![w][c] =
                  Append(@, [at |-> now, allowed |-> allowed])]
           /\ IF allowed
              THEN procs' = [procs EXCEPT ![w] = [Idle EXCEPT
                       !.pc = "hash", !.client = c, !.given = password,
                       !.held = ValuesIn(file, "password")]]
              ELSE UNCHANGED procs
    /\ UNCHANGED <<now, fileVars, sessions, faults>>

\* Defect: the hash the service was started with.
ReadFirstHash(w) ==
    /\ At(w, "hash")
    /\ procs' = [procs EXCEPT ![w].match = procs[w].given = First, ![w].pc = "answer"]
    /\ UNCHANGED <<limiterVars, fileVars, sessions, requests, faults>>

\* current_password_hash reads the file for each login.
ReadHash(w) ==
    /\ At(w, "hash")
    /\ IF Readable("password")
       THEN procs' = [procs EXCEPT ![w].match = procs[w].given = EnvValue("password"),
                                   ![w].pc = "answer"]
       ELSE Finish(w)
    /\ UNCHANGED <<limiterVars, fileVars, sessions, requests, faults>>

Respond(w) ==
    /\ At(w, "answer")
    /\ sessions' = IF procs[w].match THEN sessions \cup {procs[w].client} ELSE sessions
    /\ Finish(w)
    /\ UNCHANGED <<limiterVars, fileVars, requests, faults>>

Logout(w, c) ==
    /\ At(w, "idle") /\ c \in sessions
    /\ sessions' = sessions \ {c}
    /\ UNCHANGED <<limiterVars, fileVars, procs, requests, faults>>
-----------------------------------------------------------------------------
(* Writing the file.                                                       *)

\* POST /settings/password of a client that is logged in.
Change(w, c, current, new) ==
    /\ w \in Observers /\ At(w, "idle") /\ c \in sessions
    /\ requests < MaxRequests /\ requests' = requests + 1
    /\ procs' = [procs EXCEPT ![w] = [Idle EXCEPT !.pc = "current", !.client = c,
                     !.given = current, !.value = new]]
    /\ UNCHANGED <<limiterVars, fileVars, sessions, faults>>

CheckCurrent(w) ==
    /\ At(w, "current")
    /\ IF Readable("password") /\ EnvValue("password") = procs[w].given
       THEN Goto(w, "read") ELSE Finish(w)
    /\ UNCHANGED <<limiterVars, fileVars, sessions, requests, faults>>

ReadLines(w) ==
    /\ At(w, "read")
    /\ procs' = [procs EXCEPT ![w].lines = file, ![w].pc = "write"]
    /\ UNCHANGED <<limiterVars, fileVars, sessions, requests, faults>>

\* The new lines go to a file of a name nobody else uses.  If that fails the request does,
\* and the file is as it was.
WriteTemporary(w) ==
    /\ At(w, "write")
    /\ Goto(w, "replace") \/ Finish(w)
    /\ UNCHANGED <<limiterVars, fileVars, sessions, requests, faults>>

\* The file becomes what p read, with p's change, whatever it has become since.
Replaced(p) ==
    LET key == procs[p].key IN
    /\ file' = Updated(procs[p].lines, key, procs[p].value)
    /\ wanted' = [wanted EXCEPT ![key] = procs[p].value]
    /\ overlapped' = (overlapped \cup procs[p].stale) \ {key}

\* The other processes after p's replacement: what they have read of its key is stale, and
\* what the file says now is a password their request may be measured by.
After(p, finished) ==
    [q \in Processes |->
        IF q = p THEN finished
        ELSE [procs[q] EXCEPT
            !.stale = IF procs[q].pc \in {"write", "replace"}
                      THEN @ \cup {procs[p].key} ELSE @,
            !.held = IF procs[q].pc \in {"hash", "answer"}
                     THEN @ \cup ValuesIn(file', "password") ELSE @]]

Replace(w) ==
    /\ w \in Workers /\ At(w, "replace")
    /\ Replaced(w)
    /\ procs' = After(w, Idle)
    /\ sessions' = sessions \ {procs[w].client}
    /\ UNCHANGED <<limiterVars, requests, faults>>

\* sed -i of tv.sh: reads the file, writes another and renames it, or fails before that.  A
\* setting that has its value is left alone.
InstallRead(key, value) ==
    /\ At(Installer, "idle") /\ faults < MaxFaults /\ faults' = faults + 1
    /\ value \in (IF key = "password" THEN Passwords ELSE {"new"} \ ValuesIn(file, "setting"))
    /\ procs' = [procs EXCEPT ![Installer] = [Idle EXCEPT
                     !.pc = "replace", !.key = key, !.value = value, !.lines = file]]
    /\ UNCHANGED <<limiterVars, fileVars, sessions, requests>>

InstallReplace ==
    /\ At(Installer, "replace")
    /\ \/ Replaced(Installer) /\ procs' = After(Installer, Idle)
       \/ Finish(Installer) /\ UNCHANGED fileVars
    /\ UNCHANGED <<limiterVars, sessions, requests, faults>>

\* Defect: a new limiter has no queue for a client it has not seen.
DieUnseen(w) ==
    /\ faults < MaxFaults /\ faults' = faults + 1
    /\ Finish(w)
    /\ events' = [events EXCEPT ![w] = << >>]
    /\ answers' = [answers EXCEPT ![w] = [c \in Clients |-> << >>]]
    /\ UNCHANGED <<now, fileVars, sessions, requests>>

\* A worker dies, and with it its limiter; another takes its place.
Die(w) ==
    /\ faults < MaxFaults /\ faults' = faults + 1
    /\ Finish(w)
    /\ events' = [events EXCEPT ![w] = [c \in Clients |-> << >>]]
    /\ answers' = [answers EXCEPT ![w] = [c \in Clients |-> << >>]]
    /\ UNCHANGED <<now, fileVars, sessions, requests>>

\* Nobody asks for anything.
AwaitRequest == (\A p \in Processes : At(p, "idle")) /\ UNCHANGED vars
-----------------------------------------------------------------------------
Init ==
    /\ now = 0
    /\ events = [w \in Workers |-> [c \in Clients |-> << >>]]
    /\ answers = [w \in Workers |-> [c \in Clients |-> << >>]]
    /\ wanted = [key \in Keys |-> IF key = "password" THEN First ELSE "old"]
    /\ file = <<[key |-> "password", value |-> First], [key |-> "setting", value |-> "old"]>>
    /\ overlapped = {}
    /\ procs = [p \in Processes |-> Idle]
    /\ sessions = {}
    /\ requests = 0 /\ faults = 0

Serve(w) ==
    \/ \E c \in Clients : \/ Logout(w, c)
                          \/ \E given \in Passwords :
                                \/ Login(w, c, given)
                                \/ \E new \in Passwords : Change(w, c, given, new)
    \/ ReadHash(w) \/ Respond(w)
    \/ CheckCurrent(w) \/ ReadLines(w) \/ WriteTemporary(w) \/ Replace(w)

Next ==
    \/ \E w \in Workers : Serve(w) \/ Die(w)
    \/ \E key \in Keys, value \in Passwords \cup Settings : InstallRead(key, value)
    \/ InstallReplace
    \/ Tick
    \/ AwaitRequest

Spec == Init /\ [][Next]_vars
-----------------------------------------------------------------------------
(* Properties.                                                             *)

\* The queue is an exact sliding window: a login passes if and only if fewer than Limit
\* passed since exactly one window before it, however late old times leave the queue and
\* however often a client that is refused comes back.
LimiterIsExact ==
    \A w \in Workers, c \in Clients : LET seen == answers[w][c] IN
        \A i \in DOMAIN seen :
            seen[i].allowed <=>
                Cardinality({j \in 1..(i - 1) : /\ seen[j].allowed
                                                /\ seen[j].at + Window >= seen[i].at}) < Limit

\* The file can be read at every moment, whoever is writing it and whoever dies while doing
\* so: each key has one line, with the value last written to it, unless a writer of another
\* key went over that write with what it had read before it.
FileStaysWhole ==
    \A key \in Keys :
        /\ Cardinality(LinesOf(file, key)) = 1
        /\ key \notin overlapped => EnvValue(key) = wanted[key]

\* A login is measured by a password the file had while its request was served: a change
\* made before it holds in every process of both services.
LoginIsCurrent ==
    \A w \in Workers : At(w, "answer") =>
        /\ procs[w].match => procs[w].given \in procs[w].held
        /\ procs[w].held = {procs[w].given} => procs[w].match
=============================================================================
