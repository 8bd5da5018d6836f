-------------------------------- MODULE Panel --------------------------------
(***************************************************************************)
(* The configuration of edgekit: config.yaml, the object the panel has     *)
(* loaded from it, and the handlers and commands that change both.         *)
(*                                                                         *)
(* A handler gets the panel's Config object from a dependency that is      *)
(* resolved before its body runs, changes that very object, saves it and   *)
(* makes the panel load the file again.  The object is shared: a handler   *)
(* that began earlier may hold one the panel has replaced since.  Between  *)
(* two awaits a handler is alone on the event loop.  A command loads an    *)
(* object of its own.  A save writes config.yaml.tmp and moves it; there   *)
(* is no lock, so the panel and commands may use that file at once.        *)
(***************************************************************************)
EXTENDS Naturals, FiniteSets

CONSTANTS
    Requests,   \* requests of the panel
    Commands,   \* edgekit commands
    Inputs,     \* what the forms submit for a setting
    Ops,        \* "form", "wireguard", "cloudflare"; "command"
    Faults,     \* "refused", "sync", "crash"
    MaxFaults,  \* bound: faults in a behaviour
    MaxBegun,   \* bound: handlers and commands that begin
    None,
    Blank,      \* a file that was truncated and not yet written
    Torn,       \* a file that holds parts of two texts
    Mixtures    \* what such a file may load as

Sessions == Requests \cup Commands
Objects  == 1..(Cardinality(Sessions) + 2)

\* The settings that are changed with and without an await before the save.
Fields   == {"local", "cloudflare"}

Settings == {"old", "new", "zero"}
Config   == [Fields -> Settings \cup {"default"}]

\* What the validators take when the file is loaded.
Accepts(c) == \A f \in Fields : c[f] # "zero"

Content  == {Blank, Torn} \cup Config       \* of a file
Defaults == [f \in Fields |-> "default"]  \* what a missing or empty file loads as

ASSUME PanelAssumption ==
    /\ Requests \cap Commands = {}
    /\ IsFiniteSet(Sessions)
    /\ Inputs \subseteq Settings
    /\ MaxFaults \in Nat /\ MaxBegun \in Nat
    /\ None \notin Objects
    /\ None \notin {Blank, Torn} /\ Blank # Torn
    /\ \A c \in Config : c \notin {None, Blank, Torn}
    /\ Mixtures \subseteq {c \in Config : Accepts(c)}

VARIABLES
    file,      \* config.yaml
    tmp,       \* config.yaml.tmp, or None
    fd,        \* the file a session has open for writing: see Fds
    heap,      \* the Config objects of all processes
    cache,     \* the panel's, None while the panel is down
    pc, job,   \* where a session is; its operation, object and field
    explained, \* history: settings the panel may know otherwise than the file
    met,       \* history: the sessions whose save is not the only one
    mixed,     \* history: the save that last replaced the file was one of these
    begun, faults

disk     == <<file, tmp, fd, met, mixed>>
sessions == <<pc, job>>
vars     == <<disk, heap, cache, sessions, explained, begun, faults>>

NoJob    == [op |-> "none", ref |-> None, field |-> "none"]

\* An open file keeps its contents when its name changes: what a session has
\* opened is the temporary file, or is config.yaml by now, or has no name left.
Fds == {"closed", "tmp", "conf", "unlinked"}

Fresh == [f \in Fields |-> "old"]

Init ==
    /\ file = Fresh /\ tmp = None
    /\ fd = [s \in Sessions |-> "closed"]
    /\ met = {} /\ mixed = FALSE
    /\ heap = [o \in Objects |-> IF o = 1 THEN Fresh ELSE None]
    /\ cache = 1
    /\ pc = [s \in Sessions |-> "idle"]
    /\ job = [s \in Sessions |-> NoJob]
    /\ explained = {}
    /\ begun = 0 /\ faults = 0

-----------------------------------------------------------------------------
(* Objects, and loading them.                                              *)

Fault(f) == f \in Faults /\ faults < MaxFaults /\ faults' = faults + 1

Count == begun < MaxBegun /\ begun' = begun + 1

Goto(s, label) == pc' = [pc EXCEPT ![s] = label]

\* What a file may load as: an empty one is an empty mapping, for one that holds
\* a refused value a validator raises, ...
Loadings(text) ==
    IF text = Blank THEN {Defaults}
    ELSE IF text = Torn THEN Mixtures
    ELSE {c \in {text} : Accepts(c)}

\* ... and a torn one may not even be YAML.
MayNotLoad(text) == text = Torn \/ Loadings(text) = {}

Held(jobs, c) == {jobs[s].ref : s \in Sessions} \cup {c}

\* The objects somebody still holds.
CollectedCacheOnly(h, jobs, c) ==         \* mutant: a handler's object goes with the cache
    [o \in Objects |-> IF o = c THEN h[o] ELSE None]

Collected(h, jobs, c) == [o \in Objects |-> IF o \in Held(jobs, c) THEN h[o] ELSE None]

\* Where a new object goes.
Unused == CHOOSE o \in Objects : heap[o] = None

Differing == IF cache = None \/ file \in {Blank, Torn} THEN {}
             ELSE {f \in Fields : heap[cache][f] # file[f]}

\* Sessions S end without loading the file again.
Drop(S, c) ==
    /\ pc' = [s \in Sessions |-> IF s \in S THEN "idle" ELSE pc[s]]
    /\ job' = [s \in Sessions |-> IF s \in S THEN NoJob ELSE job[s]]
    /\ heap' = Collected(heap, job', c)
    /\ cache' = c

\* A handler is alone on the event loop until it awaits.
Body == {"write", "replace", "reload"}
LoopFree(s) == s \in Requests => cache # None /\ \A r \in Requests \ {s} : pc[r] \notin Body

-----------------------------------------------------------------------------
(* Config.save, and loading the file again.                                *)

\* Those that have opened the temporary file and not yet moved it.
Saving == {s \in Sessions : pc[s] \in {"write", "replace"}}

Meets(s) == met' = IF Saving = {} THEN met ELSE Saving \cup {s}

OpensInPlace(s) ==                        \* mutant: no temporary file
    /\ file' = Blank /\ tmp' = tmp
    /\ fd' = [fd EXCEPT ![s] = "conf"] /\ Goto(s, "write")
    /\ Meets(s) /\ UNCHANGED mixed

\* The temporary file is created, or the one that another session has open, or
\* that a killed one left behind, is truncated.
Opens(s) ==
    /\ tmp' = Blank
    /\ fd' = [fd EXCEPT ![s] = "tmp"]
    /\ Goto(s, "write")
    /\ Meets(s)
    /\ UNCHANGED <<file, mixed>>

\* The object goes out in one write, over whatever another session has written:
\* when that is longer, its end stays.
Over(c, text) == IF c \in {Blank, text} THEN {text} ELSE {text, Torn}

Write(s) ==
    /\ pc[s] = "write"
    /\ LET text == heap[job[s].ref] IN
       \/ fd[s] = "tmp"  /\ tmp' \in Over(tmp, text)   /\ UNCHANGED file
       \/ fd[s] = "conf" /\ file' \in Over(file, text) /\ UNCHANGED tmp
       \/ fd[s] = "unlinked" /\ UNCHANGED <<tmp, file>>
    /\ fd' = [fd EXCEPT ![s] = "closed"]
    /\ Goto(s, "replace")
    /\ UNCHANGED <<met, mixed, heap, cache, job, faults>>
    /\ explained' = IF fd[s] = "conf" THEN Differing' ELSE explained

Moved(f) == IF f = "tmp" THEN "conf" ELSE IF f = "conf" THEN "unlinked" ELSE f

\* The file is replaced, and a command is done; os.replace raises when another
\* session has moved the temporary file.
Replace(s) ==
    /\ pc[s] = "replace"
    /\ IF tmp = None
       THEN /\ Drop({s}, cache) /\ explained' = Differing
            /\ UNCHANGED <<file, tmp, fd, mixed>>
       ELSE /\ file' = tmp /\ tmp' = None
            /\ mixed' = (s \in met)
            /\ fd' = [t \in Sessions |-> Moved(fd[t])]
            /\ IF s \in Requests
               THEN Goto(s, "reload") /\ UNCHANGED <<heap, cache, job, explained>>
               ELSE Drop({s}, cache) /\ explained' = Differing'
    /\ met' = met \ {s}
    /\ UNCHANGED faults

\* The WireGuard form synchronises the interface first; when that raises, the
\* request ends, and the file is not loaded again.
SyncFails(s) ==
    /\ pc[s] = "reload" /\ job[s].op = "wireguard"
    /\ Fault("sync")
    /\ explained' = Differing
    /\ Drop({s}, cache)
    /\ UNCHANGED disk

\* reload_config: a new object, unless the file does not load.
ReloadOld(s) ==                           \* mutant: the panel keeps its object
    /\ pc[s] = "reload"
    /\ Drop({s}, cache) /\ explained' = {}
    /\ UNCHANGED <<disk, faults>>

Reload(s) ==
    /\ pc[s] = "reload"
    /\ \/ \E c \in Loadings(file) :
             /\ pc' = [pc EXCEPT ![s] = "idle"]
             /\ job' = [job EXCEPT ![s] = NoJob]
             /\ cache' = Unused
             /\ heap' = Collected([heap EXCEPT ![Unused] = c], job', Unused)
             /\ explained' = {}
       \/ MayNotLoad(file) /\ Drop({s}, cache) /\ explained' = Differing
    /\ UNCHANGED <<disk, faults>>

-----------------------------------------------------------------------------
(* The panel's handlers.                                                   *)

\* get_config: the object the panel has at this moment.
Begin(s, op, f) ==
    /\ op \in Ops /\ s \in Requests
    /\ cache # None /\ pc[s] = "idle"
    /\ Goto(s, "begun")
    /\ job' = [job EXCEPT ![s] = [op |-> op, ref |-> cache, field |-> f]]
    /\ Count
    /\ UNCHANGED <<disk, heap, cache, explained, faults>>

\* A form is the server's or NPM's, or one that awaits before it changes the
\* object: an uploaded certificate, or the provisioner, which saves at its end.
BeginForm(s) ==
    \/ Begin(s, "form", "local")
    \/ Begin(s, "wireguard", "local")
    \/ Begin(s, "cloudflare", "cloudflare")

\* Only the WireGuard form lets a value through that will not load.
Submits(s) ==
    \E v \in Inputs :
        /\ v = "zero" => job[s].op = "wireguard"
        /\ heap' = [heap EXCEPT ![job[s].ref][job[s].field] = v]

\* A handler changes the object and saves it at once, ...
Change(s) ==
    /\ pc[s] = "begun" /\ job[s].op # "cloudflare" /\ LoopFree(s)
    /\ Submits(s) /\ Opens(s)
    /\ UNCHANGED <<cache, job, explained, faults>>

\* ... or changes it and then asks Cloudflare.
Ask(s) ==
    /\ pc[s] = "begun" /\ job[s].op = "cloudflare" /\ LoopFree(s)
    /\ Submits(s)
    /\ Goto(s, "asking")
    /\ UNCHANGED <<disk, cache, job, explained, faults>>

\* Cloudflare takes the token, or the form leaves Cloudflare off.
Accepted(s) ==
    /\ pc[s] = "asking" /\ LoopFree(s)
    /\ Opens(s)
    /\ UNCHANGED <<heap, cache, job, explained, faults>>

\* A refused form is not saved, and the object stays as it was changed.
Refused(s) ==
    /\ pc[s] = "asking" /\ LoopFree(s)
    /\ Fault("refused")
    /\ explained' = Differing
    /\ Drop({s}, cache)
    /\ UNCHANGED disk

\* The pair is invalid or its installation raises: the handler returns.
Failed(s) ==
    /\ pc[s] = "begun" /\ job[s].op = "form" /\ LoopFree(s)
    /\ Fault("refused")
    /\ Drop({s}, cache)
    /\ UNCHANGED <<disk, explained>>

-----------------------------------------------------------------------------
(* Commands, and the panel's service.                                      *)

\* require_configured: a file that does not load, or is not set up, ends it.
BeginCommand(s, f) ==
    /\ "command" \in Ops /\ s \in Commands /\ pc[s] = "idle"
    /\ \E c \in Loadings(file) \ {Defaults} : heap' = [heap EXCEPT ![Unused] = c]
    /\ job' = [job EXCEPT ![s] = [op |-> "command", ref |-> Unused, field |-> f]]
    /\ Goto(s, "working")
    /\ Count
    /\ UNCHANGED <<disk, cache, explained, faults>>

Work(s) ==
    /\ pc[s] = "working"
    /\ Submits(s) /\ Opens(s)
    /\ UNCHANGED <<cache, job, explained, faults>>

\* A killed process leaves its files as they are.
Closes(S) ==
    /\ fd' = [s \in Sessions |-> IF s \in S THEN "closed" ELSE fd[s]]
    /\ met' = met \ S
    /\ UNCHANGED <<file, tmp, mixed>>

KillCommand(s) ==
    /\ s \in Commands /\ pc[s] # "idle"
    /\ Fault("crash")
    /\ Drop({s}, cache) /\ Closes({s})
    /\ UNCHANGED explained

\* The panel is killed or stopped.
Stop ==
    /\ cache # None
    /\ Fault("crash")
    /\ Drop(Requests, None) /\ Closes(Requests)
    /\ explained' = {}

\* edgekit serve: systemd tries again until the file loads.
Serve ==
    /\ cache = None
    /\ \E c \in Loadings(file) \ {Defaults} : heap' = [heap EXCEPT ![Unused] = c]
    /\ cache' = Unused
    /\ UNCHANGED <<disk, sessions, explained, faults>>

-----------------------------------------------------------------------------

Step(s) ==
    \/ Change(s) \/ Ask(s) \/ Accepted(s) \/ Refused(s) \/ Failed(s)
    \/ Write(s) \/ Replace(s) \/ SyncFails(s) \/ Reload(s) \/ Work(s)

Next ==
    \/ \E s \in Sessions : BeginForm(s)
    \/ \E s \in Commands, f \in Fields : BeginCommand(s, f)
    \/ /\ Stop \/ Serve \/ \E s \in Sessions : Step(s) \/ KillCommand(s)
       /\ UNCHANGED begun

Spec == Init /\ [][Next]_vars

-----------------------------------------------------------------------------
(* Properties.                                                             *)

(* Every variable keeps its type, there is always an unused object, and a  *)
(* session has a file open exactly while it saves.                         *)
TypeOK ==
    /\ file \in Content /\ tmp \in Content \cup {None}
    /\ fd \in [Sessions -> Fds]
    /\ met \subseteq Saving /\ mixed \in BOOLEAN
    /\ \A s \in Sessions : pc[s] = "write" <=> fd[s] # "closed"
    /\ heap \in [Objects -> Config \cup {None}]
    /\ \E o \in Objects : heap[o] = None
    /\ cache \in Objects \cup {None}
    /\ cache # None => heap[cache] # None
    /\ pc \in [Sessions -> Body \cup {"idle", "begun", "asking", "working"}]
    /\ \A s \in Sessions : pc[s] # "idle" => heap[job[s].ref] # None
    /\ explained \subseteq Fields
    /\ begun \in 0..MaxBegun /\ faults \in 0..MaxFaults

(* config.py:211: "Atomic replace keeps a crash mid-write from leaving a   *)
(* truncated config behind": whatever is killed during a save, of whatever *)
(* text and in whatever process, the file holds a whole configuration      *)
(* unless the save that last replaced it met another one.  Those share the *)
(* temporary file, and what one moves the other has truncated or half      *)
(* overwritten; the next save that meets no other one repairs the file.    *)
NeverTruncated == file \in {Blank, Torn} => mixed

(* The panel works with what the file says: with no handler at work, a     *)
(* setting that the panel's object and the file have differently is one    *)
(* that a command wrote, that a refused form left in the object, or that a *)
(* failing sync or save kept from being loaded again, however long a       *)
(* handler held an object that another one had replaced, and however saves *)
(* met.                                                                    *)
PanelInStep ==
    (\A r \in Requests : pc[r] = "idle") => Differing \subseteq explained
=============================================================================
