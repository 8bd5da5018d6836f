---------------------------- MODULE WireGuardHub ----------------------------
(***************************************************************************)
(* The peer table of edgekit and everything rendered from it: the SQLite   *)
(* table "peers", /etc/wireguard/wg0.conf, its temporary file, and the     *)
(* running wg0 device.                                                     *)
(*                                                                         *)
(* A session is one database session with the handler that uses it: a      *)
(* request of the web panel, or an edgekit command (a shell, or the        *)
(* provisioner).  All requests run on one event loop, so the body of one   *)
(* is not interleaved with the body of another; their commits run in a     *)
(* worker thread that the loop has to dispatch.  Commands are processes.   *)
(*                                                                         *)
(* pysqlite opens a transaction at the first INSERT, UPDATE or DELETE, so  *)
(* what a handler reads before its flush is read outside the transaction,  *)
(* and the write lock is held from the flush to the commit.                *)
(***************************************************************************)
EXTENDS Naturals, FiniteSets

CONSTANTS
    Requests,   \* requests of the panel
    Commands,   \* edgekit commands, each a process of its own
    Ids,        \* row ids; the bound on the size of the table
    Addresses,  \* host addresses of the tunnel subnet, without the hub's own
    Keys,       \* public keys
    Ops,        \* the operations the environment asks for
    Faults,     \* what may go wrong: "apply", "crash", "reboot"
    None,       \* no row, no lock holder, no temporary file
    Down,       \* the wg0 device does not exist
    Blank,      \* a file that was truncated and not yet written
    Torn        \* a file that holds parts of two texts

Sessions == Requests \cup Commands

Row == [addr : Addresses, key : Keys, on : BOOLEAN]

\* A rendered wg0.conf is the set of its [Peer] sections.
Text    == SUBSET (Addresses \X Keys)
Content == Text \cup {Blank, Torn}

Edits   == {"toggle", "rotate", "edit"}       \* update a row loaded by id
AllOps  == Edits \cup {"create", "remove", "sync", "push"}

ASSUME HubAssumption ==
    /\ Ids \subseteq Nat \ {0}
    /\ Requests \cap Commands = {}
    /\ Ops \subseteq AllOps
    /\ None \notin Sessions
    /\ \A t \in Text : t \notin {None, Blank, Torn}
    /\ None \notin {Blank, Torn} /\ Torn \notin {Blank, Down}

VARIABLES
    rows,     \* the committed table: id -> Row or None
    writer,   \* the session that holds SQLite's write lock
    tmp,      \* wg0.conf.tmp
    file,     \* wg0.conf
    device,   \* the peers of the running interface
    pc,       \* where each session is
    job,      \* what it does: operation, row id, and the row its ORM session holds
    text,     \* what it rendered, then what wg-quick strip printed for it
    fd,       \* the file it has open for writing: see Fds
    alone     \* history: the session nobody else has been at work beside

vars == <<rows, writer, tmp, file, device, pc, job, text, fd, alone>>

NoJob == [op |-> "none", id |-> 0, row |-> None]

\* Labels of a session.  In the body a request keeps the event loop.
Body   == {"flush", "render", "open", "write", "replace", "strip", "apply"}
Labels == Body \cup {"idle", "await", "exit", "raised", "commit", "rollback"}

\* An open file keeps its contents when its name changes: what a session has
\* opened is the temporary file, or is wg0.conf by now, or has no name left.
Fds == {"closed", "tmp", "conf", "unlinked"}

Init ==
    /\ rows = [i \in Ids |-> None]
    /\ writer = None
    /\ tmp = None
    /\ file = {}
    /\ device \in {Down, {}}
    /\ pc = [s \in Sessions |-> "idle"]
    /\ job = [s \in Sessions |-> NoJob]
    /\ text = [s \in Sessions |-> {}]
    /\ fd = [s \in Sessions |-> "closed"]
    /\ alone = None

-----------------------------------------------------------------------------
(* The table, and what a session sees of it.                               *)

Live(t) == {i \in Ids : t[i] # None}

\* Peers of a table that a new row with this address or key would collide with.
AddressTaken(t, a)  == \E i \in Live(t) : t[i].addr = a
KeyRegistered(t, k) == \E i \in Live(t) : t[i].key = k

\* INTEGER PRIMARY KEY without AUTOINCREMENT: one more than the largest id in
\* the table, so the id of a deleted last row is given out again.
IsNextId(t, i) ==
    /\ \A j \in Live(t) : j < i
    /\ i = 1 \/ i - 1 \in Live(t)

\* The table with the change of session s: an UPDATE names only the columns
\* the session changed.
Draft(s) ==
    LET j == job[s] IN
    CASE j.op = "create" -> [rows EXCEPT ![j.id] = j.row]
      [] j.op = "remove" -> [rows EXCEPT ![j.id] = None]
      [] j.op = "toggle" -> [rows EXCEPT ![j.id].on = j.row.on]
      [] j.op = "rotate" -> [rows EXCEPT ![j.id].key = j.row.key]
      [] OTHER -> rows

\* What a query of session s returns: a row that is already in the identity
\* map of the ORM session keeps the attributes it was loaded with.
ListedBeforeFlush(s) == rows   \* mutant: rendered before the change is flushed

Listed(s) ==
    LET j == job[s] IN
    IF j.op \in Edits /\ Draft(s)[j.id] # None
    THEN [Draft(s) EXCEPT ![j.id] = j.row]
    ELSE Draft(s)

\* render_interface_config: one section per enabled peer.
Rendered(t) == {<<t[i].addr, t[i].key>> : i \in {j \in Live(t) : t[j].on}}

-----------------------------------------------------------------------------
(* Scheduling.                                                             *)

LoopFree(s) == s \in Requests => \A r \in Requests \ {s} : pc[r] \notin Body

Goto(s, label) == pc' = [pc EXCEPT ![s] = label]

\* The end of a session: its ORM session, its connection and its file are closed.
Stop(S) ==
    /\ pc' = [s \in Sessions |-> IF s \in S THEN "idle" ELSE pc[s]]
    /\ job' = [s \in Sessions |-> IF s \in S THEN NoJob ELSE job[s]]
    /\ text' = [s \in Sessions |-> IF s \in S THEN {} ELSE text[s]]
    /\ fd' = [s \in Sessions |-> IF s \in S THEN "closed" ELSE fd[s]]
    /\ writer' = IF writer \in S THEN None ELSE writer
    /\ alone' = IF alone \in S THEN None ELSE alone

-----------------------------------------------------------------------------
(* The read part of each operation.  A request that is refused here changes *)
(* nothing and is a stuttering step.                                        *)

Begin(s, op, i, r, label) ==
    /\ op \in Ops
    /\ pc[s] = "idle"
    /\ LoopFree(s)
    /\ job' = [job EXCEPT ![s] = [op |-> op, id |-> i, row |-> r]]
    /\ Goto(s, label)
    /\ alone' = IF \A t \in Sessions \ {s} : pc[t] = "idle" THEN s ELSE None
    /\ UNCHANGED <<rows, writer, tmp, file, device, text, fd>>

\* The address is the lowest free one or one the caller chose, the key is
\* generated or supplied: any pair that no row of the table uses.
BeginCreate(s) ==
    \E a \in Addresses, k \in Keys :
        /\ ~AddressTaken(rows, a)
        /\ ~KeyRegistered(rows, k)
        /\ Begin(s, "create", 0, [addr |-> a, key |-> k, on |-> TRUE], "flush")

BeginToggle(s) ==
    \E i \in Live(rows) :
        Begin(s, "toggle", i, [rows[i] EXCEPT !.on = ~@], "flush")

BeginRotate(s) ==
    \E i \in Live(rows), k \in Keys :
        /\ ~KeyRegistered(rows, k)
        /\ Begin(s, "rotate", i, [rows[i] EXCEPT !.key = k], "flush")

\* An edit of the description, the keepalive or the routed networks.
BeginEdit(s) ==
    \E i \in Live(rows) : Begin(s, "edit", i, rows[i], "flush")

BeginRemove(s) ==
    \E i \in Live(rows) : Begin(s, "remove", i, None, "flush")

\* `edgekit peer sync`, the panel's sync button, the provisioner and a change
\* of the WireGuard settings render without writing to the database first.
BeginSync(s) == Begin(s, "sync", 0, None, "render")

\* A host is created or updated: its row is flushed, then Cloudflare, NPM and
\* nginx are called with the transaction still open.
BeginPush(s) == Begin(s, "push", 0, None, "flush")

-----------------------------------------------------------------------------
(* The write lock.                                                         *)

\* The UNIQUE constraints of the table.
CollidesOnKeysOnly(s) ==       \* mutant: no UNIQUE constraint on the address
    job[s].op \in {"create", "rotate"} /\ KeyRegistered(rows, job[s].row.key)

Collides(s) ==
    LET j == job[s] IN
    \/ j.op = "create" /\ (AddressTaken(rows, j.row.addr) \/ KeyRegistered(rows, j.row.key))
    \/ j.op = "rotate" /\ \E i \in Live(rows) \ {j.id} : rows[i].key = j.row.key

\* The flush raises IntegrityError, or StaleDataError when the UPDATE matches
\* no row; an edit whose values did not change issues no UPDATE.
Rejected(s) ==
    \/ Collides(s)
    \/ job[s].op \in Edits /\ rows[job[s].id] = None
    \/ job[s].op = "create" /\ ~\E i \in Ids : IsNextId(rows, i)   \* the bound Ids

WritableAlways(s) == TRUE      \* mutant: writers do not wait for each other

Writable(s) == writer = None

Flush(s) ==
    /\ pc[s] = "flush"
    /\ Writable(s)
    /\ ~Rejected(s) \/ (job[s].op = "edit" /\ rows[job[s].id] = None)
    /\ writer' = s
    /\ IF job[s].op = "create"
       THEN \E i \in Ids : IsNextId(rows, i) /\ job' = [job EXCEPT ![s].id = i]
       ELSE UNCHANGED job
    /\ Goto(s, IF job[s].op = "push" THEN "await" ELSE "render")
    /\ UNCHANGED <<rows, tmp, file, device, text, fd, alone>>

\* A failed flush rolls the transaction back at once.
FlushRejected(s) ==
    /\ pc[s] = "flush"
    /\ Writable(s)
    /\ Rejected(s)
    /\ Stop({s})
    /\ UNCHANGED <<rows, tmp, file, device>>

\* busy_timeout: "database is locked" after five seconds.
FlushWaits(s) ==               \* mutant: no busy timeout inside the panel
    /\ pc[s] = "flush" /\ ~Writable(s) /\ s \in Commands
    /\ Stop({s}) /\ UNCHANGED <<rows, tmp, file, device>>

FlushTimeout(s) ==
    /\ pc[s] = "flush"
    /\ ~Writable(s)
    /\ Stop({s})
    /\ UNCHANGED <<rows, tmp, file, device>>

\* The calls of a push return; the handler goes on when the loop is free.
PushReturns(s) ==
    /\ pc[s] = "await"
    /\ LoopFree(s)
    /\ Goto(s, "exit")
    /\ UNCHANGED <<rows, writer, tmp, file, device, job, text, fd, alone>>

-----------------------------------------------------------------------------
(* sync(): render, write wg0.conf, apply it.                               *)

Render(s) ==
    /\ pc[s] = "render"
    /\ text' = [text EXCEPT ![s] = Rendered(Listed(s))]
    /\ Goto(s, "open")
    /\ UNCHANGED <<rows, writer, tmp, file, device, job, fd, alone>>

\* The temporary file has a fixed name: it is created, or the one that another
\* writer has open, or that a killed one left behind, is truncated.
OpenUntruncated(s) ==          \* mutant: no O_TRUNC
    /\ pc[s] = "open"
    /\ tmp' = IF tmp = None THEN Blank ELSE tmp
    /\ fd' = [fd EXCEPT ![s] = "tmp"] /\ Goto(s, "write")
    /\ UNCHANGED <<rows, writer, file, device, job, text, alone>>

OpenTmp(s) ==
    /\ pc[s] = "open"
    /\ tmp' = Blank
    /\ fd' = [fd EXCEPT ![s] = "tmp"]
    /\ Goto(s, "write")
    /\ UNCHANGED <<rows, writer, file, device, job, text, alone>>

\* The text goes out in one write, over whatever another writer has put there:
\* when that is longer, its end stays.
Over(c, t) == IF c \in {Blank, t} THEN {t} ELSE {t, Torn}

WriteUnclosed(s) ==            \* mutant: the file is not closed after the write
    /\ pc[s] = "write" /\ Goto(s, "replace")
    /\ \/ fd[s] = "tmp"  /\ tmp' \in Over(tmp, text[s])   /\ UNCHANGED file
       \/ fd[s] = "conf" /\ file' \in Over(file, text[s]) /\ UNCHANGED tmp
       \/ fd[s] = "unlinked" /\ UNCHANGED <<tmp, file>>
    /\ UNCHANGED <<rows, writer, device, job, text, fd, alone>>

WriteTmp(s) ==
    /\ pc[s] = "write"
    /\ \/ fd[s] = "tmp"  /\ tmp' \in Over(tmp, text[s])   /\ UNCHANGED file
       \/ fd[s] = "conf" /\ file' \in Over(file, text[s]) /\ UNCHANGED tmp
       \/ fd[s] = "unlinked" /\ UNCHANGED <<tmp, file>>
    /\ fd' = [fd EXCEPT ![s] = "closed"]
    /\ Goto(s, "replace")
    /\ UNCHANGED <<rows, writer, device, job, text, alone>>

\* What a session has open, once the temporary file is moved to wg0.conf.
Moved(f) == IF f = "tmp" THEN "conf" ELSE IF f = "conf" THEN "unlinked" ELSE f

\* os.replace, unless another writer has moved the file.
Replace(s) ==
    /\ pc[s] = "replace"
    /\ IF tmp = None
       THEN Goto(s, "raised") /\ UNCHANGED <<tmp, file, fd>>
       ELSE /\ Goto(s, "strip")
            /\ file' = tmp /\ tmp' = None
            /\ fd' = [t \in Sessions |-> Moved(fd[t])]
    /\ UNCHANGED <<rows, writer, device, job, text, alone>>

\* The peers that a file gives the device: none if it is empty, and whatever
\* is made of one that is torn.
Peers(c) == IF c = Blank THEN {} ELSE c

\* The interface does not exist yet: systemd starts it from the file.
BringUp(s) ==
    /\ pc[s] = "strip"
    /\ device = Down
    /\ device' = Peers(file)
    /\ Goto(s, "exit")
    /\ UNCHANGED <<rows, writer, tmp, file, job, text, fd, alone>>

Strip(s) ==
    /\ pc[s] = "strip"
    /\ device # Down
    /\ text' = [text EXCEPT ![s] = Peers(file)]
    /\ Goto(s, "apply")
    /\ UNCHANGED <<rows, writer, tmp, file, device, job, fd, alone>>

SyncConf(s) ==
    /\ pc[s] = "apply"
    /\ device' = text[s]
    /\ Goto(s, "exit")
    /\ UNCHANGED <<rows, writer, tmp, file, job, text, fd, alone>>

\* systemctl, wg-quick strip or both attempts of wg syncconf fail, also because
\* the file is torn: a CommandError, which the handlers do not catch.
ApplyFailsSilently(s) ==       \* mutant: the handler swallows the CommandError
    /\ "apply" \in Faults
    /\ pc[s] \in {"strip", "apply"}
    /\ Goto(s, "exit")
    /\ UNCHANGED <<rows, writer, tmp, file, device, job, text, fd, alone>>

ApplyFails(s) ==
    /\ pc[s] \in {"strip", "apply"}
    /\ "apply" \in Faults \/ Torn = IF pc[s] = "strip" THEN file ELSE text[s]
    /\ Goto(s, "raised")
    /\ UNCHANGED <<rows, writer, tmp, file, device, job, text, fd, alone>>

-----------------------------------------------------------------------------
(* The end of a session.                                                   *)

\* The exit of a request's session is handed to a worker thread by the loop.
Dispatch(s) ==
    /\ pc[s] \in {"exit", "raised"}
    /\ LoopFree(s)
    /\ Goto(s, IF pc[s] = "exit" THEN "commit" ELSE "rollback")
    /\ UNCHANGED <<rows, writer, tmp, file, device, job, text, fd, alone>>

Commit(s) ==
    /\ pc[s] = "commit"
    /\ rows' = Draft(s)
    /\ Stop({s})
    /\ UNCHANGED <<tmp, file, device>>

Rollback(s) ==
    /\ pc[s] = "rollback"
    /\ Stop({s})
    /\ UNCHANGED <<rows, tmp, file, device>>

\* A killed process leaves its transaction to SQLite's rollback.
KillCommand(s) ==
    /\ "crash" \in Faults
    /\ s \in Commands
    /\ pc[s] # "idle"
    /\ Stop({s})
    /\ UNCHANGED <<rows, tmp, file, device>>

KillPanel ==
    /\ "crash" \in Faults
    /\ \E r \in Requests : pc[r] # "idle"
    /\ Stop(Requests)
    /\ UNCHANGED <<rows, tmp, file, device>>

\* wg-quick@wg0 is enabled at boot and starts from the file.
Reboot ==
    /\ "reboot" \in Faults
    /\ device # Down
    /\ device' = Peers(file)
    /\ Stop(Sessions)
    /\ UNCHANGED <<rows, tmp, file>>

-----------------------------------------------------------------------------

Start(s) ==
    \/ BeginCreate(s) \/ BeginToggle(s) \/ BeginRotate(s) \/ BeginEdit(s)
    \/ BeginRemove(s) \/ BeginSync(s) \/ BeginPush(s)

Step(s) ==
    \/ Flush(s) \/ FlushRejected(s) \/ FlushTimeout(s) \/ PushReturns(s)
    \/ Render(s) \/ OpenTmp(s) \/ WriteTmp(s) \/ Replace(s)
    \/ BringUp(s) \/ Strip(s) \/ SyncConf(s) \/ ApplyFails(s)
    \/ Dispatch(s) \/ Commit(s) \/ Rollback(s)

Next ==
    \/ \E s \in Sessions : Start(s) \/ Step(s) \/ KillCommand(s)
    \/ KillPanel
    \/ Reboot

Spec == Init /\ [][Next]_vars

\* A session that has begun goes on: processes and worker threads are
\* scheduled, and every wait on the way has a timeout.  Waiting for the event
\* loop takes strong fairness, which its first-in first-out queue provides.
Fairness ==
    \A s \in Sessions :
        WF_vars(Step(s)) /\ SF_vars(PushReturns(s)) /\ SF_vars(Dispatch(s))

FairSpec == Spec /\ Fairness

-----------------------------------------------------------------------------
(* Properties.                                                             *)

(* Every variable keeps its type; a session that is not idle has a job,    *)
(* and one that writes has a file open.                                    *)
TypeOK ==
    /\ rows \in [Ids -> Row \cup {None}]
    /\ writer \in Sessions \cup {None}
    /\ tmp \in Content \cup {None}
    /\ file \in Content
    /\ device \in Text \cup {Down, Torn}
    /\ pc \in [Sessions -> Labels]
    /\ job \in [Sessions -> [op : AllOps \cup {"none"}, id : Ids \cup {0},
                             row : Row \cup {None}]]
    /\ text \in [Sessions -> Text \cup {Torn}]
    /\ fd \in [Sessions -> Fds]
    /\ alone \in Sessions \cup {None}
    /\ \A s \in Sessions :
          /\ pc[s] = "idle" <=> job[s].op = "none"
          /\ pc[s] = "write" <=> fd[s] # "closed"

(* No two committed peers share an address or a public key, whatever the   *)
(* sessions checked before they wrote: PeerService.create reads the taken  *)
(* addresses and keys outside the transaction that inserts the row.        *)
UniqueIn(t) ==
    \A i, j \in Live(t) : t[i].addr = t[j].addr \/ t[i].key = t[j].key => i = j

UniquePeers == UniqueIn(rows)

(* The same of what is served: wg0.conf and the device never route one     *)
(* tunnel address to two keys, nor one key to two addresses.               *)
Unambiguous(t) == t # Torn /\ \A p, q \in t : p[1] = q[1] \/ p[2] = q[2] => p = q

ServedUnambiguously == Unambiguous(Peers(file)) /\ (device = Down \/ Unambiguous(device))

(* Every committed change is on disk and on the device at the moment it    *)
(* is committed: the sync of PeerService runs before the commit, and what  *)
(* it installed is the rendering of the table that the commit makes        *)
(* visible.  (A killed session that leaves the table alone is not a        *)
(* commit.)                                                                *)
CommitPublishes ==
    [][\A s \in Sessions :
         /\ pc[s] = "commit" /\ pc'[s] = "idle"
         /\ job[s].op # "push"
         /\ rows' = Draft(s)
         => file = Rendered(rows') /\ device = file]_vars

(* wg0.conf and the device are the rendering of the committed table, or of *)
(* the table as the holder of the write lock is about to commit it.        *)
Expected == {Rendered(rows)} \cup
            (IF writer = None THEN {} ELSE {Rendered(Draft(writer))})

OneChangeAhead == file \in Expected /\ device \in Expected \cup {Down}

(* README.md:407-408: wg0.conf is "regenerated from the peer table on      *)
(* every change.  The file and the running interface cannot drift."  They  *)
(* do, when two write the one wg0.conf.tmp or a process dies; but a        *)
(* session that nobody else was at work beside since it began, and that    *)
(* nothing failed in, leaves file and device as the table it commits,      *)
(* whatever was torn or left behind.                                       *)
AloneRepairs ==
    alone # None /\ pc[alone] \in {"exit", "commit"} /\ job[alone].op # "push" =>
        file = Rendered(Draft(alone)) /\ device = file

(* A session that has begun ends: a request that blocks the event loop in  *)
(* SQLite's busy handler is released even when the lock belongs to a       *)
(* request whose commit only that loop can dispatch.                       *)
SessionsEnd == \A s \in Sessions : pc[s] # "idle" ~> pc[s] = "idle"

(* The promise of the module as the rest of the system sees it.            *)
Promise == INSTANCE HubPromise WITH
    table <- rows,
    served <- IF writer = None /\ device # Down THEN device ELSE Rendered(rows)

PromiseSpec == Promise!Spec

=============================================================================
