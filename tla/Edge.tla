-------------------------------- MODULE Edge --------------------------------
(***************************************************************************)
(* The proxy hosts of edgekit and the certificate they serve: the tables   *)
(* "proxy_hosts" and "settings" of edgekit's database on one side, the     *)
(* certificates and proxy hosts inside Nginx Proxy Manager (NPM) on the    *)
(* other, and the operations that keep the two together: installing a      *)
(* certificate, pushing a host, attaching the certificate to all of them.  *)
(*                                                                         *)
(* A session is a request of the panel or a command.  Every call of NPM's  *)
(* API is a step of its own: between two of them any other session runs.   *)
(* The database is written under SQLite's lock, from the first flush of a  *)
(* session to its commit.                                                  *)
(***************************************************************************)
EXTENDS Naturals, FiniteSets

CONSTANTS
    Requests,   \* requests of the panel
    Commands,   \* edgekit commands
    Domains,    \* domains of proxy hosts, ordered as numbers
    MaxCert,    \* bound: certificates NPM numbers
    MaxHost,    \* bound: proxy hosts NPM numbers
    MaxRow,     \* bound: ids SQLite gives to rows
    Sources,    \* what the configuration asks for, see Materials
    Ops,        \* the operations the environment asks for
    Faults,     \* "npm", "crash", "nginx", "unverified", "reset"
    Overlap,    \* sessions may run at the same time
    None,
    Same        \* a row that a session leaves as it is

Sessions == Requests \cup Commands
CertIds  == 1..MaxCert
HostIds  == 1..MaxHost
RowIds   == 1..MaxRow

\* A certificate is a pair the operator supplied, one issued through
\* Cloudflare's API, or one that NPM obtains from Let's Encrypt.
Supplied  == {"A", "B"}
Materials == Supplied \cup {"issued", "acme"}

\* Certificates of one label replace each other in NPM.
Label(m) == IF m = "acme" THEN "acme" ELSE "origin"

\* A row of proxy_hosts: its id, npm_host_id and npm_certificate_id.
HostRow == [id : RowIds, npm : HostIds \cup {None}, cert : CertIds \cup {None}]

ASSUME EdgeAssumption ==
    /\ MaxCert \in Nat /\ MaxHost \in Nat /\ MaxRow \in Nat
    /\ Domains \subseteq Nat /\ IsFiniteSet(Domains)
    /\ Requests \cap Commands = {}
    /\ Sources \subseteq Materials
    /\ Ops \subseteq {"install", "provision", "create", "update", "delete", "resync"}
    /\ Overlap \in BOOLEAN
    /\ None \notin Sessions /\ None \notin CertIds \cup HostIds /\ None \notin Materials
    /\ Same # None /\ None \notin HostRow /\ Same \notin HostRow
    /\ \A d \in Domains, c \in CertIds \cup {None} : [domain |-> d, cert |-> c] # None
    /\ \A m \in Materials, b \in BOOLEAN : [of |-> m, files |-> b] # None

VARIABLES
    hosts,     \* proxy_hosts: domain -> its row or None
    record,    \* settings: the id and the kind of the installed certificate
    writer,    \* the session that holds SQLite's write lock
    certs,     \* NPM's certificates: id -> [of, files] or None
    proxies,   \* NPM's proxy hosts: id -> [domain, cert] or None
    nextCert,  \* ids NPM gives out next
    nextHost,
    pc, job,   \* where each session is, and what it does
    rot, push, \* what it has read of the certificates and of the hosts
    mine       \* the rows it changed and has not committed

db    == <<hosts, record, writer>>
npm   == <<certs, proxies, nextCert, nextHost>>
local == <<job, rot, push, mine>>
vars  == <<db, npm, pc, local>>

Certificate == [of : Materials, files : BOOLEAN]
Proxy       == [domain : Domains, cert : CertIds \cup {None}]

\* What a session has read: of the settings and of NPM's certificates, ...
NoRotation == [m |-> None, prev |-> None, of |-> None, new |-> None, superseded |-> {},
               old |-> {}, users |-> {}, then |-> "none", victim |-> None]

Rotation == [m : Materials \cup {None}, prev : CertIds \cup {None}, of : Materials \cup {None},
             new : CertIds \cup {None}, superseded : SUBSET CertIds, old : SUBSET CertIds,
             users : SUBSET HostIds, then : {"none", "repoint", "commit"},
             victim : CertIds \cup {None}]

\* ... and of the hosts: the rows it loaded, which it does not read again, ...
NoPush == [d |-> 0, todo |-> {}, seen |-> [d \in Domains |-> None], cert |-> None,
           before |-> None, snapshot |-> None, target |-> None]

Pushing == [d : Domains \cup {0}, todo : SUBSET Domains,
            seen : [Domains -> HostRow \cup {None}], cert : CertIds \cup {None},
            before : HostIds \cup {None}, snapshot : CertIds \cup {None},
            target : HostIds \cup {None}]

\* What it does; ok is the result of a certificate step, failed of a loop.
NoJob == [op |-> "none", ok |-> TRUE, failed |-> FALSE]

Job == [op : {"none", "install", "provision", "attach", "create", "update", "delete", "resync"},
        ok : BOOLEAN, failed : BOOLEAN]

Init ==
    /\ hosts = [d \in Domains |-> None]
    /\ record = [id |-> None, of |-> None]
    /\ writer = None
    /\ certs = [c \in CertIds |-> None]
    /\ proxies = [h \in HostIds |-> None]
    /\ nextCert = 1
    /\ nextHost = 1
    /\ pc = [s \in Sessions |-> "idle"]
    /\ job = [s \in Sessions |-> NoJob]
    /\ rot = [s \in Sessions |-> NoRotation]
    /\ push = [s \in Sessions |-> NoPush]
    /\ mine = [s \in Sessions |-> [d \in Domains |-> Same]]

-----------------------------------------------------------------------------
(* What the sessions read.                                                 *)

Live(f) == {x \in DOMAIN f : f[x] # None}

Labelled(m) == {c \in Live(certs) : Label(certs[c].of) = Label(m)}

Users(c) == {h \in Live(proxies) : proxies[h].cert = c}

\* A certificate record whose files were uploaded.
Complete(c) == c \in Live(certs) /\ certs[c].files

\* nginx loads the virtual host of h.
Servable(h) == proxies[h].cert = None \/ Complete(proxies[h].cert)

\* find_proxy_host: at most one, as NPM refuses a domain it already has.
AnyProxy(d) == Live(proxies)     \* mutant: the first host, whatever its domain

ProxyOf(d) == {h \in Live(proxies) : proxies[h].domain = d}

Found(d, h) == IF h = None THEN ProxyOf(d) = {} ELSE h \in ProxyOf(d)

\* attach_certificate skips a host whose row names the current certificate.
NeverPushed == {d \in Live(hosts) : hosts[d].npm = None}
                                 \* mutant: skips every host that NPM knows

Unattached == {d \in Live(hosts) : hosts[d].npm = None \/ hosts[d].cert # record.id}

\* The table with the rows session s changed.
Draft(s) == [d \in Domains |-> IF mine[s][d] = Same THEN hosts[d] ELSE mine[s][d]]

\* The row it works on, as it loaded or inserted it ...
Loaded(s) == IF job[s].op = "create" THEN mine[s][push[s].d] ELSE push[s].seen[push[s].d]

\* ... and the row its statements reach: the one that has that id by now.
Reached(s) == {d \in Live(Draft(s)) : Draft(s)[d].id = Loaded(s).id}

\* SQLite's next INTEGER PRIMARY KEY: an id that was the last is given again.
NextRow(i) ==
    /\ \A d \in Live(hosts) : hosts[d].id < i
    /\ i = 1 \/ \E d \in Live(hosts) : hosts[d].id = i - 1

-----------------------------------------------------------------------------
(* Sessions.                                                               *)

Goto(s, label) == pc' = [pc EXCEPT ![s] = label]

Free(s) ==
    /\ pc[s] = "idle"
    /\ Overlap \/ \A t \in Sessions : pc[t] = "idle"

\* The sessions S end, the transaction of one that holds the lock with them.
Close(S) ==
    /\ push' = [s \in Sessions |-> IF s \in S THEN NoPush ELSE push[s]]
    /\ mine' = [s \in Sessions |-> IF s \in S THEN [d \in Domains |-> Same] ELSE mine[s]]
    /\ writer' = IF writer \in S THEN None ELSE writer

\* In `edgekit provision` the attach step follows the certificate step, with
\* a session of its own and whether that step succeeded or not.
End(s, good) ==
    /\ Close({s})
    /\ \/ /\ job[s].op = "provision"
          /\ Goto(s, "attach")
          /\ job' = [job EXCEPT ![s] = [op |-> "attach", ok |-> good, failed |-> FALSE]]
          /\ rot' = [rot EXCEPT ![s] = [NoRotation EXCEPT !.m = rot[s].m]]
       \/ /\ job[s].op = "attach"
          /\ Goto(s, "done")
          /\ job' = [job EXCEPT ![s].ok = @ /\ good]
          /\ UNCHANGED rot
       \/ /\ job[s].op \notin {"provision", "attach"}
          /\ Goto(s, "idle")
          /\ job' = [job EXCEPT ![s] = NoJob]
          /\ rot' = [rot EXCEPT ![s] = NoRotation]

Rollback(s) == End(s, FALSE) /\ UNCHANGED <<hosts, record, npm>>

\* One host's push fails.  The panel's handlers redirect with the error and
\* their session commits; a command rolls back; a loop over the hosts goes on.
PushFails(s) ==
    /\ \/ /\ job[s].op \in {"create", "update"} /\ s \in Requests
          /\ Goto(s, "commit") /\ UNCHANGED <<writer, local>>
       \/ /\ job[s].op \in {"create", "update"} /\ s \notin Requests
          /\ End(s, FALSE)
       \/ /\ job[s].op \in {"attach", "resync"}
          /\ Goto(s, "next") /\ job' = [job EXCEPT ![s].failed = TRUE]
          /\ UNCHANGED <<writer, rot, push, mine>>
    /\ UNCHANGED <<hosts, record>>

-----------------------------------------------------------------------------
(* Installing a certificate.                                               *)

\* issue_and_install, install_manual_certificate and install_letsencrypt read
\* the record first.  The first skips the rest when the recorded certificate
\* is far from its expiry; an operator may force all three.
BeginInstall(s) ==
    \E m \in Sources, op \in Ops \cap {"install", "provision"}, force, expiring \in BOOLEAN :
        /\ Free(s)
        /\ op = "provision" => s \in Commands /\ ~force
        /\ job' = [job EXCEPT ![s].op = op]
        /\ rot' = [rot EXCEPT ![s] = [NoRotation EXCEPT !.m = m, !.prev = record.id,
                                                        !.of = record.of]]
        /\ Goto(s, CASE m = "acme" -> IF force THEN "issue" ELSE "obtain"
                     [] m \in Supplied /\ ~force -> "check"
                     [] /\ m = "issued" /\ ~force /\ ~expiring
                        /\ record.id # None /\ record.of # "acme" -> "settled"
                     [] OTHER -> "supersede")
        /\ UNCHANGED <<db, npm, push, mine>>

\* _already_installed: the same certificate is recorded and NPM has its record.
Check(s) ==
    /\ pc[s] = "check"
    /\ Goto(s, IF rot[s].of = rot[s].m /\ rot[s].prev \in Live(certs)
               THEN "settled" ELSE "supersede")
    /\ UNCHANGED <<db, npm, local>>

Settled(s) ==
    /\ pc[s] = "settled"
    /\ End(s, TRUE)
    /\ UNCHANGED <<hosts, record, npm>>

Supersede(s) ==
    /\ pc[s] = "supersede"
    /\ rot' = [rot EXCEPT ![s].superseded = Labelled(rot[s].m)]
    /\ Goto(s, "post")
    /\ UNCHANGED <<db, npm, job, push, mine>>

Post(s) ==
    /\ pc[s] = "post"
    /\ nextCert \in CertIds
    /\ certs' = [certs EXCEPT ![nextCert] = [of |-> rot[s].m, files |-> FALSE]]
    /\ nextCert' = nextCert + 1
    /\ rot' = [rot EXCEPT ![s].new = nextCert]
    /\ Goto(s, "upload")
    /\ UNCHANGED <<db, proxies, nextHost, job, push, mine>>

SweepFirst(s) ==                 \* mutant: the old records go before the hosts have moved
    /\ pc[s] = "upload"
    /\ certs' = [c \in CertIds |-> CASE c \in rot[s].superseded -> None
                                     [] c = rot[s].new -> [of |-> rot[s].m, files |-> TRUE]
                                     [] OTHER -> certs[c]]
    /\ rot' = [rot EXCEPT ![s].old = rot[s].superseded]
    /\ Goto(s, "repoint")
    /\ UNCHANGED <<db, proxies, nextCert, nextHost, job, push, mine>>

Upload(s) ==
    /\ pc[s] = "upload"
    /\ rot[s].new \in Live(certs)
    /\ certs' = [certs EXCEPT ![rot[s].new].files = TRUE]
    /\ rot' = [rot EXCEPT ![s].old = rot[s].superseded]
    /\ Goto(s, "repoint")
    /\ UNCHANGED <<db, proxies, nextCert, nextHost, job, push, mine>>

UploadRefused(s) ==
    /\ pc[s] = "upload"
    /\ "npm" \in Faults \/ rot[s].new \notin Live(certs)
    /\ Goto(s, "discard")
    /\ UNCHANGED <<db, npm, local>>

Discard(s) ==
    /\ pc[s] = "discard"
    /\ certs' = [c \in CertIds |-> IF c = rot[s].new THEN None ELSE certs[c]]
    /\ End(s, FALSE)
    /\ UNCHANGED <<hosts, record, proxies, nextCert, nextHost>>

\* repoint_hosts of one superseded record: list its users, then move each.
Repoint(s) ==
    /\ pc[s] = "repoint"
    /\ \E c \in rot[s].old :
          rot' = [rot EXCEPT ![s] = [@ EXCEPT !.old = rot[s].old \ {c}, !.users = Users(c),
                                              !.then = "repoint"]]
    /\ Goto(s, "move")
    /\ UNCHANGED <<db, npm, job, push, mine>>

Repointed(s) ==
    /\ pc[s] = "repoint"
    /\ rot[s].old = {}
    /\ rot' = [rot EXCEPT ![s].old = rot[s].superseded]
    /\ Goto(s, "sweep")
    /\ UNCHANGED <<db, npm, job, push, mine>>

Move(s) ==
    /\ pc[s] = "move"
    /\ \E h \in rot[s].users :
          /\ h \in Live(proxies)
          /\ proxies' = [proxies EXCEPT ![h].cert = rot[s].new]
          /\ rot' = [rot EXCEPT ![s].users = @ \ {h}]
    /\ UNCHANGED <<db, certs, nextCert, nextHost, pc, job, push, mine>>

\* One failure does not abandon the rest.
MoveRefused(s) ==
    /\ pc[s] = "move"
    /\ \E h \in rot[s].users :
          /\ "npm" \in Faults \/ h \notin Live(proxies)
          /\ rot' = [rot EXCEPT ![s].users = @ \ {h}]
          /\ job' = [job EXCEPT ![s].failed = TRUE]
    /\ UNCHANGED <<db, npm, pc, push, mine>>

Moved(s) ==
    /\ pc[s] = "move"
    /\ rot[s].users = {}
    /\ IF job[s].failed
       THEN Rollback(s)
       ELSE Goto(s, rot[s].then) /\ UNCHANGED <<db, npm, local>>

\* The sweep: a superseded record goes when no proxy host refers to it.
Sweep(s) ==
    /\ pc[s] = "sweep"
    /\ \E c \in rot[s].old :
          /\ rot' = [rot EXCEPT ![s] = [@ EXCEPT !.old = rot[s].old \ {c}, !.victim = c]]
          /\ Goto(s, IF Users(c) = {} THEN "drop" ELSE "sweep")
    /\ UNCHANGED <<db, npm, job, push, mine>>

Drop(s) ==
    /\ pc[s] = "drop"
    /\ rot[s].victim \in Live(certs)
    /\ certs' = [certs EXCEPT ![rot[s].victim] = None]
    /\ Goto(s, "sweep")
    /\ UNCHANGED <<db, proxies, nextCert, nextHost, local>>

Swept(s) ==
    /\ pc[s] = "sweep"
    /\ rot[s].old = {}
    /\ Goto(s, "previous")
    /\ UNCHANGED <<db, npm, local>>

\* _move_hosts: the users of the certificate that was recorded before.
Previous(s) ==
    /\ pc[s] = "previous"
    /\ IF rot[s].prev \notin {None, rot[s].new}
       THEN /\ rot' = [rot EXCEPT ![s] = [@ EXCEPT !.users = Users(rot[s].prev),
                                                   !.then = "commit"]]
            /\ Goto(s, "move")
       ELSE Goto(s, "commit") /\ UNCHANGED rot
    /\ UNCHANGED <<db, npm, job, push, mine>>

\* Direct mode: a Let's Encrypt certificate that NPM already has is used again,
\* unless it is about to expire.
Obtain(s) ==
    /\ pc[s] = "obtain"
    /\ \/ \E c \in Labelled("acme") :
             rot' = [rot EXCEPT ![s].new = c] /\ Goto(s, "previous")
       \/ Goto(s, "issue") /\ UNCHANGED rot
    /\ UNCHANGED <<db, npm, job, push, mine>>

\* When the request times out, NPM may obtain the certificate all the same.
Issue(s) ==
    /\ pc[s] = "issue"
    /\ nextCert \in CertIds
    /\ certs' = [certs EXCEPT ![nextCert] = [of |-> "acme", files |-> TRUE]]
    /\ nextCert' = nextCert + 1
    /\ \/ /\ rot' = [rot EXCEPT ![s].new = nextCert]
          /\ Goto(s, "previous")
          /\ UNCHANGED <<writer, job, push, mine>>
       \/ "npm" \in Faults /\ End(s, FALSE)
    /\ UNCHANGED <<hosts, record, proxies, nextHost>>

-----------------------------------------------------------------------------
(* Pushing a host.                                                         *)

BeginHost(s) ==
    \E d \in Domains, op \in Ops \cap {"create", "update", "delete"} :
        /\ Free(s)
        /\ op = "create" <=> hosts[d] = None
        /\ job' = [job EXCEPT ![s].op = op]
        /\ push' = [push EXCEPT ![s] = [NoPush EXCEPT !.d = d, !.seen[d] = hosts[d],
                       !.target = IF op = "delete" THEN hosts[d].npm ELSE None]]
        /\ Goto(s, IF op = "delete" /\ hosts[d].npm # None THEN "erase" ELSE "flush")
        /\ UNCHANGED <<db, npm, rot, mine>>

BeginResync(s) ==
    /\ "resync" \in Ops
    /\ Free(s)
    /\ job' = [job EXCEPT ![s].op = "resync"]
    /\ push' = [push EXCEPT ![s] = [NoPush EXCEPT !.todo = Live(hosts), !.seen = hosts]]
    /\ Goto(s, "next")
    /\ UNCHANGED <<db, npm, rot, mine>>

\* The attach step of `edgekit provision` reads the rows and the record.
Attach(s) ==
    /\ pc[s] = "attach"
    /\ IF record.id = None
       THEN Rollback(s)
       ELSE /\ push' = [push EXCEPT ![s] = [NoPush EXCEPT !.todo = Unattached, !.seen = hosts]]
            /\ Goto(s, "next")
            /\ UNCHANGED <<db, npm, job, rot, mine>>

NextHost(s) ==
    /\ pc[s] = "next"
    /\ \E d \in push[s].todo :
          /\ \A e \in push[s].todo : d <= e
          /\ push' = [push EXCEPT ![s] = [@ EXCEPT !.todo = push[s].todo \ {d}, !.d = d]]
    /\ Goto(s, "find")
    /\ UNCHANGED <<db, npm, job, rot, mine>>

\* A failure of attach_certificate rolls back what it booked for the others.
LastHost(s) ==
    /\ pc[s] = "next"
    /\ push[s].todo = {}
    /\ IF job[s].op = "attach" /\ job[s].failed
       THEN Rollback(s)
       ELSE Goto(s, "commit") /\ UNCHANGED <<db, npm, local>>

Writable(s) == writer \in {None, s}

\* A loop that changed no row has nothing to commit, every other session has:
\* the audit log, the record.
Bookkeeps(s) == writer = s \/ job[s].op \notin {"attach", "resync"}

\* The row is inserted, updated or deleted: from here on the lock is held.
Insert(s) ==
    /\ pc[s] = "flush" /\ job[s].op = "create"
    /\ Writable(s)
    /\ hosts[push[s].d] = None
    /\ writer' = s
    /\ \E i \in RowIds :
          /\ NextRow(i)
          /\ mine' = [mine EXCEPT ![s][push[s].d] = [id |-> i, npm |-> None, cert |-> None]]
    /\ Goto(s, "find")
    /\ UNCHANGED <<hosts, record, npm, job, rot, push>>

Flush(s) ==
    /\ pc[s] = "flush" /\ job[s].op = "update"
    /\ Writable(s)
    /\ Reached(s) # {}
    /\ writer' = s
    /\ mine' = [mine EXCEPT ![s] = [d \in Domains |-> IF d \in Reached(s) THEN hosts[d] ELSE @[d]]]
    /\ Goto(s, "find")
    /\ UNCHANGED <<hosts, record, npm, job, rot, push>>

\* A DELETE that reaches no row only warns.
Remove(s) ==
    /\ pc[s] = "flush" /\ job[s].op = "delete"
    /\ Writable(s)
    /\ writer' = s
    /\ mine' = [mine EXCEPT ![s] = [d \in Domains |-> IF d \in Reached(s) THEN None ELSE @[d]]]
    /\ Goto(s, "commit")
    /\ UNCHANGED <<hosts, record, npm, job, rot, push>>

\* An update that changes no column issues no UPDATE and takes no lock.
Unchanged(s) ==
    /\ pc[s] = "flush"
    /\ job[s].op = "update"
    /\ Goto(s, "find")
    /\ UNCHANGED <<db, npm, local>>

\* What the row keeps of a push that nginx accepted: an UPDATE sets the columns
\* that differ from what was loaded.
BookedZero(s, d) ==              \* mutant: no id in the answer
    [Draft(s)[d] EXCEPT !.npm = 0, !.cert = push[s].cert]

BookedBefore(s, d) ==            \* mutant: keeps the id of the first look-up
    [Draft(s)[d] EXCEPT !.npm = push[s].before, !.cert = push[s].cert]

Booked(s, d) ==
    [Draft(s)[d] EXCEPT !.npm  = IF push[s].target = Loaded(s).npm THEN @ ELSE push[s].target,
                        !.cert = IF push[s].cert = Loaded(s).cert THEN @ ELSE push[s].cert]

Unbooked(s) == push[s].target # Loaded(s).npm \/ push[s].cert # Loaded(s).cert

\* Without a difference an UPDATE comes only with another id of the DNS record,
\* which attach_certificate leaves alone.
Issues(s) == Unbooked(s) \/ job[s].op # "attach"

\* UNIQUE, or no id left as bounded here; StaleDataError for an UPDATE that
\* reaches no row; "database is locked" after five seconds.
NoSuchRow(s) ==
    \/ pc[s] = "flush" /\ job[s].op = "create" /\ hosts[push[s].d] # None
    \/ pc[s] = "flush" /\ job[s].op = "create" /\ ~\E i \in RowIds : NextRow(i)
    \/ pc[s] = "flush" /\ job[s].op = "update" /\ Reached(s) = {}
    \/ pc[s] = "book" /\ Issues(s) /\ Reached(s) = {}

Locked(s) ==
    /\ ~Writable(s)
    /\ \/ pc[s] = "flush"
       \/ pc[s] = "book" /\ Issues(s)
       \/ pc[s] = "commit" /\ Bookkeeps(s)

Rejected(s) == (NoSuchRow(s) \/ Locked(s)) /\ Rollback(s)

\* _push reads the certificate id, then looks up the host it will restore.
Find(s) ==
    /\ pc[s] = "find"
    /\ \E h \in HostIds \cup {None} :
          /\ Found(push[s].d, h)
          /\ push' = [push EXCEPT ![s] = [@ EXCEPT !.cert = record.id, !.before = h,
                         !.snapshot = IF h = None THEN None ELSE proxies[h].cert]]
    /\ Goto(s, "lookup")
    /\ UNCHANGED <<db, npm, job, rot, mine>>

\* upsert_proxy_host looks it up again, ...
Lookup(s) ==
    /\ pc[s] = "lookup"
    /\ \E h \in HostIds \cup {None} :
          Found(push[s].d, h) /\ push' = [push EXCEPT ![s].target = h]
    /\ Goto(s, "write")
    /\ UNCHANGED <<db, npm, job, rot, mine>>

\* ... and updates it in place or creates it.
Put(s) ==
    /\ pc[s] = "write"
    /\ push[s].target \in Live(proxies)
    /\ proxies' = [proxies EXCEPT ![push[s].target].cert = push[s].cert]
    /\ Goto(s, "verify")
    /\ UNCHANGED <<db, certs, nextCert, nextHost, local>>

Create(s) ==
    /\ pc[s] = "write"
    /\ push[s].target = None
    /\ ProxyOf(push[s].d) = {}
    /\ nextHost \in HostIds
    /\ proxies' = [proxies EXCEPT ![nextHost] = [domain |-> push[s].d, cert |-> push[s].cert]]
    /\ nextHost' = nextHost + 1
    /\ push' = [push EXCEPT ![s].target = nextHost]
    /\ Goto(s, "verify")
    /\ UNCHANGED <<db, certs, nextCert, job, rot, mine>>

\* The host is gone, or another session created it meanwhile.
WriteRefused(s) ==
    /\ pc[s] = "write"
    /\ \/ push[s].target \in HostIds \ Live(proxies)
       \/ push[s].target = None /\ (ProxyOf(push[s].d) # {} \/ nextHost \notin HostIds)
    /\ PushFails(s)
    /\ UNCHANGED npm

\* nginx -t tests every virtual host, not only the one that was pushed; it is
\* skipped when Docker cannot be asked.
Accept(s) ==
    /\ pc[s] = "verify"
    /\ "unverified" \in Faults \/ \A h \in Live(proxies) : Servable(h)
    /\ Goto(s, "book")
    /\ UNCHANGED <<db, npm, local>>

Reject(s) ==
    /\ pc[s] = "verify"
    /\ "nginx" \in Faults \/ \E h \in Live(proxies) : ~Servable(h)
    /\ Goto(s, "undo")
    /\ UNCHANGED <<db, npm, local>>

Undo(s) ==
    /\ pc[s] = "undo"
    /\ proxies' = [h \in HostIds |->
          IF push[s].before # None
          THEN IF h = push[s].before /\ proxies[h] # None
               THEN [proxies[h] EXCEPT !.cert = push[s].snapshot] ELSE proxies[h]
          ELSE IF h = push[s].target THEN None ELSE proxies[h]]
    /\ PushFails(s)
    /\ UNCHANGED <<certs, nextCert, nextHost>>

Book(s) ==
    /\ pc[s] = "book"
    /\ \/ /\ Issues(s)
          /\ Writable(s)
          /\ Reached(s) # {}
          /\ writer' = s
          /\ mine' = [mine EXCEPT ![s] =
                         [d \in Domains |-> IF d \in Reached(s) THEN Booked(s, d) ELSE @[d]]]
       \/ ~Unbooked(s) /\ UNCHANGED <<writer, mine>>
    /\ Goto(s, IF job[s].op \in {"create", "update"} THEN "commit" ELSE "next")
    /\ UNCHANGED <<hosts, record, npm, job, rot, push>>

\* Deleting from NPM is best-effort.
Erase(s) ==
    /\ pc[s] = "erase"
    /\ \/ proxies' = [h \in HostIds |-> IF h = push[s].target THEN None ELSE proxies[h]]
       \/ "npm" \in Faults /\ UNCHANGED proxies
    /\ Goto(s, "flush")
    /\ UNCHANGED <<db, certs, nextCert, nextHost, local>>

-----------------------------------------------------------------------------
(* The end of a session, and what may go wrong.                            *)

Commit(s) ==
    /\ pc[s] = "commit"
    /\ Bookkeeps(s) => Writable(s)
    /\ hosts' = Draft(s)
    /\ record' = IF job[s].op \in {"install", "provision"}
                 THEN [id |-> rot[s].new, of |-> rot[s].m] ELSE record
    /\ End(s, TRUE)
    /\ UNCHANGED npm

Done(s) ==
    /\ pc[s] = "done"
    /\ Goto(s, "idle")
    /\ job' = [job EXCEPT ![s] = NoJob]
    /\ rot' = [rot EXCEPT ![s] = NoRotation]
    /\ UNCHANGED <<db, npm, push, mine>>

\* A request fails: NPM answers with an error, or it does not answer.  Only the
\* error is caught by the attach loop.
Rotating == {"check", "supersede", "post", "upload", "discard", "repoint", "move", "sweep",
             "drop", "previous", "obtain", "issue"}

Pushes == {"find", "lookup", "write", "undo"}

RequestFails(s) ==
    /\ "npm" \in Faults
    /\ \/ pc[s] \in Rotating /\ Rollback(s)
       \/ pc[s] \in Pushes /\ PushFails(s) /\ UNCHANGED npm
       \/ pc[s] \in Pushes /\ job[s].op = "attach" /\ Rollback(s)

\* NPM's numbers, as bounded here, are used up; or the record is gone.
Refused(s) ==
    /\ \/ pc[s] \in {"post", "issue"} /\ nextCert \notin CertIds
       \/ pc[s] = "drop" /\ rot[s].victim \notin Live(certs)
    /\ Rollback(s)

Kill(S) ==
    /\ "crash" \in Faults
    /\ \E s \in S : pc[s] # "idle"
    /\ Close(S)
    /\ pc' = [s \in Sessions |-> IF s \in S THEN "idle" ELSE pc[s]]
    /\ job' = [s \in Sessions |-> IF s \in S THEN NoJob ELSE job[s]]
    /\ rot' = [s \in Sessions |-> IF s \in S THEN NoRotation ELSE rot[s]]
    /\ UNCHANGED <<hosts, record, npm>>

\* `edgekit npm reset` deletes NPM's data; its numbers start again.
Reset ==
    /\ "reset" \in Faults
    /\ \A s \in Sessions : pc[s] = "idle"
    /\ certs' = [c \in CertIds |-> None]
    /\ proxies' = [h \in HostIds |-> None]
    /\ nextCert' = 1
    /\ nextHost' = 1
    /\ UNCHANGED <<db, pc, local>>

Install(s) ==
    \/ BeginInstall(s) \/ Check(s) \/ Settled(s) \/ Supersede(s) \/ Post(s) \/ Upload(s)
    \/ UploadRefused(s) \/ Discard(s) \/ Repoint(s) \/ Repointed(s) \/ Move(s)
    \/ MoveRefused(s) \/ Moved(s) \/ Sweep(s) \/ Drop(s) \/ Swept(s) \/ Previous(s)
    \/ Obtain(s) \/ Issue(s)

Push(s) ==
    \/ BeginHost(s) \/ BeginResync(s) \/ Attach(s) \/ NextHost(s) \/ LastHost(s)
    \/ Insert(s) \/ Flush(s) \/ Unchanged(s) \/ Remove(s)
    \/ Find(s) \/ Lookup(s) \/ Put(s) \/ Create(s) \/ WriteRefused(s)
    \/ Accept(s) \/ Reject(s) \/ Undo(s) \/ Book(s) \/ Erase(s)

Finish(s) == Commit(s) \/ Done(s) \/ Rejected(s) \/ RequestFails(s) \/ Refused(s)

Next ==
    \/ \E s \in Sessions : Install(s) \/ Push(s) \/ Finish(s)
    \/ \E s \in Commands : Kill({s})
    \/ Kill(Requests)
    \/ Reset

Spec == Init /\ [][Next]_vars

-----------------------------------------------------------------------------
(* Properties.                                                             *)

Labels == Rotating \cup Pushes \cup
          {"idle", "settled", "attach", "next", "flush", "verify", "book", "erase", "commit", "done"}

(* Every variable keeps its type.                                          *)
TypeOK ==
    /\ hosts \in [Domains -> HostRow \cup {None}]
    /\ record \in [id : CertIds \cup {None}, of : Materials \cup {None}]
    /\ writer \in Sessions \cup {None}
    /\ certs \in [CertIds -> Certificate \cup {None}]
    /\ proxies \in [HostIds -> Proxy \cup {None}]
    /\ nextCert \in 1..(MaxCert + 1) /\ nextHost \in 1..(MaxHost + 1)
    /\ pc \in [Sessions -> Labels]
    /\ job \in [Sessions -> Job]
    /\ rot \in [Sessions -> Rotation]
    /\ push \in [Sessions -> Pushing]
    /\ mine \in [Sessions -> [Domains -> HostRow \cup {None, Same}]]

(* npm.py:376-380: "a failed upload must never leave the hosts without a   *)
(* certificate" and "Superseded records are removed only once nothing      *)
(* points at them any more": a proxy host that nginx can serve is          *)
(* made unservable by a push, the undo of a push or the deletion of that   *)
(* host, and never by a step of an installation, whatever fails in it.     *)
Served == {h \in Live(proxies) : Servable(h)}

RotationKeepsServing ==
    [][Served \subseteq Served'
       \/ \E s \in Sessions : pc[s] \in {"write", "undo", "erase"} /\ pc'[s] # pc[s]]_vars

(* hosts.py:325: "Re-push every host not yet serving the current          *)
(* certificate": when the certificate step and the attach step of          *)
(* `edgekit provision` have both succeeded, the recorded certificate is in *)
(* NPM and every host of the table that NPM knows serves what the          *)
(* configuration asks for.                                                 *)
Converged ==
    \A s \in Sessions : pc[s] = "done" /\ job[s].ok =>
        /\ Complete(record.id)
        /\ \A d \in Live(hosts) : \A h \in ProxyOf(d) :
              Complete(proxies[h].cert) /\ certs[proxies[h].cert].of = rot[s].m

(* hosts.py:347: "Re-push every host. Used after a certificate rotation or *)
(* an NPM data loss": a resync that reports no failure is about to commit  *)
(* rows that name the proxy hosts NPM has, all of them served with the     *)
(* recorded certificate, whatever NPM lost before.                         *)
ResyncRepublishes ==
    \A s \in Sessions : pc[s] = "commit" /\ job[s].op = "resync" /\ ~job[s].failed =>
        \A d \in Live(hosts) : \E h \in ProxyOf(d) :
            Servable(h) /\ proxies[h].cert = record.id /\ Draft(s)[d].npm = h

(* The id a row keeps never names the proxy host of another domain: what   *)
(* HostService.delete deletes in NPM is the host it was asked to delete,   *)
(* however pushes and their undoing interleave.  Checked for one session   *)
(* at a time, deletions and torn pushes included, and for sessions that    *)
(* overlap as long as none deletes: the id of a deleted row is given to    *)
(* the next one, and a session that loaded the old row books on the new.   *)
RowsNameOwnProxy ==
    \A d \in Live(hosts) :
        hosts[d].npm \in Live(proxies) => proxies[hosts[d].npm].domain = d
=============================================================================
