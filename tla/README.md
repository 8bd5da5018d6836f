# A TLA+ model of edgekit

edgekit turns a server into an edge: a WireGuard hub for a set of peers, and Nginx Proxy
Manager (NPM) in a container in front of the services those peers run.  It keeps a small
SQLite database and a `config.yaml`, and everything else — `wg0.conf`, the interface, NPM's
account, certificates and proxy hosts, Cloudflare's records, the firewall, the systemd units —
is pushed from there, by two kinds of actors at once: the requests of a web panel (one asyncio
process) and `edgekit` commands (a process each).

The interesting failures are all of one kind: the database, a file, the kernel and two remote
APIs have to tell the same story, there is no transaction across them, and any step may fail,
be killed, or run beside somebody else's.  The modules here model those steps one by one.
Paths below are relative to the repository (`services/…` is `src/edgekit/services/…`).

## Inventory

| component | state it keeps | operations | hard behaviour | what makes it correct | module |
|---|---|---|---|---|---|
| peers and hub (`services/peers.py`, `system/wireguard.py`, `web/routers/peers.py`) | table `peers`, `wg0.conf`, `wg0.conf.tmp`, device `wg0` | create, toggle, edit, rotate keys, delete, sync | check-then-insert outside the transaction, sync before commit, failing apply, lock-free syncs, stale ORM rows, crash, reboot | addresses and keys unique; file and device equal the enabled peers | `WireGuardHub` |
| database sessions (`db.py`, `web/deps.py`, `models.py`) | SQLite file, write lock, identity map | flush, commit, rollback, busy timeout | the lock is held across awaits; a request's commit needs the event loop | every session ends; one writer at a time | `WireGuardHub`, `Edge` |
| proxy hosts (`services/hosts.py`, `web/routers/hosts.py`) | table `proxy_hosts`, NPM's proxy hosts | create, update, delete, push, verify or undo, attach, resync | double look-up before a write, undo of a push, best-effort delete, the panel commits after a caught failure | a row names its own proxy host; what is reported as pushed is served | `Edge` |
| certificates (`services/certificates.py`) | four settings, NPM's certificate records and their files | issue, install, obtain, record | record first, files later; move hosts; sweep old records; every step may fail | a served host stays served; record, NPM and hosts agree after success | `Edge` |
| NPM client (`services/npm.py`) | token, NPM's admin account | login, readiness, bootstrap, reset, the calls above | retries, lost answers, an API that answers before its users exist, e-mail and password changed in two requests | no success on an account that is not edgekit's; an account that is stays | `NpmAccount` |
| provisioning (`services/provision.py`) | report, exit status; all of the above | 19 steps in order | steps that fail and are not fatal, re-runs, a deadline | status zero means what it says; a second run converges | `Edge`, `NpmAccount`, `Https`, `Machine` |
| Cloudflare client (`services/cloudflare.py`) | DNS records, SSL mode | upsert, list, reconcile, SSL mode | partial failure, lost answers, records edited by hand | the records follow the TLS mode | `Https` |
| verification and probes (`services/health.py`) | resolvers' caches | resolve, probe, assess, ask again | an old answer leads to another certificate | what is called trusted is trusted | `Https` |
| configuration (`config.py`, `web/deps.py`) | `config.yaml`, the panel's cached object, commands' copies | load with validators, save, reload | several writers each with a copy, a shared mutable object, death during a save | the file is whole; the panel works with what it says | `Panel` |
| panel settings (`web/routers/settings.py`) | the same | settings forms | an await between the change and the save, a failing sync, a refused form | the same | `Panel`, `Https` |
| login and jobs (`security.py`, `jobs.py`, `web/routers/auth.py`) | throttle, a systemd unit and a log | login, launch, state | the unit starts after the call returns; the lockout starts the count again | guesses are bounded; the page shows the right exit status | `Service` |
| firewall (`system/firewall.py`) | kernel rules, ufw's rules, script, unit, drop-in | write, apply, open, allow, revoke, enable, restore | order of default and rules, Docker's NAT lost at a reload, a bridge that moves | SSH stays open; NPM is reachable now and after a boot; stale openings go | `Machine` |
| uninstallation, update (`uninstall.py`, `updater.py`, `service_unit.py`) | everything | ordered steps | goes on after failures, replaces the running program, is killed and repeated | what is left is reported; the panel is the fetched version | `Machine`, `Service` |
| command line (`cli.py`) | none of its own | the operations above as processes | overlap with the panel; exit status | — | all |
| packages and Docker (`system/packages.py`, `system/docker.py`, `system/shell.py`) | the container, its bridge, published ports | compose up and down, `nginx -t` | failing commands | — | partly, in `Edge`, `NpmAccount`, `Machine` |
| wizard, dashboard, API, templates, installer, tools | none | ask, render | — | — | not modelled |

Interaction: routers and commands open a session of the database, call `PeerService`,
`HostService` or `certificates`, which call `wg`, NPM and Cloudflare; the provisioner calls
the same services, one session per step.  The panel and the commands share the database,
`config.yaml` (each with its own copy) and the systemd units; nothing else.

`PROJECT.json` lists the same components with their status, and the hazards line by line.

## Modules

Seven modules model the system, each about one question the parts have to agree on.  They
share no variables, and where one abstracts what another details, this is said below.

| module | of the system | proofs | instance for TLC |
|---|---|---|---|
| `WireGuardHub` (abstract: `HubPromise`) | peers, `wg0.conf`, device | `WireGuardHub_proofs` | `MCWireGuardHub` |
| `Edge` | hosts, certificates, NPM | `Edge_proofs`, `EdgeSerial_proofs` | itself |
| `NpmAccount` | NPM's administrator | `NpmAccount_proofs` | `MCNpmAccount` |
| `Https` | DNS, SSL mode, certificate, verification | `Https_proofs` | itself |
| `Panel` | `config.yaml` and its copies | `Panel_proofs` | `MCPanel` |
| `Machine` | firewall, units, removal | `Machine_proofs` | itself |
| `Service` | logins, jobs, update | `Service_proofs` | itself |

The `MC` modules add the symmetry sets and function-valued constants a configuration file
cannot state.

### `WireGuardHub` — peers, `wg0.conf` and the device

| variable | in the code |
|---|---|
| `rows` | the committed table `peers`, id to `[addr, key, on]` |
| `writer` | who holds SQLite's write lock |
| `tmp`, `file` | `wg0.conf.tmp`, `wg0.conf`; a text is the set of its `[Peer]` sections |
| `device` | what `wg syncconf` or `wg-quick up` loaded, or `Down` |
| `pc`, `job`, `text` | where each session is, its operation with the row its ORM session loaded, what it rendered |
| `fd` | the file a session has open for writing, which keeps its contents when another one renames it |
| `alone` | history: the session nobody else has been at work beside since it began |

A session is a handler of the panel or a command, with its ORM session.  Its steps:

    Begin* (reads)  ->  Flush (takes the lock)  ->  Render  ->  OpenTmp  ->  WriteTmp
      ->  Replace  ->  BringUp | Strip -> SyncConf  ->  Dispatch  ->  Commit

with `FlushRejected` (a UNIQUE constraint, or an UPDATE that matches no row), `FlushTimeout`
(`database is locked` after five seconds), `ApplyFails`, `Rollback`, `KillCommand`,
`KillPanel` and `Reboot` beside them.  Four details of the code shape the module:

* pysqlite opens a transaction at the first write, so what `create` reads before its flush is
  outside it.  `Begin*` therefore reads the committed table, and `Flush` meets the constraints.
* The body of a panel handler has no await between the flush and its return, so bodies of
  requests exclude each other (`LoopFree`), while the exit of the session is handed to a
  worker thread: after its body a request waits in `exit` for the loop, holding the lock.
  A push of a host awaits NPM inside its body (`await`), and lets others run meanwhile.
* A query returns rows that are already in the identity map with the attributes they were
  loaded with (`Listed`), and an UPDATE names changed columns only (`Draft`).

* `write_config` opens `wg0.conf.tmp`, of a fixed name, with `O_TRUNC`, writes, closes and
  renames it, under no lock of its own.  Two writers that meet there truncate what the other
  has written (`Blank`), write over a longer text (`Torn`), find the file renamed under their
  descriptor — and then write into `wg0.conf` itself, or into a file without a name — or find
  nothing to rename.  `wg` makes of a torn file an error or a set of peers nobody chose.

`sync`, the provisioner's interface step and the WireGuard settings form render without
writing first: `BeginSync` starts at `render`, without the lock.

`HubPromise` is the abstract specification: one variable for the table and one for what the
device serves, and a step that changes both at once and keeps addresses and keys unique.

Left out: names (unique like addresses, and checked in the same way), descriptions, routed
networks, preshared and private keys.  `next_free_address` is any free address.  A text goes
out in one `write`: Python's buffer of 8 KB is some forty peers.  The second attempt of
`apply_config`, by a file `.wg0.sync`, is part of `SyncConf` and `ApplyFails`.

### `Edge` — proxy hosts and the certificate they serve

| variable | in the code |
|---|---|
| `hosts` | table `proxy_hosts`: domain to `id`, `npm_host_id`, `npm_certificate_id` |
| `record` | settings: id and kind (fingerprint) of the installed certificate |
| `certs`, `nextCert` | NPM's certificates: what they are, and whether their files are uploaded |
| `proxies`, `nextHost` | NPM's proxy hosts: domain and certificate id |
| `writer`, `mine` | the write lock, and the rows a session changed and has not committed |
| `pc`, `job`, `rot`, `push` | where each session is; what it read before the step it is at |

Every request to NPM is an action of its own.  The installation follows
`upload_custom_certificate`: list the superseded records, create the new one, upload (or
discard), move the hosts of each old record, sweep those nobody uses, then `_move_hosts` and
the settings.  A push follows `_push`: read the certificate id, look the host up, look it up
again in `upsert_proxy_host`, write, `nginx -t`, and book the ids or undo.  `nginx -t` looks
at all virtual hosts.  `edgekit provision` is the certificate step and then the attach step,
each with a session of its own and the second whatever became of the first.

A row is loaded once (`seen`), and every statement after that reaches the row that has its id
*by then* (`Reached`): none if the row was deleted, another domain's if the id was given out
again (`NextRow`; the table has no AUTOINCREMENT).  An UPDATE names the columns that differ
from what was loaded (`Booked`); one that reaches no row is a `StaleDataError` (`NoSuchRow`).

When a push fails the panel's handlers redirect with the error *and their session commits*,
a command rolls back, and a loop over the hosts goes on (`PushFails`).

Left out: the DNS record of a push (in `Https`), the forwarding target, the call to
Cloudflare that issues a certificate (before any change), token renewal (in `NpmAccount`).
`BeginInstall`, `BeginHost` and `BeginResync` pick the operation and its inputs; the constant
`Ops` says which ones a run asks for, `Faults` what may go wrong.

### `NpmAccount` — how edgekit comes to own NPM

| variable | in the code |
|---|---|
| `image` | what NPM does at its first start: seeds `admin@example.com`/`changeme`, or waits for a first user, created with or without its password |
| `service` | the container: absent, started, its listener up, its migrations and users there |
| `account` | NPM's user: the e-mail and password it opens with |
| `config` | `npm.admin_email`, `npm.admin_password` in `config.yaml` |
| `pc`, `creds` | where a run is, the credentials it read when it began |
| `token`, `made` | `NPMClient._token`, and that it has the id of a user it created |
| `left` | attempts that the step still has (`wait_until_ready`, `wait_for_login`) |
| `result` | how the bootstrap step of the last provisioning ended |

A run is `edgekit provision` or `edgekit npm reset` (`Down`, `Wipe`, `Up`).  After `Deploy`
the steps are those of `wait_until_ready` (`Ready`, `NotReady`) and of `bootstrap_admin`: own
credentials, else the shipped ones and `PutEmail`, `PutSecret`, else `CreateUser` and, when
the new user cannot log in, `SetAuth`; at the end `Me`.  `GiveUp` is what follows a login that
is never accepted.  Each request may be refused, its answer lost before or after its effect,
the container restarted (`Restart`), the process killed, while another run does the same and
the operator changes the configured or the real password (`Form`, `Password`, `Change`).

Left out: the first provisioning's generated password (any of `Secrets`), NPM's further users,
the age of a token (a rejected one is renewed by a login).

### `Https` — DNS, the zone's SSL mode, the certificate, and the verification of all three

| variable | in the code |
|---|---|
| `file`, `own`, `cached` | `tls.mode` and whether a token is stored: in `config.yaml`, in the command, in the panel |
| `dns`, `ssl` | the zone's records for this server (with or without Cloudflare's proxy), its SSL mode |
| `answers` | what a public resolver still answers for a name |
| `reach` | whether Cloudflare can connect to the server at all |
| `recorded`, `rows`, `booked`, `served` | recorded certificate, table of hosts and its `npm_certificate_id`, what NPM serves |
| `pc`, `todo`, `retry`, `rounds` | the command's step, the rest of its loop, `verify_https`' hosts to ask again and how often it still may |
| `level`, `applied`, `failed`, `exit` | verdicts of `assess_public`, `dns_applied`, the report, the exit status |
| `push` | a host that a panel handler has read the certificate for and not yet written |
| `touched`, `torn` | history: somebody else changed something during the command; an installation failed between two hosts |

The commands are `provision`, `ssl mode`, `ssl verify`, `host resync` and `cloudflare token`.
`Zone` to `Persist` are the provisioner's steps in their order, with `Publish`, `ListRecords`,
`Patch` as the requests of `reconcile`; a step that fails sets `failed` and the next one runs.
`GoDirect` is the offer to switch to direct mode after a 525 (`_offer_direct_mode`).
`Shown` says what a browser is shown along a path, and `Assess` is `assess_public` case by
case.  Beside the command run `PanelPush`/`PanelWrite` with the mode the panel cached, the
settings `Form` and `Reload`, `HandEdit` in Cloudflare's interface, and `Expire` of answers.

Cloudflare will not proxy some records (`Unproxiable`, e.g. one for a private address): the
reconciliation leaves those with a warning and the step succeeds (`Kept`), and an upsert of
such a record is refused.  What `attach_certificate` books is committed by its session at the
end, or rolled back with all the rest when one push failed (`pushed`, `broken`, `Books`).

How a certificate is installed is one step with five outcomes here — installed, skipped,
impossible, refused, torn between two hosts; `Edge` has its requests.

### `Panel` — `config.yaml` and everybody's copy of it

| variable | in the code |
|---|---|
| `file`, `tmp` | `config.yaml` and `config.yaml.tmp`; `Blank` is a file that was opened for writing and not yet written, `Torn` one that holds parts of two texts |
| `fd` | the file a session has open for writing |
| `met`, `mixed` | history: the sessions whose save is not the only one; the save that last replaced the file was one of these |
| `heap`, `cache` | the `Config` objects of all processes; the panel's, `_config` of `web/deps.py` |
| `pc`, `job` | where a handler or command is; its operation, the object it holds, the setting it changes |
| `explained` | history: settings the panel may know otherwise than the file |

`Begin` is the dependency that hands a handler the panel's object — by reference.  A form
changes it and saves at once (`Change`), or changes it and awaits Cloudflare (`Ask`,
`Accepted`, `Refused`), or is the WireGuard form, which synchronises before the reload
(`SyncFails`).  `Opens`, `Write` and `Replace` are `Config.save`: panel and commands share the
one temporary file and take no lock, so what was said of `wg0.conf.tmp` holds here too, and a
torn file loads as one of `Mixtures` or not at all.  `Reload` is `reload_config` with the validators of `Config.load`: a value the form lets through and the
loader refuses (`"zero"`) is written and then not loaded.  A command has an object of its own.
`Collected` is what keeps the model finite: an object nobody holds is given up.

Two settings stand for those that are changed with and without an await before the save.

### `Machine` — firewall, forwarding, units, and their removal

| variable | in the code |
|---|---|
| `ufw` | active, default deny, open ports, bridges allowed to the panel's port |
| `bridge` | NPM's Docker bridge |
| `forward`, `nat` | bridges that `EDGEKIT` rules in the kernel name; Docker's rules for published ports |
| `script`, `unit`, `dropin` | the bridge `firewall.sh` names, `edgekit-firewall.service`, Docker's drop-in |
| `things`, `dns` | panel unit, NPM, device, `wg0.conf`, sysctl file, files, program; records in the zone |
| `pc`, `op`, `knows`, `failed`, `exit` | the command, whether it loaded a configuration, its report and status |
| `reported` | history: what removals reported as failed |
| `silent` | history: what commands that failed without being checked were to see to |

`Deploy` to `Publish` are the provisioner's steps around `step_firewall`, which is followed
command by command; `DefaultDeny` to `Enable` are `edgekit firewall setup`; `RemovePanel` to
`RemoveProgram` the eight steps of `uninstall`.  A rewrite of ufw's tables may or may not drop
the rules of Docker and edgekit (`Rewritten`).  `Reboot` empties the kernel and runs the units
in the order systemd allows; `Recreate` moves NPM to another bridge.

Many commands are run without a look at their status: `docker network inspect`, `ufw status`,
`ufw allow` and `ufw delete`, `docker try-restart`, the script after a reload, `systemctl
enable`, `docker compose down`.  Each may fail (the fault `silent`): it then changes nothing,
or not all it was to, and the command goes on and may end with status zero.  `silent` records
what it was for.

### `Service` — logins, jobs, and an update that replaces the program

| variable | in the code |
|---|---|
| `panel`, `program`, `source` | version that serves, that is installed (`Half` while pip replaces it), that is checked out |
| `unit`, `files` | the panel's unit; configuration and log directory |
| `restarted` | history: systemd took the last restart of the panel it was asked for |
| `job`, `try` | a job's transient unit: absent, queued, or the step of `edgekit update`/`uninstall` it is at; pip calls |
| `logged`, `ran` | exit line of a job's log with the run it is of; history: the run systemd accepted last |
| `launch` | where a handler is in `jobs.launch` |
| `bucket`, `guesses` | `LoginThrottle`; history: ticks since each of the last `Limit + 1` wrong passwords, up to a lockout |

`Launch`, `Truncate`, `RunUnit` are `jobs.launch`; `Start` and `Exits` the unit's shell.
`Fetch` to `Provision` are `cli.update` and `updater`; the removal is shortened to what
concerns the panel and the program.  `systemctl restart` and `disable` are not checked and may
fail unnoticed (the fault `systemctl`).  `jobs.state` asks whether the unit is active and then
reads the log, and both may change between: the property is therefore about the log, which has
no line of an earlier run whatever was answered.  `Failure` is `record_failure`, `Tick` time.

## Runs

| run | properties | what it shows |
|---|---|---|
| `hub_locked` | `OneChangeAhead`, `ServedUnambiguously`, `PromiseSpec`, `SessionsEnd` | 2 requests and 1 command, no faults, operations that take the lock before they render: file and device are at most the lock holder's change ahead and never ambiguous, the hub implements `HubPromise`, and contention for lock and loop resolves |
| `hub_serial` | `CommitPublishes` | 1 command, all operations, all faults: what is committed has been installed |
| `hub_sessions` | `TypeOK`, `UniquePeers`, `AloneRepairs` | a request and a command that check before they write, syncs without the lock, crashes: no duplicate is committed; writers tear each other's file, and a session that has nobody beside it repairs it |
| `edge_rotation` | `TypeOK`, `Converged`, `RowsNameOwnProxy`, `RotationKeepsServing` | one session at a time, deletions, failing requests and crashes, repeated installations, row ids given out again |
| `edge_sessions` | `RowsNameOwnProxy` | a request and a command at once that delete nothing, nginx refusing at will |
| `edge_recovery` | `ResyncRepublishes` | NPM's data lost at any quiet moment, failing requests, crashes: a resync without failure has republished every host |
| `edge_race` | `RotationKeepsServing`, violated | a push between the sweep's look at a certificate's users and its deletion |
| `account` | `TypeOK`, `SecuredWhenReported`, `OwnAccountStays`, `Converges` | two runs provision and reset NPM at once, every image, two faults |
| `https` | `TypeOK`, `OkMeansTrusted`, `SuccessMeansAgreement`, `Converges` | every command of the TLS mode, beside the panel, the operator and slow resolvers, two faults |
| `panel` | `TypeOK`, `NeverTruncated`, `PanelInStep` | two requests and a command change the configuration at once, through one temporary file |
| `machine` | `TypeOK`, `SshStaysOpen`, `SuccessMeansReachable`, `RemovalReports`, `Converges` | provisioning, update, setup, removal, with two faults: checked and unchecked commands that fail, kills, reboots, moved bridges |
| `service` | `TypeOK`, `ExitIsTheLastRuns`, `AttemptsBounded`, `UpdateRunsWhatItFetched` | an update and a removal as jobs, beside logins, two faults, an unnoticed failure of `systemctl` among them |

`edge_race` expects a violation: `services/npm.py:377-378` states what the property says, and
the code keeps it only while nobody else pushes (`edge_rotation`).

**Bounds.**

* Hub: `Ids`, `Addresses`, `Keys` have two members: enough for a collision on the address with
  different keys, on the key with different addresses, an exhausted table, and a deleted last
  row whose id is given out again.
* Edge: `Domains` has two members, so that a row can name the proxy host of the *other*
  domain.  `MaxRow` is as many row ids as domains: the id of a deleted row is soon given to
  the other one.  `MaxCert` and `MaxHost` bound the ids NPM gives out; at the bound a request is
  refused, which is an NPM error like any other (`Refused`, `WriteRefused`).  Three
  certificates are a live one, a half-done one and its replacement.
* Account: two runs and two passwords (the configured and another); a waiting step asks once
  or twice instead of 40 and 15 times, which keeps both "asked again" and "given up".
* Https: the panel's host, whose record cannot be proxied, and another; one more round of the verification instead of twelve
  keeps a host that was good once, one that turns good, and the deadline.
* Panel: two requests, so that one holds an object that the other has replaced, and a command;
  `MaxBegun` is five handlers and commands in a behaviour, which lets each begin and one again
  after two have torn the file; `Mixtures` is one mixture of two texts that loads.
* Machine: two bridges, the one the rules name and the one NPM is on.
* Service: two pip calls, two failures to a lockout of two ticks, three runs, so that a kind
  runs again after another one.
* `MaxFaults` is 1 or 2 disturbances in a behaviour, where a single one may hit any step;
  operators' actions that are not retried count among them.  With two, a failure meets a
  repeated command that fails elsewhere.

No state constraint is used.  Symmetry is used for addresses and keys and for requests, which
are compared for equality alone, and only in runs without liveness.  Deadlock is checked in
every run but two: in `panel` a file that the validators refuse keeps a stopped panel down
until somebody edits it by hand, and in `machine` a system that was removed has nothing left
to run.

**Fairness.**  Nothing is assumed of faults: they may happen up to their bound or never.

* Hub: weak fairness of each session's steps: the operating system schedules processes and
  worker threads, every wait has a timeout (SQLite's busy handler, the HTTP clients, `run`).
  `PushReturns` and `Dispatch` get strong fairness, because they wait for the event loop,
  which others take and release again; asyncio's ready queue is first in, first out.
* `NpmAccount`: weak fairness of the container's start (`Boot`) and of each run's steps, and
  of `Begin`: the convergence it is for is that of an operator who provisions again.
* `Https`: the same for the command's steps, a panel handler's write (`PanelWrite`), the
  expiry of a resolver's answer (`Expire`) and `BeginProvision`.
* `Machine`: weak fairness of a command's steps, strong fairness of `BeginProvision`, which
  other commands and reboots may disable in between.
* `Edge`, `Panel` and `Service` have no liveness property.

## Proofs

`tlapm` checks every step; nothing is assumed but the named assumptions on the constants
(`HubAssumption`, `EdgeAssumption`, `AccountAssumption`, `HttpsAssumption`, `PanelAssumption`,
`MachineAssumption`, `ServiceAssumption`): sessions are of one kind or the other, bounds are
numbers, and values that mean "nothing" differ from those that mean something.  The theorems
hold for every number of sessions, peers, hosts, bridges, runs and faults.

**`WireGuardHub_proofs`**

* `TypeCorrect`, `PeersStayUnique`.  `UniquePeers` is not inductive: a session between flush
  and commit is about to change the table.  `HubInv` adds, for each session, what its label
  implies: only the holder of the lock is past its flush with a change, and its draft is still
  unique.  The constraint was checked when the flush took the lock, and `rows` changes only in
  a commit, so the draft stays unique until then (`DraftUnique`, `CommitStep`).
* `ServedWithoutAmbiguity` (`ServedUnambiguously`) and `CommitsPublish` (`CommitPublishes`),
  with *every* fault: failed applies that roll back, crashes between any two steps, reboots.
  Both rest on `FreshInv`, that a query returns the draft (`Listed(s) = Draft(s)`): the rows
  of the identity map are as fresh as the table when no operation renders a loaded row or
  nobody else can have changed it (`NoStaleRows`).  `PublishInv` says for each label how far a
  session has brought its draft — rendered, open, written, moved, stripped, on the device —
  and that what it has open is the temporary file; with one session at work past its flush
  (`OneAtWork`: a single session with every operation, or any number whose operations hold
  the lock from the flush on) nobody writes into its file or overwrites it, and what a session
  that failed has left behind is what some unique table renders.  A lock-free `sync` beside a
  change is what the hypothesis excludes: it may tear the file, and the first theorem is false
  without it.
* `WhoIsAloneRepairs` (`AloneRepairs`) has no hypothesis: all operations, lock-free syncs
  beside changes among them, all faults, any number of sessions.  `AloneInv` is what
  `PublishInv` says, of the session that `alone` names: nobody else has a file open, nobody
  else changes the table, and `O_TRUNC` makes it forget what the temporary file held.
* `ChangesAgree` (`OneChangeAhead`) and `HubKeepsPromise` (`Spec => PromiseSpec`, the
  refinement), under the same `OneAtWork` and without faults (`Orderly`; see the known
  divergences for why neither half can be dropped).  `FollowInv` adds to `PublishInv` where
  file and device still are while the session at work has not come that far, and that they
  are level with the table while nobody is.  From it a commit is one step of the promise —
  a peer put, edited or removed, and served at once — and every other step a stutter: the
  device already has what the commit adds to the table.

**`Edge_proofs`**

* `EdgeTypeCorrect`: `TypeInv` adds that a session at a step of a push has a domain, and one
  at a step of an installation has a certificate.
* `RowsNameTheirHosts` (`RowsNameOwnProxy`) under two hypotheses: NPM never loses its data
  (`"reset" \notin Faults`; after a loss it gives the same ids out again and the rows still
  hold the old ones), and no deletion runs beside another session (`NoDeleteBeside`; see the
  known divergences).  `RowInv` is about SQLite's ids: two rows have different ones, and what a
  session has loaded is still the row of that domain or gone (`SessionRows`), so a statement by
  id reaches the row it is meant for.  `OwnInv` follows an id of NPM on its way: from the look-up in NPM to the write,
  the verification and the booking of a push, to the session's uncommitted rows, to the table.
  It holds because NPM gives an id out once and never changes the domain of a live one
  (`Kept`), so a stale id names its own domain or nothing.

**`EdgeSerial_proofs`**: sessions that follow one another (`~Overlap`), as those of an operator
who runs one command at a time.  What a session has read of NPM is then still so when it acts
(`Serial`), what it has loaded of a row is what the row is (`LoadInv`), and what is left to
fear is a command that fails half-way or is killed, at any request and any number of times,
and the commands after it.

* `ResyncRestoresNpm` (`ResyncRepublishes`), with the loss of NPM's data among the faults.
  `PushesInv` follows the loop over the hosts: those behind it (`Below`) are in NPM with the
  recorded certificate and their new id in the session's rows; `SeenInv` says what the
  look-ups of a push have found.  The hypothesis `"unverified" \notin Faults` is that nginx is
  asked about each push: `_verify_or_rollback` accepts without asking when the container
  cannot be (`services/hosts.py:298-304`), and then nobody knows what is served.
* `RotationNeverDarkens` (`RotationKeepsServing`), for any number of sources and domains, as
  long as NPM keeps its data.  The upload never replaces a record that hosts use, because it
  creates one of its own (`FreshCerts`); hosts are moved only to a certificate whose files
  are there; and the sweep deletes a record that nobody uses *now* (`RotatorInv`), which is
  where overlap breaks it: `edge_race` is the counterexample to the theorem without `~Overlap`.
* `ProvisionConverges` (`Converged`): after a `provision` whose two steps succeed, the recorded
  certificate is in NPM and all hosts that NPM knows serve the one that was asked for.  The
  attach step compares rows with the record and never asks NPM, so the proof needs that no
  command, however it ended, left a row that claims more than NPM serves: `ProvisionInv`
  says which certificates hosts and rows can name (`Recorded`, `Dangling`, `Rows`), that NPM
  has one host of a domain (`OneHost`), and that all certificates are of the one source
  (`OfSource`); `SwitchInv`, `UndoInv` and `AttachInv` carry it through an installation, the
  undo of a push and the loop.  Each hypothesis is needed: after a `reset` the rows name what
  NPM has lost; with a second source, hosts that a torn installation moved or left serve the
  other one while neither record nor rows show it (*torn installation* below); an issued
  certificate far from its expiry is not uploaded again and NPM not asked whether it has it.

**`NpmAccount_proofs`**

* `AccountTypeCorrect`, `SuccessIsSecured` (`SecuredWhenReported`), `OwnAccountKept`
  (`OwnAccountStays`).  `TokenInv`: a token is one of the account NPM has now (a wipe takes
  all tokens with it), and past the rename that account is edgekit's.  `MadeInv`: only a run
  that created a user is on its way to `SetAuth`.  (It need not be the user that is there by
  then: another run may have wiped NPM in between, and `SetAuth` looks at nothing.)

**`Https_proofs`**

* `HttpsTypeCorrect`; the steps are first sorted into five groups (`NextInGroups`): those that
  reset what a command has achieved, those of somebody else, and the command's own for the
  zone, the hosts and the verification.
* `TrustedWhenCalledOk` (`OkMeansTrusted`): a verdict is given for the path the mode wants
  (`Assessed`), and nothing it was given for changes before the command ends unless somebody
  else changes it, which `touched` notes; outside the verification there are no verdicts
  (`CourseInv`).
* `ZeroMeansAgreement` (`SuccessMeansAgreement`): `DnsInv`, `SslInv`, `CertInv` and `RowsInv`
  say for each label how far a command in which nothing failed has brought records, mode,
  certificate and rows; `PairInv` is what earlier commands cannot have destroyed: where NPM
  serves something else than the row says, it is the recorded certificate.  This is why
  `attach_certificate` may compare rows only, and what a torn installation breaks.

**`Machine_proofs`**

* `MachineTypeCorrect`; `LabelInv` says which labels a command can be at.
* `SshIsNeverShutOut` (`SshStaysOpen`): `SshInv` carries "SSH has been allowed" from the loop
  of `firewall setup` to `ufw enable`.
* `ProvisionedMeansReachable` (`SuccessMeansReachable`): `Achieved` says for each label what a
  provisioning in which no checked command failed has in place, part by part unless `silent`
  has it, and `NatInv` that Docker's rules are only
  missing where ufw is on, which is where the code restores them.
* `RemovalsReport` (`RemovalReports`): `LeftInv` says behind which step each thing is gone or
  reported; `FilesInv` that what a later removal cannot find without the configuration was
  reported by the one that deleted it.  The two things that unchecked commands may leave, the
  container and ufw's openings, are in `silent` then.

**`Service_proofs`**

* `ServiceTypeCorrect`; `ExitIsOfTheLastRun` (`ExitIsTheLastRuns`) from `LogInv`: once systemd
  has begun a run, the log has its line or none; `UpdatedPanelServes`
  (`UpdateRunsWhatItFetched`) from `FetchedInv`: from the installation to the end the program
  is what was fetched, unless a removal deleted it.
* `AttemptsStayBounded` (`AttemptsBounded`), for any limit and lockout.  The history keeps the
  age of the last `Limit + 1` wrong passwords, and `ThrottleInv` relates it to the throttle:
  with `n` failures counted, all but the last `n` are a lockout old; and while the address is
  locked, the last `Limit` are as old as the part of the lockout that has passed.  So when the
  count starts again at zero nothing younger than a lockout is left, and counting without a
  window does no harm.

**`Panel_proofs`**

* `PanelTypeCorrect`: a new object always finds a place, since sessions and the panel hold at
  most one object each and there is one place more (`UnusedExists`, by counting; `HeapInv` is
  that no object outlives its holders).
* `FileStaysWhole` (`NeverTruncated`), for any number of savers at once: `DiskInv` says that a
  session which has met no other in its save has the temporary file to itself, with its whole
  text after the write, and that who writes into a file that was moved to `config.yaml` under
  it makes or finds it `mixed`.
* `PanelStaysInStep` (`PanelInStep`): the property speaks of a panel without handlers;
  `StepInv` extends it to every state in which no handler is between its change and the
  reload (`Settled`), which each step keeps: a handler leaves that region by a reload or with
  an explanation, and commands change objects that are not the panel's.

Every safety invariant and action property that a passing run checks is stated by a theorem.
Model-checked only is liveness (`SessionsEnd`, the three `Converges`), which is out of the
prover's reach.

## Known divergences

What the runs restrict, the code does not promise.  Each of these is behaviour of the code
that a property above excludes by its hypothesis, or that the model shows without a property.

* *Hub.*  A failed apply rolls the row back and leaves it in `wg0.conf`; a session that loaded
  a row before another one changed it renders the old attributes (an edit beside a toggle),
  and a slow `sync` overwrites a newer file.  `README.md:407-408` says that the file is
  regenerated on every change and cannot drift; it agrees again after the next change or sync
  that nothing disturbs (`AloneRepairs`).  Writers without the lock — `sync`, the provisioner,
  the WireGuard settings — that meet in `wg0.conf.tmp` (`system/wireguard.py:87`) may install
  an empty or mixed `wg0.conf`.
* *Row ids.*  `proxy_hosts.id` is not AUTOINCREMENT (`models.py:99`).  A session that loaded a
  row and awaits NPM, while another one deletes that row and a third inserts a host, books the
  id of its proxy host on the new row (`services/hosts.py:280-282`): with `"delete"` among the
  `Ops` of `edge_sessions`, `RowsNameOwnProxy` is violated.  So it is after `edgekit npm reset`
  until a resync, as NPM gives its ids out again.
* *Undo of a push.*  A host that another session creates in NPM between the two look-ups of a
  push is deleted when that push is undone (`services/hosts.py:277`); its row names a proxy
  host that is gone until it is pushed again.
* *Issued certificate.*  `issue_and_install` trusts the recorded expiry
  (`services/certificates.py:286`): after a loss of NPM's data the step reports success with a
  certificate that NPM does not have, and the resync then reports the failure.
* *Attach after a torn installation.*  `attach_certificate` compares rows with the record
  (`services/hosts.py:325`, `:334`); hosts that an installation moved before it failed have
  neither changed, so `README.md:403` ("a half-finished run converges") needs a `host resync`
  then.  `Https` marks such histories `torn`.  The same comparison makes `provision` skip all
  hosts after `edgekit npm reset`, although `cli.py:1293-1294` promises to put them back.
* *Account.*  A death or refusal between the e-mail and the password leaves an account that
  neither the shipped nor the configured credentials open (`services/npm.py:304`); `Converges`
  is therefore stated for images that create the user whole.  `wait_for_login` catches
  `NPMError` only: a connection error ends the step at once, unlike its description.  `SetAuth`
  may set the password of an account that another run created after a wipe.
* *Verification.*  The command's second report (after the switch to direct mode) replaces the
  first.  The window is 120 s, the records live for 300 s.
* *Configuration.*  The settings form accepts a keepalive of 0 (`settings.html:95`) that
  `Config.load` refuses (`config.py:50-55`), so the panel does not start again.  Cloudflare
  settings that were refused stay in the panel's object and are saved by the next form.
  `edgekit ssl mode` does not restart the panel, whose next form writes the old mode back; the
  reprovisioning form saves the object it began with.  Two savers that meet in
  `config.yaml.tmp` (`config.py:207`) may install an empty or mixed `config.yaml`, although
  `config.py:211` calls the replacement atomic; the next save repairs it (`NeverTruncated`).
* *Firewall.*  An active ufw that lets nobody in by SSH is set to deny before SSH is allowed.
  Rules for a former bridge stay until a reboot, ufw's openings stay when ufw was off at the
  removal, and a changed `listen_port` leaves the old opening.  Commands run without a check
  fail silently: a provisioning ends with status zero although ufw opened nothing, Docker did
  not restart or the unit is not enabled (`system/firewall.py:236-245`, `:287`, `:341-361`);
  the next provisioning makes it good (`Converges`).  `README.md:371` says that a removal
  "lists what, if anything, was left behind": a container that `compose down` did not stop
  (`uninstall.py:168`; its directory is deleted next) and openings that ufw did not delete
  (`system/firewall.py:419-427`) are not listed, now or later.  A removal that is repeated after the configuration is gone skips DNS with
  status zero (its first run has reported it).
* *Jobs.*  While a run is only queued, the page shows the previous exit line.  An update that
  is killed between unpacking and installing leaves no program; an update beside a removal
  brings the panel back; an update by SSH beside one from the panel is not excluded.  An
  update whose `systemctl restart` failed (`service_unit.py:67`) reports success with the old
  panel still serving.  The
  throttle is forgotten when the panel restarts.

## Not modelled

* The setup wizard, dashboard, API, templates, installer and preview tool: they keep no state.
* X.509 (validation of a pair, coverage of a host), YAML, encryption, CSRF tokens, sessions and
  passwords' hashes: functions of data, single checks.
* A panel's push that waits for SQLite's lock and times out, in `Https` (it is in `Edge`), and
  a `write` that the kernel cuts short: a text goes out whole.
* Installation of packages and the preflight: steps that succeed or fail.
* The link of hosts to peers (`services/hosts.py:136`): a host made for a peer that another
  session deletes keeps an address that may be given out again.
* `next_free_address` at the edges of a small subnet (`system/wireguard.py:199`): any free
  address in the model.

## Plan

Done: the hub, the edge, the account, HTTPS, the configuration, the machine and the service,
in that order.  Left, the most valuable first:

1. A composition of `WireGuardHub` and `Edge` over `ProxyHost.peer_id` and `forward_host`.
2. An abstract specification of an installation, the step with five outcomes that `Https`
   has, and `Edge` shown to implement it.
3. `next_free_address`, `covers` and `coverage_warnings` against reference definitions.

## Running

    tlc -config hub_locked.cfg    MCWireGuardHub     # also hub_serial, hub_sessions
    tlc -config edge_rotation.cfg Edge               # also edge_sessions, edge_recovery, edge_race
    tlc -config account.cfg       MCNpmAccount
    tlc -config https.cfg         Https
    tlc -config panel.cfg         MCPanel
    tlc -config machine.cfg       Machine
    tlc -config service.cfg       Service
    for m in *_proofs.tla; do tlapm $m; done
