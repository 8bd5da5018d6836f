-------------------------------- MODULE Https --------------------------------
(***************************************************************************)
(* What a browser gets from a host depends on three things that edgekit    *)
(* sets in separate requests: its DNS record (through Cloudflare's proxy   *)
(* or not), the zone's SSL mode, and the certificate NPM serves.  This     *)
(* module models the commands that bring them in step - edgekit provision, *)
(* ssl mode, ssl verify and host resync - with the verification that       *)
(* connects like a browser, through resolvers that keep old answers.       *)
(*                                                                         *)
(* One command runs at a time.  Beside it the panel pushes hosts with the  *)
(* mode it has cached, and the operator edits records by hand.  How a      *)
(* certificate is installed request by request is in Edge.                 *)
(***************************************************************************)
EXTENDS Naturals, FiniteSets

CONSTANTS
    Hosts,      \* domains a row may have
    PanelHost,  \* edgekit.<zone>, which provisioning publishes
    Unproxiable, \* those whose own record Cloudflare will not proxy
    MaxRounds,  \* how often verify_https asks again: twelve times in the code
    Ops,        \* "provision", "mode", "verify", "resync", "token"; "push", "form", "reload", "hand"
    Faults,     \* "refused", "lost", "split", "unseen", "crash"
    MaxFaults   \* bound: faults and operator's actions in a behaviour

ASSUME HttpsAssumption ==
    /\ PanelHost \in Hosts /\ "wildcard" \notin Hosts
    /\ Unproxiable \subseteq Hosts
    /\ MaxRounds \in Nat /\ MaxFaults \in Nat

Names == Hosts \cup {"wildcard"}
Modes == {"proxied", "direct"}
Kind(mode) == IF mode = "proxied" THEN "origin" ELSE "letsencrypt"
Kinds == {"none", "origin", "letsencrypt"}

VARIABLES
    file,      \* config.yaml: tls.mode, and whether a Cloudflare token is stored
    own,       \* the command's copy of it
    cached,    \* the panel's copy
    dns,       \* the zone's records for this server
    answers,   \* what public resolvers answer
    ssl,       \* the zone's SSL mode
    reach,     \* Cloudflare can connect to this server
    recorded,  \* kind of the certificate edgekit recorded
    rows,      \* domains of the table of proxy hosts
    booked,    \* the certificate a row says its host has
    served,    \* the certificate NPM serves for it
    pc, todo,  \* where the command is, and what its loop still has to do
    pushed,    \* hosts its session has pushed: the bookings it commits at its end
    broken,    \* a push of attach_certificate has failed, which rolls them back
    only,      \* the command is ssl verify, which runs that step only
    retry,     \* hosts that verify_https asks again
    rounds,    \* how often it still may
    level,     \* its verdicts
    applied,   \* dns_applied
    failed,    \* a step of the report has failed
    exit,      \* exit status of the last command: "none", "zero", "error"
    push,      \* a host the panel is pushing, and the certificate it read
    touched,   \* history: somebody else changed DNS, NPM or the mode during the command
    torn,      \* history: an installation has moved some hosts and failed
    faults

config == <<file, own, cached>>
zone   == <<dns, ssl>>
npm    == <<recorded, rows, booked, served, torn>>
report == <<level, failed, exit>>
session == <<pushed, broken>>
vars   == <<config, zone, answers, reach, npm, pc, todo, session, only, retry, rounds, applied,
            report, push, touched, torn, faults>>

Config == [mode : Modes, api : BOOLEAN]
NoPush == [host |-> "none", cert |-> "none"]

Init ==
    /\ file \in [mode : {"proxied"}, api : BOOLEAN]
    /\ own = file /\ cached = file
    /\ dns = [n \in Names |-> "none"]
    /\ answers = [d \in Hosts |-> "none"]
    /\ ssl = "full"
    /\ reach \in BOOLEAN
    /\ recorded = "none"
    /\ rows = Hosts \ {PanelHost}
    /\ booked = [d \in Hosts |-> "none"]
    /\ served = [d \in Hosts |-> "none"]
    /\ pc = "idle" /\ todo = {} /\ pushed = {} /\ broken = FALSE
    /\ only = FALSE /\ retry = {} /\ rounds = 0
    /\ level = [d \in Hosts |-> "none"]
    /\ applied = FALSE /\ failed = FALSE /\ exit = "none"
    /\ push = NoPush /\ touched = FALSE /\ torn = FALSE
    /\ faults = 0

-----------------------------------------------------------------------------
(* Helpers.                                                                *)

Spend == faults < MaxFaults /\ faults' = faults + 1
Fault(f) == f \in Faults /\ Spend
Operator(op) == op \in Ops /\ Spend
Calm == faults' = faults

\* A record of its own wins over the wildcard.
Path(d) == IF dns[d] = "none" THEN dns["wildcard"] ELSE dns[d]

\* What a browser gets that is led along a path.
Shown(d, path) ==
    CASE path = "none"                                            -> "unresolved"
      [] path = "direct" /\ served[d] = "letsencrypt"             -> "trusted"
      [] path = "direct" /\ served[d] = "origin"                  -> "origin"
      [] path = "direct" /\ served[d] = "none"                    -> "untrusted"
      [] path = "proxied" /\ ~reach                               -> "525"
      [] path = "proxied" /\ reach /\ ssl = "strict" /\ served[d] = "none" -> "526"
      [] OTHER                                                    -> "trusted"

Trusted(d) == Shown(d, Path(d)) = "trusted"

\* Provisioner._step: a failure is noted and the next step runs.
Goto(label) == pc' = label /\ UNCHANGED failed
FailTo(label) == pc' = label /\ failed' = TRUE

\* A step that needs one request fails before or after its effect.
Refused == Fault("refused")
Lost == Fault("lost")

-----------------------------------------------------------------------------
(* Commands.                                                               *)

\* A new Provisioner: an empty report, and no DNS change of its own yet.
Fresh ==
    /\ failed' = FALSE /\ applied' = FALSE
    /\ level' = [d \in Hosts |-> "none"]
    /\ todo' = {} /\ retry' = {} /\ rounds' = 0 /\ pushed' = {} /\ broken' = FALSE

\* What a process knew is gone with it.
Over == Fresh /\ own' = file /\ only' = FALSE /\ touched' = FALSE

Starts(label) ==
    /\ pc = "idle"
    /\ pc' = label
    /\ exit' = "none" /\ touched' = FALSE
    /\ Fresh
    /\ UNCHANGED <<cached, zone, answers, reach, npm, push>>

BeginProvision ==
    /\ only' = FALSE
    /\ "provision" \in Ops /\ Calm
    /\ Starts("others")
    /\ own' = file /\ UNCHANGED file

\* The mode is saved before anything follows it.
BeginMode(mode) ==
    /\ only' = FALSE
    /\ Operator("mode")
    /\ Starts("zone")
    /\ own' = [file EXCEPT !.mode = mode]
    /\ file' = own'

BeginVerify ==
    /\ only' = TRUE
    /\ Operator("verify")
    /\ Starts("verify")
    /\ own' = file /\ UNCHANGED file

BeginResync ==
    /\ only' = FALSE
    /\ Operator("resync")
    /\ Starts("resync")
    /\ own' = file /\ UNCHANGED file

\* edgekit cloudflare token: saved only when Cloudflare accepts it.
Token ==
    /\ "token" \in Ops /\ pc = "idle" /\ ~file.api
    /\ file' = [file EXCEPT !.api = TRUE]
    /\ UNCHANGED <<own, cached, zone, answers, reach, npm, pc, todo, session, only, retry, rounds,
                   applied, report, push, touched>> /\ Calm

\* The steps before Cloudflare: one that fails, or one that ends the run.
Others ==
    /\ pc = "others"
    /\ \/ Goto("zone") /\ Calm
       \/ Refused /\ FailTo("zone")
       \/ Refused /\ FailTo("end")
    /\ UNCHANGED <<config, zone, answers, reach, npm, todo, session, only, retry, rounds, applied,
                   level, exit, push, touched>>

Zone ==
    /\ pc = "zone"
    /\ \/ ~own.api /\ FailTo("dns") /\ Calm
       \/ own.api /\ Refused /\ FailTo("dns")
       \/ own.api /\ Goto("dns") /\ Calm
    /\ UNCHANGED <<config, zone, answers, reach, npm, todo, session, only, retry, rounds, applied,
                   level, exit, push, touched>>

\* upsert_a_record for what edgekit publishes, ...
Publish ==
    /\ pc = "dns"
    /\ \/ ~own.api /\ Goto("ssl") /\ UNCHANGED dns /\ Calm
       \/ own.api /\ Refused /\ FailTo("ssl") /\ UNCHANGED dns
       \/ /\ own.api /\ dns' = [dns EXCEPT !["wildcard"] = own.mode]
          /\ \/ Lost /\ FailTo("ssl")
             \/ Calm /\ Goto("list")
    /\ UNCHANGED <<config, ssl, answers, reach, npm, todo, session, only, retry, rounds, applied,
                   level, exit, push, touched>>

\* A record that the mode wants proxied and Cloudflare will not proxy.
Kept(d, mode) == mode = "proxied" /\ d \in Unproxiable /\ dns[d] = "direct"

\* ... then every other record of this server that is not as the mode wants it;
\* what cannot be proxied is left, with a warning.
ListOwn ==                        \* mutant: only the records edgekit publishes
    /\ pc = "list"
    /\ Goto("patch") /\ todo' = {}
    /\ UNCHANGED <<config, zone, answers, reach, npm, session, only, retry, rounds, applied, level,
                   exit, push, touched>> /\ Calm

ListRecords ==
    /\ pc = "list"
    /\ \/ Refused /\ FailTo("ssl") /\ UNCHANGED todo
       \/ Goto("patch") /\ Calm
          /\ todo' = {n \in Names : dns[n] \notin {"none", own.mode} /\ ~Kept(n, own.mode)}
    /\ UNCHANGED <<config, zone, answers, reach, npm, session, only, retry, rounds, applied, level,
                   exit, push, touched>>

Patch ==
    /\ pc = "patch"
    /\ \E n \in todo :
          \/ Refused /\ FailTo("ssl") /\ todo' = {} /\ UNCHANGED dns
          \/ /\ dns' = [dns EXCEPT ![n] = own.mode]
             /\ \/ Lost /\ FailTo("ssl") /\ todo' = {}
                \/ Calm /\ Goto("patch") /\ todo' = todo \ {n}
    /\ UNCHANGED <<config, ssl, answers, reach, npm, session, only, retry, rounds, applied, level,
                   exit, push, touched>>

Patched ==
    /\ pc = "patch" /\ todo = {}
    /\ Goto("ssl")
    /\ applied' = TRUE
    /\ UNCHANGED <<config, zone, answers, reach, npm, todo, session, only, retry, rounds, level,
                   exit, push, touched>> /\ Calm

SetSslMode ==
    /\ pc = "ssl"
    /\ \/ ~(own.api /\ own.mode = "proxied") /\ Goto("cert") /\ UNCHANGED ssl /\ Calm
       \/ own.api /\ own.mode = "proxied" /\ Refused /\ FailTo("cert") /\ UNCHANGED ssl
       \/ own.api /\ own.mode = "proxied" /\ Goto("cert") /\ ssl' = "strict" /\ Calm
    /\ UNCHANGED <<config, dns, answers, reach, npm, todo, session, only, retry, rounds, applied,
                   level, exit, push, touched>>

\* repoint_hosts: NPM's hosts leave the certificate that was recorded before.
Moves(kind) ==
    {d \in Hosts : served[d] # "none" /\ served[d] # kind /\ served[d] = recorded}

Install ==
    /\ pc = "cert"
    /\ LET kind == Kind(own.mode) IN
       \/ /\ own.mode = "direct" /\ ~own.api /\ FailTo("attach") /\ Calm
          /\ UNCHANGED <<recorded, served, torn>>
       \/ /\ own.mode = "proxied" /\ ~own.api    \* no pair supplied, none to be issued: skipped
          /\ Goto("attach") /\ UNCHANGED <<recorded, served, torn>> /\ Calm
       \/ Refused /\ FailTo("attach") /\ UNCHANGED <<recorded, served, torn>>
       \/ /\ Fault("split") /\ FailTo("attach") /\ UNCHANGED recorded
          /\ torn' = TRUE
          /\ \E moved \in SUBSET Moves(kind) \ {{}} :
                served' = [d \in Hosts |-> IF d \in moved THEN kind ELSE served[d]]
       \/ /\ own.mode = "proxied" \/ own.api
          /\ Goto("attach") /\ Calm
          /\ recorded' = kind /\ UNCHANGED torn
          /\ served' = [d \in Hosts |-> IF d \in Moves(kind) THEN kind ELSE served[d]]
    /\ UNCHANGED <<config, zone, answers, reach, rows, booked, todo, session, only, retry, rounds,
                   applied, level, exit, push, touched>>

\* attach_certificate: rows that do not name the recorded certificate are pushed.
AttachKnown ==                    \* mutant: skips rows that NPM does not have
    /\ pc = "attach"
    /\ todo' = {d \in rows : booked[d] \notin {"none", recorded}}
    /\ Goto("attaching")
    /\ UNCHANGED <<config, zone, answers, reach, npm, session, only, retry, rounds, applied, level,
                   exit, push, touched>> /\ Calm

Attach ==
    /\ pc = "attach"
    /\ todo' = IF recorded = "none" THEN {} ELSE {d \in rows : booked[d] # recorded}
    /\ Goto("attaching")
    /\ UNCHANGED <<config, zone, answers, reach, npm, session, only, retry, rounds, applied, level,
                   exit, push, touched>> /\ Calm

\* One host's push fails, the others are still tried.
AttachHost(d) ==
    /\ pc = "attaching" /\ d \in todo
    /\ todo' = todo \ {d}
    /\ \/ Refused /\ FailTo("attaching") /\ broken' = TRUE /\ UNCHANGED <<served, pushed>>
       \/ /\ Goto("attaching") /\ Calm
          /\ served' = [served EXCEPT ![d] = recorded]
          /\ pushed' = pushed \cup {d} /\ UNCHANGED broken
    /\ UNCHANGED <<config, zone, answers, reach, recorded, rows, booked, torn, only, retry, rounds,
                   applied, level, exit, push, touched>>

\* The session's bookings are committed, unless a push failed: then all go.
Books == booked' = [d \in Hosts |-> IF d \in pushed /\ ~broken THEN recorded ELSE booked[d]]

Attached ==
    /\ pc = "attaching" /\ todo = {}
    /\ Goto("panel")
    /\ Books /\ pushed' = {} /\ broken' = FALSE
    /\ UNCHANGED <<config, zone, answers, reach, recorded, rows, served, torn, todo, only, retry,
                   rounds, applied, level, exit, push, touched>> /\ Calm

\* The record of a host is best effort.
Upserted(d, mode) ==
    dns' = IF mode = "proxied" /\ d \in Unproxiable THEN dns ELSE [dns EXCEPT ![d] = mode]

MaybeUpserted(d, c) ==
    \/ c.api /\ Upserted(d, c.mode) /\ Calm
    \/ ~c.api /\ UNCHANGED dns /\ Calm
    \/ c.api /\ Refused /\ UNCHANGED dns

\* The panel's own host is pushed when its row is created, never again here.
PublishPanel ==
    /\ pc = "panel"
    /\ \/ PanelHost \in rows /\ Goto("verify") /\ UNCHANGED <<dns, rows, booked, served>> /\ Calm
       \/ /\ PanelHost \notin rows
          /\ Goto("verify") /\ MaybeUpserted(PanelHost, own)
          /\ rows' = rows \cup {PanelHost}
          /\ served' = [served EXCEPT ![PanelHost] = recorded]
          /\ booked' = [booked EXCEPT ![PanelHost] = recorded]
       \/ /\ PanelHost \notin rows
          /\ Refused /\ FailTo("verify")
          /\ IF own.api THEN Upserted(PanelHost, own.mode) ELSE UNCHANGED dns
          /\ UNCHANGED <<rows, booked, served>>
    /\ UNCHANGED <<config, ssl, answers, reach, recorded, torn, todo, session, only, retry, rounds,
                   applied, level, exit, push, touched>>

-----------------------------------------------------------------------------
(* The verification.                                                       *)

AfterVerify == IF only THEN "end" ELSE "persist"

Ask ==
    /\ pc = "verify"
    /\ IF rows = {} THEN Goto(AfterVerify) ELSE Goto("probe")
    /\ todo' = rows /\ retry' = {} /\ rounds' = MaxRounds
    /\ UNCHANGED <<config, zone, answers, reach, npm, session, only, applied, level, exit, push,
                   touched>> /\ Calm

Verdict(level_, again) == [level |-> level_, again |-> again]

AssessAnswerOnly(d) ==            \* mutant: the path is not judged
    LET shown == Shown(d, answers[d]) IN
    IF shown = "trusted" THEN Verdict("ok", FALSE)
    ELSE IF shown = "525" THEN Verdict("525", TRUE)
    ELSE Verdict("fail", shown \in {"unresolved", "origin"})

\* assess_public, in its order: the path is judged before the answer.
Assess(d) ==
    LET path  == answers[d]
        shown == Shown(d, path) IN
    CASE shown = "unresolved"                          -> Verdict("fail", TRUE)
      [] shown = "origin"                              -> Verdict("fail", own.mode = "proxied")
      [] shown = "untrusted"                           -> Verdict("fail", FALSE)
      [] shown \notin {"unresolved", "origin", "untrusted"} /\ path # own.mode -> Verdict("warn", TRUE)
      [] shown = "525" /\ path = own.mode              -> Verdict("525", TRUE)
      [] shown = "526" /\ path = own.mode              -> Verdict("fail", FALSE)
      [] shown = "trusted" /\ path = own.mode          -> Verdict("ok", FALSE)

Probe(d) ==
    /\ pc = "probe" /\ d \in todo
    /\ todo' = todo \ {d}
    /\ \/ /\ Calm
          /\ level' = [level EXCEPT ![d] = Assess(d).level]
          /\ retry' = IF Assess(d).again /\ applied THEN retry \cup {d} ELSE retry
       \/ /\ Fault("unseen")       \* no connection, or a service that does not answer
          /\ level' = [level EXCEPT ![d] = "warn"]
          /\ UNCHANGED retry
    /\ UNCHANGED <<config, zone, answers, reach, npm, pc, session, only, rounds, applied, failed,
                   exit, push, touched>>

AskForever ==                     \* mutant: no deadline
    /\ pc = "probe" /\ todo = {}
    /\ retry # {}
    /\ todo' = retry /\ retry' = {} /\ rounds' = rounds - 1
    /\ UNCHANGED <<config, zone, answers, reach, npm, pc, session, only, applied, report, push,
                   touched>>
    /\ Calm

AskAgain ==
    /\ pc = "probe" /\ todo = {}
    /\ retry # {} /\ rounds > 0
    /\ todo' = retry /\ retry' = {} /\ rounds' = rounds - 1
    /\ UNCHANGED <<config, zone, answers, reach, npm, pc, session, only, applied, report, push,
                   touched>> /\ Calm

Conclude ==
    /\ pc = "probe" /\ todo = {}
    /\ retry = {} \/ rounds = 0
    /\ IF \E d \in Hosts : level[d] \in {"fail", "525"} THEN FailTo(AfterVerify) ELSE Goto(AfterVerify)
    /\ retry' = {}
    /\ UNCHANGED <<config, zone, answers, reach, npm, todo, session, only, rounds, applied, level,
                   exit, push, touched>> /\ Calm

\* The whole configuration is written, as the command knows it.
Persist ==
    /\ pc = "persist"
    /\ Goto("end")
    /\ file' = own
    /\ UNCHANGED <<own, cached, zone, answers, reach, npm, todo, session, only, retry, rounds,
                   applied, level, exit, push, touched>> /\ Calm

Finish ==
    /\ pc = "end"
    /\ pc' = "idle"
    /\ exit' = IF failed THEN "error" ELSE "zero"
    /\ Over
    /\ UNCHANGED <<file, cached, zone, answers, reach, npm, push>> /\ Calm

\* _offer_direct_mode: the report of the second run replaces the first one's.
GoDirect ==
    /\ pc = "end"
    /\ own.mode = "proxied" /\ \E d \in Hosts : level[d] = "525"
    /\ own' = [own EXCEPT !.mode = "direct"]
    /\ file' = own'
    /\ pc' = "zone" /\ only' = FALSE
    /\ Fresh
    /\ UNCHANGED <<cached, zone, answers, reach, npm, exit, push, touched>> /\ Calm

\* host resync: every row, with its record, whatever it is booked on.
Resync ==
    /\ pc = "resync"
    /\ todo' = rows
    /\ Goto("resyncing")
    /\ UNCHANGED <<config, zone, answers, reach, npm, session, only, retry, rounds, applied, level,
                   exit, push, touched>> /\ Calm

ResyncHost(d) ==
    /\ pc = "resyncing" /\ d \in todo
    /\ todo' = todo \ {d}
    /\ \/ /\ MaybeUpserted(d, own) /\ Goto("resyncing")
          /\ served' = [served EXCEPT ![d] = recorded]
          /\ pushed' = pushed \cup {d}
       \/ Refused /\ FailTo("resyncing") /\ UNCHANGED <<dns, served, pushed>>
    /\ UNCHANGED <<config, ssl, answers, reach, recorded, rows, booked, torn, broken, only, retry,
                   rounds, applied, level, exit, push, touched>>

\* Whatever was pushed is booked: a failed host rolls nothing back here.
Resynced ==
    /\ pc = "resyncing" /\ todo = {}
    /\ Goto("end")
    /\ Books /\ pushed' = {} /\ UNCHANGED broken
    /\ UNCHANGED <<config, zone, answers, reach, recorded, rows, served, torn, todo, only, retry,
                   rounds, applied, level, exit, push, touched>> /\ Calm

Kill ==
    /\ pc # "idle" /\ Fault("crash")
    /\ pc' = "idle" /\ exit' = "none"
    /\ Over
    /\ UNCHANGED <<file, cached, zone, answers, reach, npm, push>>

-----------------------------------------------------------------------------
(* Beside the command: the panel, the operator and the resolvers.          *)

\* A handler of the panel publishes a host with the mode the panel has cached, ...
PanelPush(d) ==
    /\ push = NoPush /\ Operator("push")
    /\ \/ cached.api /\ Upserted(d, cached.mode)
       \/ ~cached.api /\ UNCHANGED dns
    /\ push' = [host |-> d, cert |-> recorded]
    /\ touched' = (pc # "idle")
    /\ UNCHANGED <<config, ssl, answers, reach, npm, pc, todo, session, only, retry, rounds,
                   applied, report>>

\* ... and writes it to NPM with the certificate it read before.  It waits for a
\* session that has booked something: that one holds SQLite's write lock.
PanelWrite ==
    /\ push # NoPush /\ pushed = {}
    /\ rows' = rows \cup {push.host}
    /\ served' = [served EXCEPT ![push.host] = push.cert]
    /\ booked' = [booked EXCEPT ![push.host] = push.cert]
    /\ push' = NoPush
    /\ touched' = (pc # "idle")
    /\ UNCHANGED <<config, zone, answers, reach, recorded, torn, pc, todo, session, only, retry,
                   rounds, applied, report>> /\ Calm

\* The settings form writes the panel's copy; a restart reads the file.
Form(mode) ==
    /\ Operator("form")
    /\ cached' = [cached EXCEPT !.mode = mode]
    /\ file' = cached'
    /\ touched' = (pc # "idle")
    /\ UNCHANGED <<own, zone, answers, reach, npm, pc, todo, session, only, retry, rounds, applied,
                   report, push>>

Reload ==
    /\ Operator("reload")
    /\ push = NoPush /\ cached # file
    /\ cached' = file
    /\ UNCHANGED <<file, own, zone, answers, reach, npm, pc, todo, session, only, retry, rounds,
                   applied, report, push, touched>>

HandEdit(d) ==
    /\ Operator("hand")
    /\ \E path \in Modes \ {dns[d]} : Upserted(d, path)
    /\ touched' = (pc # "idle")
    /\ UNCHANGED <<config, ssl, answers, reach, npm, pc, todo, session, only, retry, rounds,
                   applied, report, push>>

\* A resolver asks again once its answer has expired.
Expire(d) ==
    /\ answers[d] # Path(d)
    /\ answers' = [answers EXCEPT ![d] = Path(d)]
    /\ UNCHANGED <<config, zone, reach, npm, pc, todo, session, only, retry, rounds, applied,
                   report, push, touched>> /\ Calm

-----------------------------------------------------------------------------

Begin == BeginProvision \/ (\E mode \in Modes : BeginMode(mode)) \/ BeginVerify \/ BeginResync

Step ==
    \/ Others \/ Zone \/ Publish \/ ListRecords \/ Patch \/ Patched \/ SetSslMode
    \/ Install \/ Attach \/ (\E d \in Hosts : AttachHost(d)) \/ Attached \/ PublishPanel
    \/ Ask \/ (\E d \in Hosts : Probe(d)) \/ AskAgain \/ Conclude \/ Persist \/ Finish \/ GoDirect
    \/ Resync \/ (\E d \in Hosts : ResyncHost(d)) \/ Resynced

Beside ==
    \/ \E d \in Hosts : PanelPush(d) \/ HandEdit(d)
    \/ PanelWrite \/ Reload \/ \E mode \in Modes : Form(mode)

Next == Begin \/ Token \/ Step \/ Kill \/ Beside \/ \E d \in Hosts : Expire(d)

Spec == Init /\ [][Next]_vars

\* Commands and handlers are scheduled, answers expire, somebody provisions again.
FairSpec ==
    /\ Spec
    /\ WF_vars(Step) /\ WF_vars(PanelWrite) /\ WF_vars(BeginProvision)
    /\ \A d \in Hosts : WF_vars(Expire(d))

-----------------------------------------------------------------------------
(* Properties.                                                             *)

(* Every variable keeps its type; a verification asks at most MaxRounds    *)
(* times again.                                                            *)
TypeOK ==
    /\ file \in Config /\ own \in Config /\ cached \in Config
    /\ dns \in [Names -> Modes \cup {"none"}]
    /\ answers \in [Hosts -> Modes \cup {"none"}]
    /\ ssl \in {"full", "strict"} /\ reach \in BOOLEAN
    /\ recorded \in Kinds /\ rows \subseteq Hosts
    /\ booked \in [Hosts -> Kinds] /\ served \in [Hosts -> Kinds]
    /\ pc \in {"idle", "others", "zone", "dns", "list", "patch", "ssl", "cert", "attach",
               "attaching", "panel", "verify", "probe", "persist", "end", "resync", "resyncing"}
    /\ todo \subseteq Names /\ pushed \subseteq Hosts /\ retry \subseteq Hosts
    /\ rounds \in 0..MaxRounds
    /\ level \in [Hosts -> {"none", "ok", "warn", "fail", "525"}]
    /\ only \in BOOLEAN /\ applied \in BOOLEAN /\ failed \in BOOLEAN /\ broken \in BOOLEAN
    /\ exit \in {"none", "zero", "error"}
    /\ push \in [host : Hosts, cert : Kinds] \cup {NoPush}
    /\ touched \in BOOLEAN /\ torn \in BOOLEAN
    /\ faults \in 0..MaxFaults

(* A host that verify_https calls trusted is trusted by a browser whose    *)
(* resolver knows the present record, provided the record is as the mode   *)
(* wants it: assess_public accepts no certificate that a resolver's old    *)
(* answer led to.                                                          *)
OkMeansTrusted ==
    \A d \in Hosts :
        /\ pc \in {"probe", "persist", "end"} /\ level[d] = "ok"
        /\ Path(d) = own.mode /\ ~touched
        => Trusted(d)

(* "Setup makes three things agree": a provisioning or a change of mode    *)
(* that has applied DNS (a token is stored and Cloudflare took every       *)
(* request) and ends with status zero leaves every row's record, the       *)
(* zone's SSL mode and the certificate as the mode wants them.  Excepted   *)
(* are a record that Cloudflare will not proxy, which the step leaves with *)
(* a warning, what somebody else changed meanwhile, and an installation    *)
(* that failed between two hosts: attach_certificate compares the rows     *)
(* with the record, and neither knows of the hosts that were moved.         *)
Agree(d) ==
    /\ Path(d) = own.mode \/ Kept(d, own.mode)
    /\ served[d] = Kind(own.mode)
    /\ own.mode = "proxied" => ssl = "strict"

SuccessMeansAgreement ==
    [][pc = "end" /\ exit' = "zero" /\ applied /\ ~touched /\ ~torn => \A d \in rows : Agree(d)]_vars

(* README.md:403: "a half-finished run converges instead of erroring":     *)
(* however commands failed or were killed, whatever was edited by hand or  *)
(* pushed with a stale mode, provisioning again ends with every host       *)
(* trusted, when Cloudflare can reach this server and a token is stored -  *)
(* but for a host with a record that the mode wants proxied and Cloudflare *)
(* will not proxy, and unless an installation moved some hosts to its      *)
(* certificate and failed before it was recorded.                          *)
Converges ==
    reach /\ <>[](file.api) => <>torn \/ <>[](\A d \in rows : Trusted(d) \/ Kept(d, file.mode))
=============================================================================
