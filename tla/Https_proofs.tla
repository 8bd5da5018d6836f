----------------------------- MODULE Https_proofs -----------------------------
(***************************************************************************)
(* Theorems about Https, for any number of hosts, rounds and faults:       *)
(* types, a host that is called trusted is trusted, and a command that     *)
(* ends with status zero leaves DNS, SSL mode and certificate in step.     *)
(***************************************************************************)
EXTENDS Https, TLAPS

-----------------------------------------------------------------------------
(* The invariants.                                                         *)

Labels == {"idle", "others", "zone", "dns", "list", "patch", "ssl", "cert", "attach",
           "attaching", "panel", "verify", "probe", "persist", "end", "resync", "resyncing"}
Levels == {"none", "ok", "warn", "fail", "525"}

\* The parts of TypeOK, one for each group of variables.
ConfigTypes == file \in Config /\ own \in Config /\ cached \in Config

ZoneTypes ==
    /\ dns \in [Names -> Modes \cup {"none"}]
    /\ answers \in [Hosts -> Modes \cup {"none"}]
    /\ ssl \in {"full", "strict"} /\ reach \in BOOLEAN

NpmTypes ==
    /\ recorded \in Kinds /\ rows \subseteq Hosts
    /\ booked \in [Hosts -> Kinds] /\ served \in [Hosts -> Kinds]
    /\ push \in [host : Hosts, cert : Kinds] \cup {NoPush}
    /\ torn \in BOOLEAN

CommandTypes ==
    /\ pc \in Labels
    /\ todo \subseteq Names /\ pushed \subseteq Hosts /\ retry \subseteq Hosts
    /\ rounds \in 0..MaxRounds
    /\ level \in [Hosts -> Levels]

FlagTypes ==
    /\ only \in BOOLEAN /\ applied \in BOOLEAN /\ failed \in BOOLEAN /\ touched \in BOOLEAN
    /\ broken \in BOOLEAN /\ exit \in {"none", "zero", "error"}

Types == ConfigTypes /\ ZoneTypes /\ NpmTypes /\ CommandTypes /\ FlagTypes /\ faults \in 0..MaxFaults

\* The labels behind those steps of a provisioning, and those at which it has verdicts.
AfterPatch == {"ssl", "cert", "attach", "attaching", "panel", "verify", "probe", "persist", "end"}
AfterSsl   == AfterPatch \ {"ssl"}
AfterCert  == AfterSsl \ {"cert"}
Concluding == {"probe", "persist", "end"}

\* Verdicts and the exit status are those of the command that is at work.
CourseInv ==
    /\ pc # "idle" => exit = "none"
    /\ pc \in {"list", "patch"} \/ applied => own.api
    /\ applied => pc \in AfterPatch
    /\ pc \notin Concluding => level = [d \in Hosts |-> "none"]

\* Record by record, the zone follows the mode, as far as Cloudflare lets it.
Settled(n) == dns[n] \in {"none", own.mode} \/ Kept(n, own.mode)

DnsInv ==
    ~touched =>
        /\ pc \in {"list", "patch"} => dns["wildcard"] = own.mode
        /\ pc = "patch" => \A n \in Names \ todo : Settled(n)
        /\ applied => dns["wildcard"] = own.mode /\ \A n \in Names : Settled(n)

SslInv ==
    applied /\ ~failed /\ pc \in AfterSsl /\ own.mode = "proxied" => ssl = "strict"

CertInv ==
    applied /\ ~failed /\ pc \in AfterCert => recorded = Kind(own.mode)

\* Where NPM serves something else than the row is booked on, an installation
\* has moved the host to the certificate it then recorded, or a session has
\* pushed it whose bookings are not committed, or never were.
PairInv ==
    /\ pushed # {} => pc \in {"attaching", "resyncing"}
    /\ \A d \in pushed : served[d] = recorded
    /\ recorded = "none" => push.cert = "none" /\ \A d \in Hosts : booked[d] = "none"
    /\ ~torn => \A d \in Hosts : served[d] = booked[d] \/ (served[d] = recorded /\ served[d] # "none")

\* The rows that attach_certificate is through with.
Pending == IF pc = "attaching" THEN todo ELSE {}

RowsInv ==
    /\ broken => failed
    /\ applied /\ ~failed /\ ~touched /\ pc \in AfterCert \ {"attach"} =>
           \A d \in rows \ Pending : booked[d] = recorded \/ (pc = "attaching" /\ d \in pushed)

Agreement == DnsInv /\ SslInv /\ CertInv /\ PairInv /\ RowsInv

Inv == Types /\ CourseInv /\ Agreement /\ OkMeansTrusted

-----------------------------------------------------------------------------
(* The steps in groups.                                                    *)

ZoneSteps == Others \/ Zone \/ Publish \/ ListRecords \/ Patch \/ Patched \/ SetSslMode

HostSteps ==
    \/ Install \/ Attach \/ (\E d \in Hosts : AttachHost(d)) \/ Attached \/ PublishPanel
    \/ Resync \/ (\E d \in Hosts : ResyncHost(d)) \/ Resynced

CheckSteps == Ask \/ (\E d \in Hosts : Probe(d)) \/ AskAgain \/ Conclude \/ Persist

\* A command begins, starts over or is gone: nothing has been achieved.
Resets ==
    /\ Fresh
    /\ pc' \in {"idle", "others", "zone", "verify", "resync"}
    /\ pc' # "idle" => exit' = "none"
    /\ exit' \in {"none", "zero", "error"}
    /\ UNCHANGED <<cached, zone, answers, reach, npm, push>>
    /\ own' \in Config /\ file' \in Config /\ only' \in BOOLEAN
    /\ touched' \in BOOLEAN

\* Somebody else: what the command knows is left alone, and it is noted when
\* records or hosts were not.
Aside ==
    /\ UNCHANGED <<own, ssl, reach, recorded, torn, pc, todo, session, only, retry, rounds, applied,
                   report>>
    /\ \/ touched' = (pc # "idle")
       \/ UNCHANGED <<touched, dns, rows, booked, served>>

LEMMA NextInGroups ==
    ASSUME Types, CourseInv, Next
    PROVE  Resets \/ Aside \/ ZoneSteps \/ HostSteps \/ CheckSteps
<1> USE DEF config, zone, npm, report, session
<1>1. CASE Begin
  <2>1. /\ Fresh /\ pc' \in {"others", "zone", "verify", "resync"} /\ exit' = "none"
        /\ touched' = FALSE /\ UNCHANGED <<cached, zone, answers, reach, npm, push>>
    BY <1>1 DEF Begin, BeginProvision, BeginMode, BeginVerify, BeginResync, Starts
  <2>2. own' \in Config /\ file' \in Config /\ only' \in BOOLEAN
    BY <1>1 DEF Begin, BeginProvision, BeginMode, BeginVerify, BeginResync, Types, ConfigTypes, Config
  <2> QED
    BY <2>1, <2>2 DEF Resets
<1>2. CASE Finish \/ Kill
  <2>1. /\ Over /\ pc' = "idle" /\ exit' \in {"none", "zero", "error"}
        /\ UNCHANGED <<file, cached, zone, answers, reach, npm, push>>
    BY <1>2 DEF Finish, Kill
  <2> QED
    BY <2>1 DEF Over, Resets, Types, ConfigTypes
<1>3. CASE GoDirect
  <2>1. own' \in Config /\ file' \in Config /\ exit' = "none"
    BY <1>3 DEF GoDirect, Types, ConfigTypes, Config, Modes, CourseInv
  <2> QED
    BY <1>3, <2>1 DEF GoDirect, Resets, Types, FlagTypes
<1>4. CASE Token \/ Beside \/ \E d \in Hosts : Expire(d)
  BY <1>4 DEF Token, Beside, PanelPush, HandEdit, PanelWrite, Reload, Form, Expire, Upserted, Aside
<1> QED
  BY <1>1, <1>2, <1>3, <1>4 DEF Next, Step, ZoneSteps, HostSteps, CheckSteps

-----------------------------------------------------------------------------
(* Types.                                                                  *)

LEMMA Constants ==
    /\ PanelHost \in Hosts /\ Hosts \subseteq Names /\ "wildcard" \in Names
    /\ MaxRounds \in Nat /\ MaxFaults \in Nat
    /\ \A mode \in Modes : Kind(mode) \in Kinds \ {"none"}
  BY HttpsAssumption DEF Names, Modes, Kind, Kinds

LEMMA FaultTypes ==
    ASSUME Types, Next
    PROVE  faults' \in 0..MaxFaults
<1>1. Calm \/ Spend
  BY DEF Next, Begin, BeginProvision, BeginMode, BeginVerify, BeginResync, Token, Step, Others, Zone,
         Publish, ListRecords, Patch, Patched, SetSslMode, Install, Attach, AttachHost, Attached,
         PublishPanel, MaybeUpserted, Ask, Probe, AskAgain, Conclude, Persist, Finish, GoDirect, Resync,
         ResyncHost, Resynced, Kill, Beside, PanelPush, PanelWrite, Form, Reload, HandEdit, Expire,
         Refused, Lost, Fault, Operator
<1> QED
  BY <1>1, Constants DEF Types, Calm, Spend

LEMMA ConfigTypesStep ==
    ASSUME Types, Next
    PROVE  ConfigTypes'
<1> USE DEF config, Types, ConfigTypes
<1>1. CASE Begin \/ Finish \/ Kill \/ GoDirect
  BY <1>1 DEF Begin, BeginProvision, BeginMode, BeginVerify, BeginResync, Starts, Finish, Kill, Over,
              GoDirect, Config, Modes
<1>2. CASE Token \/ Beside \/ \E d \in Hosts : Expire(d)
  BY <1>2 DEF Token, Beside, PanelPush, PanelWrite, Form, Reload, HandEdit, Expire, Config
<1>3. CASE ZoneSteps \/ HostSteps \/ CheckSteps
  BY <1>3 DEF ZoneSteps, HostSteps, CheckSteps, Others, Zone, Publish, ListRecords, Patch, Patched,
              SetSslMode, Install, Attach, AttachHost, Attached, PublishPanel, Ask, Probe, AskAgain,
              Conclude, Persist, Resync, ResyncHost, Resynced
<1> QED
  BY <1>1, <1>2, <1>3 DEF Next, Step, ZoneSteps, HostSteps, CheckSteps

(* A record is set to a mode.                                              *)
LEMMA UpsertedTypes ==
    ASSUME Types, NEW d \in Names, NEW mode \in Modes, Upserted(d, mode)
    PROVE  dns' \in [Names -> Modes \cup {"none"}]
  BY DEF Types, ZoneTypes, Upserted

LEMMA ZoneTypesStep ==
    ASSUME Types, Next
    PROVE  ZoneTypes'
<1> USE DEF zone
<1>0. /\ own.mode \in Modes /\ cached.mode \in Modes
      /\ dns \in [Names -> Modes \cup {"none"}]
  BY DEF Types, ConfigTypes, ZoneTypes, Config
<1>1. dns' \in [Names -> Modes \cup {"none"}]
  <2>1. CASE Begin \/ Finish \/ Kill \/ GoDirect \/ Token \/ \E d \in Hosts : Expire(d)
    BY <1>0, <2>1 DEF Begin, BeginProvision, BeginMode, BeginVerify, BeginResync, Starts, Finish, Kill,
                      GoDirect, Token, Expire
  <2>2. CASE Beside
    <3>1. UNCHANGED dns \/ \E d \in Hosts, mode \in Modes : Upserted(d, mode)
      BY <1>0, <2>2 DEF Beside, PanelPush, PanelWrite, Form, Reload, HandEdit
    <3> QED
      BY <1>0, <3>1, UpsertedTypes, Constants
  <2>3. CASE ZoneSteps
    BY <1>0, <2>3, Constants DEF ZoneSteps, Others, Zone, Publish, ListRecords, Patch, Patched, SetSslMode
  <2>4. CASE HostSteps
    <3>1. UNCHANGED dns \/ \E d \in Hosts, mode \in Modes : Upserted(d, mode)
      BY <1>0, <2>4, Constants DEF HostSteps, Install, Attach, AttachHost, Attached, PublishPanel,
            Resync, ResyncHost, Resynced, MaybeUpserted
    <3> QED
      BY <1>0, <3>1, UpsertedTypes, Constants
  <2>5. CASE CheckSteps
    BY <1>0, <2>5 DEF CheckSteps, Ask, Probe, AskAgain, Conclude, Persist
  <2> QED
    BY <2>1, <2>2, <2>3, <2>4, <2>5 DEF Next, Step, ZoneSteps, HostSteps, CheckSteps
<1>2. answers' \in [Hosts -> Modes \cup {"none"}] /\ ssl' \in {"full", "strict"} /\ reach' \in BOOLEAN
  <2>1. UNCHANGED reach /\ (UNCHANGED answers \/ \E d \in Hosts : answers' = [answers EXCEPT ![d] = Path(d)])
    BY DEF Next, Begin, BeginProvision, BeginMode, BeginVerify, BeginResync, Starts, Finish,
          Kill, GoDirect, Token, Expire, Beside, PanelPush, PanelWrite, Form, Reload, HandEdit, Step,
          Others, Zone, Publish, ListRecords, Patch, Patched, SetSslMode, Install, Attach, AttachHost,
          Attached, PublishPanel, Resync, ResyncHost, Resynced, Ask, Probe, AskAgain, Conclude, Persist
  <2>2. UNCHANGED ssl \/ ssl' = "strict"
    BY DEF Next, Begin, BeginProvision, BeginMode, BeginVerify, BeginResync, Starts, Finish,
          Kill, GoDirect, Token, Expire, Beside, PanelPush, PanelWrite, Form, Reload, HandEdit, Step,
          Others, Zone, Publish, ListRecords, Patch, Patched, SetSslMode, Install, Attach, AttachHost,
          Attached, PublishPanel, Resync, ResyncHost, Resynced, Ask, Probe, AskAgain, Conclude, Persist
  <2>3. \A d \in Hosts : Path(d) \in Modes \cup {"none"}
    BY <1>0, Constants DEF Path
  <2> QED
    BY <2>1, <2>2, <2>3 DEF Types, ZoneTypes
<1> QED
  BY <1>1, <1>2 DEF ZoneTypes

LEMMA NpmTypesStep ==
    ASSUME Types, Next
    PROVE  NpmTypes'
<1> USE DEF npm
<1>0. /\ own.mode \in Modes /\ recorded \in Kinds /\ rows \subseteq Hosts
      /\ booked \in [Hosts -> Kinds] /\ served \in [Hosts -> Kinds]
      /\ push \in [host : Hosts, cert : Kinds] \cup {NoPush} /\ torn \in BOOLEAN
  BY DEF Types, ConfigTypes, NpmTypes, Config
<1>1. CASE Begin \/ Finish \/ Kill \/ GoDirect \/ Token \/ ZoneSteps \/ CheckSteps
           \/ \E d \in Hosts : Expire(d)
  BY <1>0, <1>1 DEF NpmTypes, Begin, BeginProvision, BeginMode, BeginVerify, BeginResync, Starts, Finish,
        Kill, GoDirect, Token, Expire, ZoneSteps, Others, Zone, Publish, ListRecords, Patch, Patched,
        SetSslMode, CheckSteps, Ask, Probe, AskAgain, Conclude, Persist
<1>2. CASE Beside
  <2>1. CASE \E d \in Hosts : PanelPush(d)
    BY <1>0, <2>1 DEF PanelPush, NpmTypes
  <2>2. CASE PanelWrite
    BY <1>0, <2>2 DEF PanelWrite, NpmTypes
  <2> QED
    BY <1>0, <1>2, <2>1, <2>2 DEF Beside, Form, Reload, HandEdit, NpmTypes
<1>3. CASE HostSteps
  <2>1. CASE Install
    BY <1>0, <2>1, Constants DEF Install, NpmTypes
  <2>2. CASE PublishPanel
    BY <1>0, <2>2, Constants DEF PublishPanel, NpmTypes
  <2>3. CASE \E d \in Hosts : AttachHost(d) \/ ResyncHost(d)
    BY <1>0, <2>3 DEF AttachHost, ResyncHost, NpmTypes
  <2>4. CASE Attach \/ Resync
    BY <1>0, <2>4 DEF Attach, Resync, NpmTypes
  <2>5. CASE Attached \/ Resynced
    BY <1>0, <2>5 DEF Attached, Resynced, Books, NpmTypes
  <2> QED
    BY <1>3, <2>1, <2>2, <2>3, <2>4, <2>5 DEF HostSteps
<1> QED
  BY <1>1, <1>2, <1>3 DEF Next, Step, ZoneSteps, HostSteps, CheckSteps

(* assess_public calls a host ok for a trusted answer on the mode's path.  *)
LEMMA Assessed ==
    ASSUME NEW d \in Hosts
    PROVE  /\ Assess(d).level \in Levels
           /\ Assess(d).level = "ok" => answers[d] = own.mode /\ Shown(d, answers[d]) = "trusted"
<1> DEFINE path  == answers[d]
           shown == Shown(d, path)
<1>1. shown \in {"unresolved", "trusted", "origin", "untrusted", "525", "526"}
  BY DEF Shown
<1>2. Assess(d) =
          CASE shown = "unresolved" -> Verdict("fail", TRUE)
            [] shown = "origin"     -> Verdict("fail", own.mode = "proxied")
            [] shown = "untrusted"  -> Verdict("fail", FALSE)
            [] shown \notin {"unresolved", "origin", "untrusted"} /\ path # own.mode -> Verdict("warn", TRUE)
            [] shown = "525" /\ path = own.mode     -> Verdict("525", TRUE)
            [] shown = "526" /\ path = own.mode     -> Verdict("fail", FALSE)
            [] shown = "trusted" /\ path = own.mode -> Verdict("ok", FALSE)
  BY DEF Assess
<1> HIDE DEF shown, path
<1>3. CASE shown = "unresolved"
  <2>1. Assess(d) = Verdict("fail", TRUE)
    BY <1>2, <1>3
  <2> QED
    BY <2>1 DEF Verdict, Levels
<1>4. CASE shown = "origin"
  <2>1. Assess(d) = Verdict("fail", own.mode = "proxied")
    BY <1>2, <1>4
  <2> QED
    BY <2>1 DEF Verdict, Levels
<1>5. CASE shown = "untrusted"
  <2>1. Assess(d) = Verdict("fail", FALSE)
    BY <1>2, <1>5
  <2> QED
    BY <2>1 DEF Verdict, Levels
<1>6. CASE shown \in {"trusted", "525", "526"} /\ path # own.mode
  <2>1. Assess(d) = Verdict("warn", TRUE)
    BY <1>2, <1>6
  <2> QED
    BY <2>1 DEF Verdict, Levels
<1>7. CASE shown = "525" /\ path = own.mode
  <2>1. Assess(d) = Verdict("525", TRUE)
    BY <1>2, <1>7
  <2> QED
    BY <2>1 DEF Verdict, Levels
<1>8. CASE shown = "526" /\ path = own.mode
  <2>1. Assess(d) = Verdict("fail", FALSE)
    BY <1>2, <1>8
  <2> QED
    BY <2>1 DEF Verdict, Levels
<1>9. CASE shown = "trusted" /\ path = own.mode
  <2>1. Assess(d) = Verdict("ok", FALSE)
    BY <1>2, <1>9
  <2> QED
    BY <1>9, <2>1 DEF Verdict, Levels, shown, path
<1> QED
  BY <1>1, <1>3, <1>4, <1>5, <1>6, <1>7, <1>8, <1>9

LEMMA CommandTypesStep ==
    ASSUME Types, Next, Resets \/ Aside \/ ZoneSteps \/ HostSteps \/ CheckSteps
    PROVE  CommandTypes'
<1> USE DEF report, session
<1>0. /\ pc \in Labels /\ todo \subseteq Names /\ pushed \subseteq Hosts /\ retry \subseteq Hosts
      /\ rounds \in 0..MaxRounds /\ level \in [Hosts -> Levels]
      /\ rows \subseteq Hosts
  BY DEF Types, CommandTypes, NpmTypes
<1>1. CASE Resets
  <2>1. pc' \in Labels /\ todo' \subseteq Names /\ pushed' \subseteq Hosts /\ retry' \subseteq Hosts
    BY <1>1 DEF Resets, Fresh, Labels
  <2>2. rounds' \in 0..MaxRounds
    BY <1>1, Constants DEF Resets, Fresh
  <2>3. level' \in [Hosts -> Levels]
    BY <1>1 DEF Resets, Fresh, Levels
  <2> QED
    BY <2>1, <2>2, <2>3 DEF CommandTypes
<1>2. CASE Aside
  BY <1>0, <1>2 DEF Aside, CommandTypes
<1>3. CASE ZoneSteps
  <2>1. UNCHANGED <<pushed, retry, rounds, level>>
    BY <1>3 DEF ZoneSteps, Others, Zone, Publish, ListRecords, Patch, Patched, SetSslMode
  <2>2. pc' \in Labels
    BY <1>3 DEF ZoneSteps, Others, Zone, Publish, ListRecords, Patch, Patched, SetSslMode, Goto, FailTo,
                Labels
  <2>3. todo' \subseteq Names
    BY <1>0, <1>3 DEF ZoneSteps, Others, Zone, Publish, ListRecords, Patch, Patched, SetSslMode
  <2> QED
    BY <1>0, <2>1, <2>2, <2>3 DEF CommandTypes
<1>4. CASE HostSteps
  <2>1. UNCHANGED <<retry, rounds, level>>
    BY <1>4 DEF HostSteps, Install, Attach, AttachHost, Attached, PublishPanel, Resync, ResyncHost, Resynced
  <2>2. pc' \in Labels
    BY <1>4 DEF HostSteps, Install, Attach, AttachHost, Attached, PublishPanel, Resync, ResyncHost, Resynced,
                Goto, FailTo, Labels
  <2>3. todo' \subseteq Names
    BY <1>0, <1>4, Constants DEF HostSteps, Install, Attach, AttachHost, Attached, PublishPanel, Resync,
                ResyncHost, Resynced
  <2>4. pushed' \subseteq Hosts
    BY <1>0, <1>4 DEF HostSteps, Install, Attach, AttachHost, Attached, PublishPanel, Resync,
                ResyncHost, Resynced
  <2> QED
    BY <1>0, <2>1, <2>2, <2>3, <2>4 DEF CommandTypes
<1>5. CASE CheckSteps
  <2>1. pc' \in Labels
    BY <1>0, <1>5 DEF CheckSteps, Ask, Probe, AskAgain, Conclude, Persist, AfterVerify, Goto, FailTo, Labels
  <2>2. todo' \subseteq Names /\ pushed' \subseteq Hosts /\ retry' \subseteq Hosts
    BY <1>0, <1>5, Constants DEF CheckSteps, Ask, Probe, AskAgain, Conclude, Persist
  <2>3. rounds' \in 0..MaxRounds
    <3>1. rounds' = rounds \/ rounds' = MaxRounds \/ (rounds > 0 /\ rounds' = rounds - 1)
      BY <1>5 DEF CheckSteps, Ask, Probe, AskAgain, Conclude, Persist
    <3> QED
      BY <1>0, <3>1, Constants
  <2>4. level' \in [Hosts -> Levels]
    <3>1. UNCHANGED level \/ \E d \in Hosts, l \in Levels : level' = [level EXCEPT ![d] = l]
      BY <1>5, Assessed DEF CheckSteps, Ask, Probe, AskAgain, Conclude, Persist, Levels
    <3> QED
      BY <1>0, <3>1
  <2> QED
    BY <2>1, <2>2, <2>3, <2>4 DEF CommandTypes
<1> QED
  BY <1>1, <1>2, <1>3, <1>4, <1>5

LEMMA FlagTypesStep ==
    ASSUME Types, Next, Resets \/ Aside \/ ZoneSteps \/ HostSteps \/ CheckSteps
    PROVE  FlagTypes'
<1> USE DEF report, session, Types, FlagTypes
<1>1. CASE Resets
  BY <1>1 DEF Resets, Fresh
<1>2. CASE Aside
  BY <1>2 DEF Aside
<1>3. CASE ZoneSteps
  BY <1>3 DEF ZoneSteps, Others, Zone, Publish, ListRecords, Patch, Patched, SetSslMode, Goto, FailTo
<1>4. CASE HostSteps
  BY <1>4 DEF HostSteps, Install, Attach, AttachHost, Attached, PublishPanel, Resync, ResyncHost, Resynced,
              Goto, FailTo
<1>5. CASE CheckSteps
  BY <1>5 DEF CheckSteps, Ask, Probe, AskAgain, Conclude, Persist, Goto, FailTo
<1> QED
  BY <1>1, <1>2, <1>3, <1>4, <1>5

-----------------------------------------------------------------------------
(* What a command has achieved.                                            *)

LEMMA CourseStep ==
    ASSUME Types, CourseInv, Resets \/ Aside \/ ZoneSteps \/ HostSteps \/ CheckSteps
    PROVE  CourseInv'
<1> USE DEF report, config, CourseInv, AfterPatch, Concluding
<1>1. CASE Resets
  BY <1>1 DEF Resets, Fresh
<1>2. CASE Aside
  BY <1>2 DEF Aside
<1>3. CASE ZoneSteps
  BY <1>3 DEF ZoneSteps, Others, Zone, Publish, ListRecords, Patch, Patched, SetSslMode, Goto, FailTo
<1>4. CASE HostSteps
  BY <1>4 DEF HostSteps, Install, Attach, AttachHost, Attached, PublishPanel, Resync, ResyncHost, Resynced,
              Goto, FailTo
<1>5. CASE CheckSteps
  BY <1>5 DEF CheckSteps, Ask, Probe, AskAgain, Conclude, Persist, AfterVerify, Goto, FailTo
<1> QED
  BY <1>1, <1>2, <1>3, <1>4, <1>5

LEMMA DnsStep ==
    ASSUME Types, CourseInv, DnsInv, Resets \/ Aside \/ ZoneSteps \/ HostSteps \/ CheckSteps
    PROVE  DnsInv'
<1> USE DEF report, config, zone, CourseInv, DnsInv, Settled, Kept, AfterPatch
<1>0. /\ dns \in [Names -> Modes \cup {"none"}]
      /\ touched \in BOOLEAN /\ applied \in BOOLEAN
  BY DEF Types, ZoneTypes, FlagTypes
<1>1. CASE Resets
  BY <1>1 DEF Resets, Fresh
<1>2. CASE Aside
  BY <1>2 DEF Aside
<1>3. CASE ZoneSteps
  <2>1. CASE Publish
    BY <1>0, <2>1, Constants DEF Publish, Goto, FailTo
  <2>2. CASE ListRecords
    BY <1>0, <2>2 DEF ListRecords, Goto, FailTo
  <2>3. CASE Patch
    <3>1. PICK n \in todo :
              /\ UNCHANGED <<own, touched, applied>> /\ pc = "patch"
              /\ \/ pc' = "ssl"
                 \/ /\ pc' = "patch" /\ todo' = todo \ {n}
                    /\ dns' = [dns EXCEPT ![n] = own.mode]
      BY <2>3 DEF Patch, Goto, FailTo
    <3>2. ~applied
      BY <3>1
    <3>3. CASE pc' = "ssl"
      BY <3>1, <3>2, <3>3
    <3>4. CASE /\ pc' = "patch" /\ todo' = todo \ {n}
               /\ dns' = [dns EXCEPT ![n] = own.mode]
      <4>1. \A m \in Names : dns'[m] = IF m = n THEN own.mode ELSE dns[m]
        BY <1>0, <3>4
      <4> QED
        BY <3>1, <3>2, <3>4, <4>1, Constants
    <3> QED
      BY <3>1, <3>3, <3>4
  <2>4. CASE Patched
    BY <2>4 DEF Patched, Goto
  <2>5. CASE Others \/ Zone \/ SetSslMode
    BY <2>5 DEF Others, Zone, SetSslMode, Goto, FailTo
  <2> QED
    BY <1>3, <2>1, <2>2, <2>3, <2>4, <2>5 DEF ZoneSteps
<1>4. CASE HostSteps
  <2>1. UNCHANGED dns \/ (\E d \in Hosts : dns' = [dns EXCEPT ![d] = own.mode])
    <3>1. UNCHANGED dns \/ \E d \in Hosts : Upserted(d, own.mode)
      BY <1>4, Constants DEF HostSteps, Install, Attach, AttachHost, Attached, PublishPanel, Resync,
            ResyncHost, Resynced, MaybeUpserted
    <3> QED
      BY <3>1 DEF Upserted
  <2>2. /\ UNCHANGED <<own, applied, touched>>
        /\ pc' \notin {"list", "patch"}
    BY <1>4 DEF HostSteps, Install, Attach, AttachHost, Attached, PublishPanel, Resync, ResyncHost,
          Resynced, Goto, FailTo
  <2>3. \A m \in Names : dns'[m] \in {dns[m], own.mode}
    BY <1>0, <2>1
  <2> QED
    BY <2>2, <2>3, Constants
<1>5. CASE CheckSteps
  BY <1>5 DEF CheckSteps, Ask, Probe, AskAgain, Conclude, Persist, AfterVerify, Goto, FailTo
<1> QED
  BY <1>1, <1>2, <1>3, <1>4, <1>5

LEMMA SslStep ==
    ASSUME Types, CourseInv, SslInv, Resets \/ Aside \/ ZoneSteps \/ HostSteps \/ CheckSteps
    PROVE  SslInv'
<1> USE DEF report, config, zone, CourseInv, SslInv, AfterPatch, AfterSsl
<1>1. CASE Resets
  BY <1>1 DEF Resets, Fresh
<1>2. CASE Aside
  BY <1>2 DEF Aside
<1>3. CASE ZoneSteps
  BY <1>3 DEF ZoneSteps, Others, Zone, Publish, ListRecords, Patch, Patched, SetSslMode, Goto, FailTo
<1>4. CASE HostSteps
  BY <1>4 DEF HostSteps, Install, Attach, AttachHost, Attached, PublishPanel, Resync, ResyncHost, Resynced,
              Goto, FailTo
<1>5. CASE CheckSteps
  BY <1>5 DEF CheckSteps, Ask, Probe, AskAgain, Conclude, Persist, AfterVerify, Goto, FailTo
<1> QED
  BY <1>1, <1>2, <1>3, <1>4, <1>5

LEMMA CertStep ==
    ASSUME Types, CourseInv, CertInv, Resets \/ Aside \/ ZoneSteps \/ HostSteps \/ CheckSteps
    PROVE  CertInv'
<1> USE DEF report, config, npm, CourseInv, CertInv, AfterPatch, AfterSsl, AfterCert
<1>1. CASE Resets
  BY <1>1 DEF Resets, Fresh
<1>2. CASE Aside
  BY <1>2 DEF Aside
<1>3. CASE ZoneSteps
  BY <1>3 DEF ZoneSteps, Others, Zone, Publish, ListRecords, Patch, Patched, SetSslMode, Goto, FailTo
<1>4. CASE HostSteps
  BY <1>4 DEF HostSteps, Install, Attach, AttachHost, Attached, PublishPanel, Resync, ResyncHost, Resynced,
              Goto, FailTo
<1>5. CASE CheckSteps
  BY <1>5 DEF CheckSteps, Ask, Probe, AskAgain, Conclude, Persist, AfterVerify, Goto, FailTo
<1> QED
  BY <1>1, <1>2, <1>3, <1>4, <1>5

(* A host is written with one certificate in NPM and in its row, pushed    *)
(* with the recorded one, or moved with all that serve the recorded one.   *)
LEMMA PairStep ==
    ASSUME Types, PairInv, Next
    PROVE  PairInv'
<1> USE DEF npm, session, PairInv
<1>0. /\ booked \in [Hosts -> Kinds] /\ served \in [Hosts -> Kinds]
      /\ push \in [host : Hosts, cert : Kinds] \cup {NoPush} /\ pushed \subseteq Hosts
      /\ own.mode \in Modes /\ torn \in BOOLEAN
  BY DEF Types, NpmTypes, CommandTypes, ConfigTypes, Config
<1>1. ASSUME UNCHANGED <<recorded, torn>>, pushed' = {}, push' \in {push, NoPush},
             NEW d \in Hosts, NEW c \in {recorded, push.cert},
             served' = [served EXCEPT ![d] = c], booked' = [booked EXCEPT ![d] = c]
      PROVE  PairInv'
  <2>1. recorded = "none" => c = "none" /\ push'.cert = "none"
    BY <1>1 DEF NoPush
  <2>2. \A m \in Hosts : /\ served'[m] = IF m = d THEN c ELSE served[m]
                         /\ booked'[m] = IF m = d THEN c ELSE booked[m]
    BY <1>0, <1>1
  <2> QED
    BY <1>1, <2>1, <2>2
<1>2. CASE /\ UNCHANGED <<recorded, torn, booked, served>> /\ push'.cert \in {push.cert, recorded}
           /\ pushed' = {} \/ UNCHANGED <<pushed, pc>>
  BY <1>2
<1>3. CASE Install
  <2>0. UNCHANGED <<booked, push>> /\ pushed' = {}
    BY <1>3 DEF Install
  <2>1. CASE UNCHANGED <<recorded, torn, served>>
    BY <2>0, <2>1
  <2>2. CASE torn' /\ UNCHANGED recorded
    BY <2>0, <2>2
  <2>3. CASE /\ recorded' = Kind(own.mode) /\ UNCHANGED torn
             /\ served' = [d \in Hosts |-> IF d \in Moves(Kind(own.mode)) THEN Kind(own.mode) ELSE served[d]]
    <3>1. Kind(own.mode) # "none"
      BY <1>0, Constants
    <3>2. ASSUME ~torn, NEW d \in Hosts
          PROVE  served'[d] = booked[d] \/ (served'[d] = Kind(own.mode) /\ served'[d] # "none")
      <4>1. served[d] = booked[d] \/ (served[d] = recorded /\ served[d] # "none")
        BY <3>2
      <4> QED
        BY <2>3, <3>1, <4>1 DEF Moves
    <3> QED
      BY <2>0, <2>3, <3>1, <3>2
  <2> QED
    BY <1>3, <2>1, <2>2, <2>3 DEF Install
<1>4. CASE PanelWrite
  <2>1. /\ push.host \in Hosts /\ push' = NoPush /\ UNCHANGED <<recorded, torn>>
        /\ served' = [served EXCEPT ![push.host] = push.cert]
        /\ booked' = [booked EXCEPT ![push.host] = push.cert]
        /\ pushed' = {}
    BY <1>0, <1>4 DEF PanelWrite
  <2> QED
    BY <1>1, <2>1
<1>5. CASE PublishPanel
  <2>1. /\ UNCHANGED <<recorded, torn, push>> /\ pushed' = {}
        /\ \/ /\ served' = [served EXCEPT ![PanelHost] = recorded]
              /\ booked' = [booked EXCEPT ![PanelHost] = recorded]
           \/ UNCHANGED <<booked, served>>
    BY <1>5 DEF PublishPanel
  <2> QED
    BY <1>1, <1>2, <2>1, Constants
<1>6. CASE \E d \in Hosts : AttachHost(d) \/ ResyncHost(d)
  <2>1. PICK d \in Hosts :
            /\ UNCHANGED <<recorded, torn, push, booked>> /\ pc' \in {"attaching", "resyncing"}
            /\ \/ served' = [served EXCEPT ![d] = recorded] /\ pushed' = pushed \cup {d}
               \/ UNCHANGED <<served, pushed>>
    BY <1>6 DEF AttachHost, ResyncHost, Goto, FailTo
  <2>2. \A m \in Hosts : served'[m] = served[m] \/ served'[m] = recorded
    BY <1>0, <2>1
  <2>3. \A m \in pushed' : m \in Hosts /\ served'[m] = recorded
    BY <1>0, <2>1, <2>2
  <2> QED
    BY <2>1, <2>2, <2>3
<1>7. CASE Attached \/ Resynced
  <2>1. /\ UNCHANGED <<recorded, torn, push, served>> /\ pushed' = {}
        /\ booked' = [d \in Hosts |-> IF d \in pushed /\ ~broken THEN recorded ELSE booked[d]]
    BY <1>7 DEF Attached, Resynced, Books
  <2>2. \A m \in Hosts : booked'[m] = booked[m] \/ (booked'[m] = recorded /\ m \in pushed)
    BY <2>1
  <2> QED
    BY <2>1, <2>2
<1>8. CASE ZoneSteps \/ CheckSteps \/ Attach \/ Resync
           \/ Begin \/ Finish \/ Kill \/ GoDirect \/ Token
           \/ (\E d \in Hosts : Expire(d) \/ PanelPush(d) \/ HandEdit(d)) \/ Reload
           \/ (\E mode \in Modes : Form(mode))
  <2>1. /\ UNCHANGED <<recorded, torn, booked, served>> /\ push'.cert \in {push.cert, recorded}
        /\ pushed' = {} \/ UNCHANGED <<pushed, pc>>
    BY <1>8 DEF ZoneSteps, Others, Zone, Publish, ListRecords, Patch, Patched, SetSslMode, CheckSteps,
          Ask, Probe, AskAgain, Conclude, Persist, Attach, Resync, Fresh, Over, Begin,
          BeginProvision, BeginMode, BeginVerify, BeginResync, Starts, Finish, Kill, GoDirect, Token,
          Expire, PanelPush, HandEdit, Reload, Form
  <2> QED
    BY <1>2, <2>1
<1> QED
  BY <1>3, <1>4, <1>5, <1>6, <1>7, <1>8 DEF Next, Step, Beside, ZoneSteps, CheckSteps

LEMMA RowsStep ==
    ASSUME Types, CourseInv, CertInv, RowsInv,
           Resets \/ Aside \/ ZoneSteps \/ HostSteps \/ CheckSteps
    PROVE  RowsInv'
<1> USE DEF report, config, npm, session, CourseInv, RowsInv, AfterPatch, AfterSsl, AfterCert, Pending
<1>0. /\ booked \in [Hosts -> Kinds] /\ rows \subseteq Hosts /\ own.mode \in Modes
      /\ touched \in BOOLEAN /\ failed \in BOOLEAN /\ applied \in BOOLEAN
  BY DEF Types, NpmTypes, ConfigTypes, Config, FlagTypes
<1>1. CASE Resets
  BY <1>1 DEF Resets, Fresh
<1>2. CASE Aside
  BY <1>2 DEF Aside
<1>3. CASE ZoneSteps
  BY <1>3 DEF ZoneSteps, Others, Zone, Publish, ListRecords, Patch, Patched, SetSslMode, Goto, FailTo
<1>4. CASE HostSteps
  <2>1. CASE Install
    BY <2>1 DEF Install, Goto, FailTo
  <2>2. CASE Attach
    <3>1. applied /\ ~failed => recorded # "none"
      BY <1>0, <2>2, Constants DEF CertInv, Attach
    <3> QED
      BY <2>2, <3>1 DEF Attach, Goto
  <2>3. CASE \E d \in Hosts : AttachHost(d)
    <3>1. PICK d \in Hosts : AttachHost(d)
      BY <2>3
    <3>2. /\ pc = "attaching" /\ pc' = "attaching" /\ todo' = todo \ {d}
          /\ UNCHANGED <<recorded, rows, booked, touched, applied>>
          /\ failed' \/ (UNCHANGED <<failed, broken>> /\ pushed' = pushed \cup {d})
      BY <3>1 DEF AttachHost, Goto, FailTo
    <3> QED
      BY <1>0, <3>2
  <2>4. CASE PublishPanel
    <3>1. /\ pc = "panel" /\ pc' = "verify"
          /\ UNCHANGED <<recorded, touched, applied, broken>>
          /\ \/ failed'
             \/ UNCHANGED <<failed, rows, booked>>
             \/ /\ UNCHANGED failed /\ rows' = rows \cup {PanelHost}
                /\ booked' = [booked EXCEPT ![PanelHost] = recorded]
      BY <2>4 DEF PublishPanel, Goto, FailTo
    <3>2. \A d \in Hosts : booked'[d] = booked[d] \/ (booked'[d] = recorded /\ d = PanelHost) \/ failed'
      BY <1>0, <3>1
    <3> QED
      BY <1>0, <3>1, <3>2, Constants
  <2>5. CASE Attached
    <3>1. \A d \in Hosts : booked'[d] = IF d \in pushed /\ ~broken THEN recorded ELSE booked[d]
      BY <2>5 DEF Attached, Books
    <3> QED
      BY <1>0, <2>5, <3>1 DEF Attached, Goto
  <2>6. CASE Resync \/ Resynced \/ \E d \in Hosts : ResyncHost(d)
    BY <2>6 DEF Resync, Resynced, ResyncHost, Goto, FailTo
  <2> QED
    BY <1>4, <2>1, <2>2, <2>3, <2>4, <2>5, <2>6 DEF HostSteps
<1>5. CASE CheckSteps
  BY <1>5 DEF CheckSteps, Ask, Probe, AskAgain, Conclude, Persist, AfterVerify, Goto, FailTo
<1> QED
  BY <1>1, <1>2, <1>3, <1>4, <1>5

(* A verdict is given on the path the mode wants, and what it was given    *)
(* for stays as it was, unless somebody else changes it.                   *)
LEMMA TrustStep ==
    ASSUME Types, CourseInv, OkMeansTrusted,
           Resets \/ Aside \/ ZoneSteps \/ HostSteps \/ CheckSteps
    PROVE  OkMeansTrusted'
<1> USE DEF report, config, zone, npm, session
<1>0. level \in [Hosts -> Levels] /\ touched \in BOOLEAN
  BY DEF Types, CommandTypes, FlagTypes
<1>1. ASSUME level' = [d \in Hosts |-> "none"]
      PROVE  OkMeansTrusted'
  BY <1>1 DEF OkMeansTrusted
<1>2. CASE Resets
  BY <1>1, <1>2 DEF Resets, Fresh
<1>3. CASE ZoneSteps \/ HostSteps \/ Ask
  <2>1. pc \notin Concluding /\ UNCHANGED level
    BY <1>3 DEF ZoneSteps, Others, Zone, Publish, ListRecords, Patch, Patched, SetSslMode, HostSteps,
          Install, Attach, AttachHost, Attached, PublishPanel, Resync, ResyncHost, Resynced, Ask, Concluding
  <2> QED
    BY <1>1, <2>1 DEF CourseInv
<1>4. ASSUME UNCHANGED <<own, dns, ssl, served, reach, touched>>, NEW d \in Hosts
      PROVE  /\ Path(d)' = Path(d) /\ own'.mode = own.mode
             /\ Trusted(d)' <=> Trusted(d)
  <2>1. Path(d)' = Path(d)
    BY <1>4 DEF Path
  <2>2. Shown(d, Path(d))' = Shown(d, Path(d))
    BY <1>4, <2>1 DEF Shown
  <2> QED
    BY <1>4, <2>1, <2>2 DEF Trusted
<1>5. CASE Aside
  <2>1. CASE touched' \/ pc = "idle"
    BY <1>5, <2>1 DEF Aside, OkMeansTrusted
  <2>2. CASE UNCHANGED <<touched, dns, rows, booked, served>>
    <3>1. UNCHANGED <<own, dns, ssl, served, reach, touched, pc, level>>
      BY <1>5, <2>2 DEF Aside
    <3>2. \A d \in Hosts : Path(d)' = Path(d) /\ (Trusted(d)' <=> Trusted(d))
      BY <1>4, <3>1
    <3> QED
      BY <3>1, <3>2 DEF OkMeansTrusted
  <2> QED
    BY <1>5, <2>1, <2>2 DEF Aside
<1>6. CASE (\E d \in Hosts : Probe(d)) \/ AskAgain \/ Conclude \/ Persist
  <2>1. UNCHANGED <<own, dns, ssl, served, reach, touched>> /\ pc \in {"probe", "persist"}
    BY <1>6 DEF Probe, AskAgain, Conclude, Persist, Goto, FailTo
  <2>2. SUFFICES ASSUME NEW d \in Hosts, level'[d] = "ok", Path(d) = own.mode, ~touched
                 PROVE  Trusted(d)
    BY <1>4, <2>1 DEF OkMeansTrusted
  <2>3. CASE level[d] = "ok"
    BY <2>1, <2>2, <2>3 DEF OkMeansTrusted
  <2>4. CASE level[d] # "ok"
    <3>1. Assess(d).level = "ok"
      BY <1>0, <1>6, <2>2, <2>4 DEF Probe, AskAgain, Conclude, Persist
    <3>2. answers[d] = own.mode /\ Shown(d, answers[d]) = "trusted"
      BY <3>1, Assessed
    <3> QED
      BY <2>2, <3>2 DEF Trusted
  <2> QED
    BY <2>3, <2>4
<1> QED
  BY <1>2, <1>3, <1>5, <1>6 DEF CheckSteps

-----------------------------------------------------------------------------
(* The invariant.                                                          *)

LEMMA InitInv == Init => Inv
<1> SUFFICES ASSUME Init PROVE Inv
  OBVIOUS
<1>1. ConfigTypes
  BY DEF Init, ConfigTypes, Config, Modes
<1>2. ZoneTypes
  BY DEF Init, ZoneTypes
<1>3. NpmTypes
  BY DEF Init, NpmTypes, Kinds
<1>4. CommandTypes /\ FlagTypes /\ faults \in 0..MaxFaults
  <2>1. 0 \in 0..MaxRounds /\ 0 \in 0..MaxFaults
    BY Constants
  <2>2. level \in [Hosts -> Levels]
    BY DEF Init, Levels
  <2> QED
    BY <2>1, <2>2 DEF Init, CommandTypes, FlagTypes, Labels
<1>5. CourseInv /\ OkMeansTrusted
  BY DEF Init, CourseInv, OkMeansTrusted, AfterPatch
<1>6. Agreement
  BY DEF Init, Agreement, DnsInv, SslInv, CertInv, PairInv, RowsInv, NoPush
<1> QED
  BY <1>1, <1>2, <1>3, <1>4, <1>5, <1>6 DEF Inv, Types

LEMMA NextInv ==
    ASSUME Inv, [Next]_vars
    PROVE  Inv'
<1> USE DEF Inv, Agreement
<1>1. CASE Next
  <2>1. Resets \/ Aside \/ ZoneSteps \/ HostSteps \/ CheckSteps
    BY <1>1, NextInGroups
  <2>2. Types'
    BY <1>1, <2>1, ConfigTypesStep, ZoneTypesStep, NpmTypesStep, CommandTypesStep, FlagTypesStep,
       FaultTypes DEF Types
  <2>3. CourseInv' /\ OkMeansTrusted'
    BY <2>1, CourseStep, TrustStep
  <2>4. DnsInv' /\ SslInv' /\ CertInv' /\ RowsInv'
    BY <2>1, DnsStep, SslStep, CertStep, RowsStep
  <2>5. PairInv'
    BY <1>1, PairStep
  <2> QED
    BY <2>2, <2>3, <2>4, <2>5
<1>2. CASE UNCHANGED vars
  <2> USE <1>2 DEF vars, config, zone, npm, report, session
  <2>1. Types'
    BY DEF Types, ConfigTypes, ZoneTypes, NpmTypes, CommandTypes, FlagTypes
  <2>2. CourseInv'
    BY DEF CourseInv
  <2>3. DnsInv' /\ SslInv' /\ CertInv' /\ PairInv' /\ RowsInv'
    BY DEF DnsInv, Settled, Kept, SslInv, CertInv, PairInv, RowsInv, Pending
  <2>4. OkMeansTrusted'
    <3>1. \A d \in Hosts : Path(d)' = Path(d)
      BY DEF Path
    <3>2. \A d \in Hosts : Trusted(d)' <=> Trusted(d)
      BY <3>1 DEF Trusted, Shown
    <3> QED
      BY <3>1, <3>2 DEF OkMeansTrusted
  <2> QED
    BY <2>1, <2>2, <2>3, <2>4
<1> QED
  BY <1>1, <1>2

LEMMA Invariant == Spec => []Inv
<1>1. Inv /\ [Next]_vars => Inv'
  BY NextInv
<1> QED
  BY InitInv, <1>1, PTL DEF Spec

-----------------------------------------------------------------------------
(* The theorems.                                                           *)

(* Every variable keeps its type, and a verification asks at most          *)
(* MaxRounds times again.                                                  *)
THEOREM HttpsTypeCorrect == Spec => []TypeOK
<1>1. Inv => TypeOK
  BY DEF Inv, Types, ConfigTypes, ZoneTypes, NpmTypes, CommandTypes, FlagTypes, Labels, Levels, TypeOK
<1> QED
  BY <1>1, Invariant, PTL

(* A host that a verification calls trusted is trusted by a browser whose  *)
(* resolver has the present record, for any number of hosts that are       *)
(* asked again, and whatever old answers led to.                           *)
THEOREM TrustedWhenCalledOk == Spec => []OkMeansTrusted
<1>1. Inv => OkMeansTrusted
  BY DEF Inv
<1> QED
  BY <1>1, Invariant, PTL

(* A command that has applied DNS and ends with status zero leaves every   *)
(* row's record, the zone's SSL mode and the certificate as the mode wants *)
(* them, whatever earlier commands left half done, but for a record that   *)
(* Cloudflare will not proxy.                                              *)
THEOREM ZeroMeansAgreement == Spec => SuccessMeansAgreement
<1> DEFINE Goal == pc = "end" /\ exit' = "zero" /\ applied /\ ~touched /\ ~torn => \A d \in rows : Agree(d)
<1>1. Inv /\ [Next]_vars => Goal
  <2> SUFFICES ASSUME Inv, [Next]_vars, pc = "end", exit' = "zero", applied, ~touched, ~torn,
                      NEW d \in rows
               PROVE  Agree(d)
    OBVIOUS
  <2>1. /\ exit = "none" /\ own.api /\ d \in Hosts
        /\ own.mode \in Modes /\ dns \in [Names -> Modes \cup {"none"}]
    BY DEF Inv, CourseInv, Types, ConfigTypes, Config, ZoneTypes, NpmTypes
  <2>2. ~failed
    <3>1. exit' = exit \/ Finish \/ Kill \/ Begin
      BY DEF vars, report, Next, Token, Step, ZoneSteps, Others, Zone, Publish, ListRecords, Patch, Patched,
         SetSslMode, Install, Attach, AttachHost, Attached, PublishPanel, Ask, Probe, AskAgain, Conclude,
         Persist, GoDirect, Resync, ResyncHost, Resynced, Beside, PanelPush, PanelWrite, Form, Reload,
         HandEdit, Expire
    <3>2. Finish
      BY <2>1, <3>1 DEF Kill, Begin, BeginProvision, BeginMode, BeginVerify, BeginResync, Starts
    <3> QED
      BY <3>2 DEF Finish
  <2>3. Path(d) = own.mode \/ Kept(d, own.mode)
    BY <2>1, Constants DEF Inv, Agreement, DnsInv, Settled, Path
  <2>4. served[d] = Kind(own.mode)
    <3>1. recorded = Kind(own.mode) /\ booked[d] = recorded
      BY <2>2 DEF Inv, Agreement, CertInv, RowsInv, Pending, AfterCert, AfterSsl, AfterPatch
    <3>2. served[d] = booked[d] \/ served[d] = recorded
      BY <2>1 DEF Inv, Agreement, PairInv
    <3> QED
      BY <3>1, <3>2
  <2>5. own.mode = "proxied" => ssl = "strict"
    BY <2>2 DEF Inv, Agreement, SslInv, AfterSsl, AfterPatch
  <2> QED
    BY <2>3, <2>4, <2>5 DEF Agree
<1>2. Inv /\ [Next]_vars => [Goal]_vars
  BY <1>1
<1> QED
  BY <1>2, Invariant, PTL DEF Spec, SuccessMeansAgreement
=============================================================================
