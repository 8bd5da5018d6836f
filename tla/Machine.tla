------------------------------- MODULE Machine -------------------------------
(***************************************************************************)
(* The server around edgekit: the host firewall, the forwarding rules      *)
(* between NPM's Docker bridge and the tunnel, the systemd units that      *)
(* bring them back at boot, and the removal of all of it.                  *)
(*                                                                         *)
(* One command runs at a time - provision, update, firewall setup or       *)
(* uninstall - and each external command it runs is a step.  It may be     *)
(* killed between two, and the machine may restart.  A rewrite of ufw's    *)
(* rules may drop the rules of Docker and of edgekit; a restart of Docker  *)
(* and a run of edgekit's script bring them back.  Many of the commands    *)
(* are run unchecked: one that fails changes nothing and says nothing.     *)
(***************************************************************************)
EXTENDS Naturals, FiniteSets

CONSTANTS
    Bridges,    \* bridges that Compose may give NPM
    Ops,        \* "provision", "update", "setup", "uninstall"; "recreate"
    Faults,     \* "fails", "silent", "crash", "reboot"
    MaxFaults,  \* bound: faults and recreations in a behaviour
    None

Docker0  == "docker0"     \* the default bridge, which NPM is not on
Services == {"wireguard", "http", "https"}
Ports    == Services \cup {"ssh"}

\* What is installed: units and their files, NPM, the device, the program.
Things == {"panel", "npm", "device", "wg0.conf", "sysctl", "files", "program"}

\* What a provisioning brings about with commands that it does not check, and
\* what a removal takes away with such commands.
Parts  == {"script", "forward", "unit", "open", "nat", "panel"}
Traces == {"container", "openings"}

ASSUME MachineAssumption ==
    /\ Docker0 \notin Bridges /\ Bridges # {}
    /\ MaxFaults \in Nat
    /\ None \notin Bridges \cup {Docker0}

VARIABLES
    ufw,       \* on, default deny, open ports, bridges allowed to the panel
    bridge,    \* the bridge that NPM's container is on, or None
    forward,   \* bridges that the kernel's forwarding rules name
    nat,       \* Docker's rules for the published ports are in the kernel
    script,    \* the bridge that firewall.sh names, or None
    unit,      \* edgekit-firewall.service is enabled
    dropin,    \* Docker starts after ufw
    things,
    dns,       \* records that edgekit created exist
    pc, op,    \* where the command is, and which it is
    knows,     \* it has loaded a configuration that is set up
    failed,    \* a step of it has failed
    exit,      \* exit status of the last command
    reported,  \* history: the steps that removals reported as failed
    silent,    \* history: what commands that failed unchecked were to see to:
               \* Parts since the last provisioning began, Traces ever
    faults

net     == <<ufw, bridge, forward, nat>>
disk    == <<script, unit, dropin, things, dns>>
command == <<op, knows>>
history == <<reported, silent>>
vars    == <<net, disk, pc, command, failed, exit, history, faults>>

Init ==
    /\ ufw \in [on : BOOLEAN, deny : BOOLEAN, open : SUBSET {"ssh"}, panel : {{}}]
    /\ ufw.on => "ssh" \in ufw.open        \* an operator who uses ufw has let SSH in
    /\ bridge = None /\ forward = {} /\ nat = FALSE
    /\ script = None /\ unit = FALSE /\ dropin = FALSE
    /\ things = {"files", "program"}
    /\ dns = FALSE
    /\ pc = "idle" /\ op = "none" /\ knows = FALSE
    /\ failed = FALSE /\ exit = "none"
    /\ reported = {} /\ silent = {}
    /\ faults = 0

-----------------------------------------------------------------------------
(* Helpers.                                                                *)

Spend == faults < MaxFaults /\ faults' = faults + 1
Fault(f) == f \in Faults /\ Spend
Calm == UNCHANGED faults

\* Of the commands that are run unchecked for some aims, one fails.
Silent(aims) == Fault("silent") /\ silent' = silent \cup aims
Sound == UNCHANGED silent /\ Calm

At(label) == pc = label
Goto(label) == pc' = label /\ UNCHANGED <<command, exit>>

\* A check=True command fails: its step ends, and with it edgekit firewall
\* setup; a provisioning goes on with the step after it.
Fails == Fault("fails") /\ Goto(IF op = "setup" THEN "end" ELSE "publish") /\ failed' = TRUE

\* ufw enable and ufw reload write the kernel's tables anew.
Rewritten ==
    /\ forward' \in {forward, {}}
    /\ nat' \in {nat, FALSE}

\* Docker inserts the rules of published ports when it starts.
DockerRestarted == nat' = (bridge # None)

\* The script appends what is absent; rules it named before stay.
ScriptRun == forward' = IF script = None THEN forward ELSE forward \cup {script}

-----------------------------------------------------------------------------
(* Commands.                                                               *)

Starts(name, label) ==
    /\ pc = "idle" /\ name \in Ops
    /\ pc' = label /\ op' = name
    /\ knows' = ("files" \in things)
    /\ failed' = FALSE /\ exit' = "none"
    /\ UNCHANGED <<net, disk>> /\ Calm

Afresh == reported' = {} /\ silent' = silent \ Parts

Configured == "program" \in things /\ "files" \in things

BeginProvision == Configured /\ Starts("provision", "deploy") /\ Afresh
BeginUpdate    == Configured /\ Starts("update", "service") /\ Afresh
BeginSetup     == Configured /\ Starts("setup", "deny") /\ UNCHANGED history
BeginUninstall == "program" \in things /\ Starts("uninstall", "rm_panel") /\ UNCHANGED history

\* service_unit.install: the panel's unit is written, enabled and restarted.
Service ==
    /\ At("service")
    /\ things' = things \cup {"panel"}
    /\ Goto("deploy")
    /\ UNCHANGED <<net, script, unit, dropin, dns, failed, history>> /\ Calm

\* The steps before step_firewall.  One that fails is reported, and the steps
\* after it run, unless the tunnel needs it.
Tunnel == {"device", "wg0.conf"}

Deploy ==
    /\ At("deploy")
    /\ \/ /\ Fault("fails") /\ failed' = TRUE
          /\ \/ Goto("end") /\ UNCHANGED things
             \/ Goto("detect") /\ things' = things \cup Tunnel
          /\ UNCHANGED <<bridge, nat>>
       \/ /\ Calm /\ UNCHANGED failed
          /\ Goto("detect")
          /\ things' = things \cup Tunnel \cup {"npm", "sysctl"}
          /\ IF bridge = None
             THEN bridge' \in Bridges /\ nat' = TRUE
             ELSE UNCHANGED <<bridge, nat>>
    /\ UNCHANGED <<ufw, forward, script, unit, dropin, dns, history>>

\* The steps after step_firewall, as far as they are not the edge's: DNS.
Publish ==
    /\ At("publish")
    /\ \/ Fault("fails") /\ failed' = TRUE /\ dns' \in {dns, TRUE}
       \/ Calm /\ UNCHANGED failed /\ dns' = TRUE
    /\ Goto("end")
    /\ UNCHANGED <<net, script, unit, dropin, things, history>>

\* detect_proxy_bridge: the default bridge when NPM's cannot be read.
Detected == IF bridge = None THEN Docker0 ELSE bridge

\* step_firewall: write_rules, for what docker inspect has said, ...
WriteRules ==
    /\ At("detect")
    /\ \/ script' = Detected /\ Sound
       \/ script' = Docker0 /\ Silent({"script", "forward"})
    /\ dropin' = TRUE
    /\ Goto("apply")
    /\ UNCHANGED <<net, unit, things, dns, failed, reported>>

\* ... apply_rules, with an unchecked systemctl enable, and rules_present, ...
ApplyRules ==
    /\ At("apply")
    /\ \/ Fails /\ UNCHANGED <<forward, unit, silent>>
       \/ /\ ScriptRun
          /\ \/ unit' = TRUE /\ Sound
             \/ UNCHANGED unit /\ Silent({"unit"})
          /\ Goto(IF ufw.on THEN "open" ELSE "panel_rule")
          /\ UNCHANGED failed
    /\ UNCHANGED <<ufw, bridge, nat, script, dropin, things, dns, reported>>

\* ... open_host_ports when ufw says that it is active, ...
OpenPorts ==
    /\ At("open")
    /\ \/ ufw' = [ufw EXCEPT !.open = @ \cup Services] /\ Sound /\ Goto("reload")
       \/ \E S \in SUBSET Services :
             ufw' = [ufw EXCEPT !.open = @ \cup S] /\ Silent({"open"}) /\ Goto("reload")
       \/ UNCHANGED ufw /\ Silent({"open", "nat"}) /\ Goto("panel_rule")
    /\ UNCHANGED <<bridge, forward, nat, disk, failed, reported>>

ReloadUfw ==
    /\ At("reload")
    /\ Rewritten
    /\ dropin' = (dropin \/ op = "setup")
    /\ Goto("restore")
    /\ UNCHANGED <<ufw, bridge, script, unit, things, dns, failed, history>> /\ Calm

\* restore_container_networking: Docker, then the script, both unchecked.
AfterRestore == CASE op = "setup" -> "end" [] op = "uninstall" -> "rm_npm" [] OTHER -> "panel_rule"

RestoreNothing ==               \* mutant: ufw's rewrite is not followed up
    /\ At("restore")
    /\ UNCHANGED <<forward, nat>>
    /\ Goto(AfterRestore)
    /\ UNCHANGED <<ufw, bridge, disk, failed, history>> /\ Calm

Restore ==
    /\ At("restore")
    /\ \/ DockerRestarted /\ ScriptRun /\ Sound
       \/ nat' \in {nat, FALSE} /\ ScriptRun /\ Silent({"nat"})
       \/ DockerRestarted /\ UNCHANGED forward /\ Silent({"forward"})
    /\ Goto(AfterRestore)
    /\ UNCHANGED <<ufw, bridge, disk, failed, reported>>

\* ... and allow_docker_to_panel, which revokes what NPM is not on: what ufw
\* status lists, and it lists nothing while ufw is off.  Docker may not answer
\* and ufw not revoke.
Listed == IF ufw.on THEN ufw.panel ELSE {}
KeepStale == {}                 \* mutant: earlier openings stay

Revoked == Listed \ {Detected}

PanelRule ==
    /\ At("panel_rule")
    /\ \/ Fails /\ UNCHANGED <<ufw, silent>>
       \/ /\ \/ ufw' = [ufw EXCEPT !.panel = (@ \cup {Detected}) \ Revoked] /\ Sound
             \/ \E b \in {Detected, Docker0}, R \in SUBSET Listed :
                   /\ ufw' = [ufw EXCEPT !.panel = (@ \ R) \cup {b}]
                   /\ Silent({"panel"})
          /\ Goto(IF op = "setup" THEN "enable" ELSE "publish")
          /\ UNCHANGED failed
    /\ UNCHANGED <<bridge, forward, nat, disk, reported>>

-----------------------------------------------------------------------------
(* edgekit firewall setup.                                                 *)

DefaultDeny ==
    /\ At("deny")
    /\ \/ Fails /\ UNCHANGED ufw
       \/ /\ ufw' = [ufw EXCEPT !.deny = TRUE]
          /\ Goto("allow") /\ UNCHANGED failed /\ Calm
    /\ UNCHANGED <<bridge, forward, nat, disk, history>>

\* cloud_firewall_ports, in its order: SSH is the first.
Row(p) ==
    /\ p \notin ufw.open
    /\ p # "ssh" => "ssh" \in ufw.open

AllowPort(p) ==
    /\ At("allow")
    /\ Row(p)
    /\ \/ Fails /\ UNCHANGED ufw
       \/ /\ ufw' = [ufw EXCEPT !.open = @ \cup {p}]
          /\ Goto("allow") /\ UNCHANGED failed /\ Calm
    /\ UNCHANGED <<bridge, forward, nat, disk, history>>

Allowed ==
    /\ At("allow") /\ ufw.open = Ports
    /\ Goto("panel_rule")
    /\ UNCHANGED <<net, disk, failed, history>> /\ Calm

Enable ==
    /\ At("enable")
    /\ \/ Fails /\ UNCHANGED <<ufw, forward, nat>>
       \/ /\ ufw' = [ufw EXCEPT !.on = TRUE]
          /\ Rewritten
          /\ Goto("reload") /\ UNCHANGED failed /\ Calm
    /\ UNCHANGED <<bridge, disk, history>>

-----------------------------------------------------------------------------
(* edgekit uninstall: a step that fails is reported, and the next one runs. *)

ReportsNothing(key) == UNCHANGED <<reported, failed>> /\ Fault("fails")
                                \* mutant: the error is swallowed
Reports(key) == reported' = reported \cup {key} /\ failed' = TRUE /\ Fault("fails")
Quiet == UNCHANGED <<reported, failed>> /\ Calm
Hushed(aim) == UNCHANGED <<reported, failed>> /\ Silent({aim})

Remove(label, key, gone, next) ==
    /\ At(label)
    /\ \/ gone \subseteq things /\ Reports(key) /\ UNCHANGED things
       \/ Quiet /\ things' = things \ gone
    /\ Goto(next)
    /\ UNCHANGED <<net, script, unit, dropin, dns, silent>>

RemovePanel == Remove("rm_panel", "panel", {"panel"}, "rm_dns")

\* Skipped without a token, which only the configuration has.
RemoveDns ==
    /\ At("rm_dns")
    /\ \/ ~knows /\ Quiet /\ UNCHANGED dns
       \/ knows /\ Quiet /\ dns' = FALSE
       \/ knows /\ Reports("dns") /\ UNCHANGED dns
    /\ Goto("rm_rules")
    /\ UNCHANGED <<net, script, unit, dropin, things, silent>>

\* remove_edgekit_rules: the kernel's rules for the bridge NPM is on, which are
\* gone with the next boot anyway, ...
RemoveRules ==
    /\ At("rm_rules")
    /\ \/ forward' = forward \ {Detected} /\ Quiet
       \/ forward' \in {forward, forward \ {Docker0}} /\ UNCHANGED <<reported, failed>> /\ Fault("silent")
    /\ Goto("rm_units")
    /\ UNCHANGED <<ufw, bridge, nat, disk, silent>>

\* ... the unit, the script and the drop-in, of which one may resist (a unit that
\* systemctl has not disabled goes with its file), ...
LeftEnabled == UNCHANGED unit   \* mutant: the unit is deleted, not disabled
Disabled == unit' = FALSE

RemoveUnits ==
    /\ At("rm_units")
    /\ Disabled
    /\ \/ (script # None \/ dropin) /\ Reports("firewall") /\ Goto("rm_npm") /\ UNCHANGED <<script, dropin>>
       \/ /\ script' = None /\ dropin' = FALSE
          /\ Quiet /\ Goto(IF ufw.on THEN "rm_ufw" ELSE "rm_npm")
    /\ UNCHANGED <<net, things, dns, silent>>

\* ... and the openings of an active ufw; the panel's are found by its address.
\* No ufw command is checked.
RemoveOpeningsAll == ufw' = [ufw EXCEPT !.open = {}, !.panel = {}]
                                \* mutant: SSH is closed with the others
RemoveOpenings ==
    ufw' = [ufw EXCEPT !.open = @ \ Services, !.panel = IF knows THEN {} ELSE @]

RemoveUfw ==
    /\ At("rm_ufw")
    /\ \/ RemoveOpenings /\ Quiet /\ UNCHANGED silent /\ Goto("reload")
       \/ \E S \in SUBSET Services, P \in SUBSET ufw.panel :
             /\ knows \/ P = {}
             /\ ufw' = [ufw EXCEPT !.open = @ \ S, !.panel = @ \ P]
             /\ Hushed("openings") /\ Goto("reload")
       \/ UNCHANGED ufw /\ Hushed("openings") /\ Goto("rm_npm")
    /\ UNCHANGED <<bridge, forward, nat, disk>>

\* docker compose down, unchecked, while NPM's directory is there, ...
ComposeDown ==
    /\ At("rm_npm")
    /\ \/ /\ bridge' = IF "npm" \in things THEN None ELSE bridge
          /\ nat' = IF "npm" \in things THEN FALSE ELSE nat
          /\ Quiet /\ UNCHANGED silent
       \/ "npm" \in things /\ Hushed("container") /\ UNCHANGED <<bridge, nat>>
    /\ Goto("rm_npm_dir")
    /\ UNCHANGED <<ufw, forward, disk>>

\* ... and the directory.
RemoveNpm == Remove("rm_npm_dir", "npm", {"npm"}, "rm_wireguard")

\* wg0.conf is deleted even when the interface does not go down.
RemoveWireGuard ==
    /\ At("rm_wireguard")
    /\ \/ Tunnel \subseteq things /\ Reports("wireguard") /\ things' = things \ {"wg0.conf"}
       \/ Quiet /\ things' = things \ {"device", "wg0.conf"}
    /\ Goto("rm_sysctl")
    /\ UNCHANGED <<net, script, unit, dropin, dns, silent>>

RemoveSysctl == Remove("rm_sysctl", "sysctl", {"sysctl"}, "rm_files")

RemoveFiles == Remove("rm_files", "files", {"files"}, "rm_program")

\* A checkout that edgekit does not own is left alone.
RemoveProgram ==
    /\ At("rm_program")
    /\ \/ Reports("program") /\ UNCHANGED things
       \/ Quiet /\ things' \in {things, things \ {"program"}}
    /\ Goto("end")
    /\ UNCHANGED <<net, script, unit, dropin, dns, silent>>

Finish ==
    /\ At("end")
    /\ pc' = "idle" /\ op' = "none" /\ knows' = FALSE
    /\ exit' = IF failed THEN "error" ELSE "zero"
    /\ failed' = FALSE
    /\ UNCHANGED <<net, disk, history>> /\ Calm

-----------------------------------------------------------------------------
(* Beside the commands.                                                    *)

Ended == pc' = "idle" /\ op' = "none" /\ knows' = FALSE /\ failed' = FALSE /\ exit' = "none"

Kill ==
    /\ pc # "idle" /\ Fault("crash")
    /\ Ended
    /\ UNCHANGED <<net, disk, history>>

\* NPM's project is taken down and up again, on another bridge.
Recreate ==
    /\ "recreate" \in Ops /\ Spend
    /\ pc = "idle" /\ bridge # None
    /\ bridge' \in Bridges /\ nat' = TRUE
    /\ UNCHANGED <<ufw, forward, disk, pc, command, failed, exit, history>>

\* At boot the tables are empty.  Docker starts after ufw when the drop-in says
\* so, in any order otherwise; the unit runs the script.
Reboot ==
    /\ Fault("reboot")
    /\ Ended
    /\ forward' = IF unit THEN {script} ELSE {}
    /\ nat' \in {bridge # None} \cup IF ufw.on /\ ~dropin THEN {FALSE} ELSE {}
    /\ things' = IF "wg0.conf" \in things THEN things \cup {"device"} ELSE things \ {"device"}
    /\ UNCHANGED <<ufw, bridge, script, unit, dropin, dns, history>>

-----------------------------------------------------------------------------

Begin == BeginProvision \/ BeginUpdate \/ BeginSetup \/ BeginUninstall

Step ==
    \/ Service \/ Deploy \/ Publish \/ WriteRules \/ ApplyRules \/ OpenPorts \/ ReloadUfw \/ Restore \/ PanelRule
    \/ DefaultDeny \/ (\E p \in Ports : AllowPort(p)) \/ Allowed \/ Enable
    \/ RemovePanel \/ RemoveDns \/ RemoveRules \/ RemoveUnits \/ RemoveUfw \/ ComposeDown \/ RemoveNpm
    \/ RemoveWireGuard \/ RemoveSysctl \/ RemoveFiles \/ RemoveProgram \/ Finish

Next == Begin \/ Step \/ Kill \/ Recreate \/ Reboot

Spec == Init /\ [][Next]_vars

\* A command goes on, and somebody provisions again.
FairSpec == Spec /\ WF_vars(Step) /\ SF_vars(BeginProvision)

-----------------------------------------------------------------------------
(* Properties.                                                             *)

(* Every variable keeps its type; a unit that is enabled has its script.   *)
TypeOK ==
    /\ ufw \in [on : BOOLEAN, deny : BOOLEAN, open : SUBSET Ports, panel : SUBSET (Bridges \cup {Docker0})]
    /\ bridge \in Bridges \cup {None}
    /\ forward \subseteq Bridges \cup {Docker0}
    /\ nat \in BOOLEAN
    /\ script \in Bridges \cup {Docker0, None}
    /\ unit \in BOOLEAN /\ dropin \in BOOLEAN
    /\ unit => script # None
    /\ things \subseteq Things /\ dns \in BOOLEAN
    /\ op \in {"none", "provision", "update", "setup", "uninstall"}
    /\ knows \in BOOLEAN /\ failed \in BOOLEAN
    /\ exit \in {"none", "zero", "error"}
    /\ reported \subseteq {"panel", "dns", "firewall", "npm", "wireguard", "sysctl", "files", "program"}
    /\ silent \subseteq Parts \cup Traces
    /\ faults \in 0..MaxFaults

(* cli.py:517: "Allowing SSH first so enabling ufw cannot lock you out",   *)
(* and README.md:370: "removal cannot lock you out": wherever a command    *)
(* stops, an active ufw lets SSH in.                                       *)
SshStaysOpen == ufw.on => "ssh" \in ufw.open

(* What NPM needs to be reached: Docker publishes its ports, the kernel    *)
(* forwards between the bridge NPM is on and the tunnel, and an active ufw *)
(* lets the traffic in and the panel be reached from that bridge and no    *)
(* other.                                                                  *)
Reachable ==
    /\ nat /\ bridge \in forward
    /\ ufw.on => Services \subseteq ufw.open /\ ufw.panel = {bridge}

\* What is not as it was to be, and will not be at the next boot.
Lacking ==
    {p \in {"nat"} : ~nat}
    \cup {p \in {"forward"} : bridge \notin forward}
    \cup {p \in {"script"} : script # bridge}
    \cup {p \in {"unit"} : ~unit}
    \cup {p \in {"open"} : ufw.on /\ ~(Services \subseteq ufw.open)}
    \cup {p \in {"panel"} : ufw.on /\ ufw.panel # {bridge}}

(* A provisioning or update that ends with status zero leaves NPM          *)
(* reachable, now and after the next boot, but for the parts that a        *)
(* command which it does not check has failed to bring about: whatever the *)
(* checked commands did, whatever was lost before, and however ufw rewrote *)
(* the tables on the way, nothing else is lacking.                         *)
SuccessMeansReachable ==
    [][pc = "end" /\ op \in {"provision", "update"} /\ exit' = "zero" =>
          dropin /\ Lacking \subseteq silent]_vars

(* README.md:371: "Every step is attempted even if an earlier one fails,   *)
(* and the output lists what, if anything, was left behind": when a        *)
(* removal is through its steps, what would still be there after a restart *)
(* is what this or an earlier removal reported, even if earlier ones were  *)
(* killed and took with them what this one would have needed.  Two things  *)
(* may stay unreported: NPM's container when compose down fails, and       *)
(* openings that ufw does not delete.                                      *)
OpenedByEdgekit == ufw.on /\ (ufw.open \cap Services # {} \/ ufw.panel # {})

Left ==
    {k \in {"panel", "npm", "sysctl", "files"} : k \in things}
    \cup {k \in {"wireguard"} : "wg0.conf" \in things}
    \cup {k \in {"dns"} : dns}
    \cup {k \in {"firewall"} : unit \/ script # None \/ dropin}

RemovalReports ==
    pc = "end" /\ op = "uninstall" =>
        /\ Left \subseteq reported
        /\ OpenedByEdgekit => "firewall" \in reported \/ "openings" \in silent
        /\ bridge # None => "container" \in silent

(* A half-finished run converges: however commands failed or were killed   *)
(* and wherever NPM was moved, provisioning again ends with NPM reachable  *)
(* for good, unless edgekit was removed.                                   *)
Converges == <>[](Configured /\ pc = "idle" => Reachable)
=============================================================================
