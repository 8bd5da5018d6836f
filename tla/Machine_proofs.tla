---------------------------- MODULE Machine_proofs ----------------------------
(***************************************************************************)
(* Theorems about Machine: types, SSH is never shut out, a provisioning    *)
(* that succeeds leaves NPM reachable, and a removal reports what stays,   *)
(* but for what commands that are not checked have failed to do.           *)
(* They hold for any number of bridges and faults.                         *)
(***************************************************************************)
EXTENDS Machine, TLAPS

-----------------------------------------------------------------------------
(* The invariants.                                                         *)

\* The labels a command may be at.
ProvisionLabels == {"service", "deploy", "detect", "apply", "open", "reload", "restore",
                    "panel_rule", "publish", "end"}
SetupLabels  == {"deny", "allow", "panel_rule", "enable", "reload", "restore", "end"}
AfterNpm     == {"rm_wireguard", "rm_sysctl", "rm_files", "rm_program", "end"}
AfterDown    == {"rm_npm_dir"} \cup AfterNpm
AfterUnits   == {"rm_ufw", "reload", "restore", "rm_npm"} \cup AfterDown
RemovalLabels == {"rm_panel", "rm_dns", "rm_rules", "rm_units"} \cup AfterUnits

OpInv ==
    /\ op = "none" => pc = "idle"
    /\ op \in {"provision", "update"} => pc \in ProvisionLabels
    /\ op = "setup" => pc \in SetupLabels
    /\ op = "uninstall" => pc \in RemovalLabels

\* ufw's rules are only rewritten while it is on, or turned on.
ActiveInv == pc \in {"open", "rm_ufw", "reload", "restore"} => ufw.on

UnitInv == pc = "apply" => script # None

LabelInv == OpInv /\ ActiveInv /\ UnitInv

\* On its way to ufw enable, a setup has let SSH in.
SshInv ==
    /\ SshStaysOpen
    /\ pc = "enable" \/ (op = "setup" /\ pc = "panel_rule") => "ssh" \in ufw.open

\* What a provisioning in which nothing has failed has achieved at a label.
Deployed == {"detect", "apply", "open", "reload", "restore", "panel_rule", "publish", "end"}
Written  == Deployed \ {"detect"}
Applied  == Written \ {"apply"}
Restored == {"panel_rule", "publish", "end"}

Provisioning == op \in {"provision", "update"} /\ ~failed

Achieved ==
    /\ pc \in Deployed => bridge # None
    /\ pc \in Written => dropin /\ (script = bridge \/ {"script", "forward"} \subseteq silent)
    /\ pc \in Applied => unit \/ "unit" \in silent
    /\ pc \in Applied \ {"restore"} => bridge \in forward \/ "forward" \in silent
    /\ pc \in Applied \ {"open"} /\ ufw.on => Services \subseteq ufw.open \/ "open" \in silent
    /\ pc \in Restored => nat \/ "nat" \in silent
    /\ pc \in {"publish", "end"} /\ ufw.on => ufw.panel = {bridge} \/ "panel" \in silent

\* Docker's rules are only lost to a rewrite by ufw.
NatInv == bridge # None /\ ~nat => ufw.on

ReachInv == NatInv /\ (Provisioning => Achieved)

\* What a removal leaves behind each of its steps has been reported, ...
Removing(labels) == op = "uninstall" /\ pc \in labels

AfterFirewall == AfterUnits \ {"rm_ufw"}

LeftInv ==
    /\ Removing(RemovalLabels \ {"rm_panel"}) /\ "panel" \in things => "panel" \in reported
    /\ Removing(RemovalLabels \ {"rm_panel", "rm_dns"}) /\ dns => "dns" \in reported
    /\ Removing(AfterUnits) => ~unit
    /\ Removing(AfterUnits) /\ (script # None \/ dropin) => "firewall" \in reported
    /\ Removing(AfterFirewall) /\ OpenedByEdgekit => "firewall" \in reported \/ "openings" \in silent
    /\ Removing(AfterDown) /\ bridge # None => "container" \in silent
    /\ Removing(AfterNpm) /\ "npm" \in things => "npm" \in reported
    /\ Removing(AfterNpm \ {"rm_wireguard"}) => "wg0.conf" \notin things
    /\ Removing({"rm_files", "rm_program", "end"}) /\ "sysctl" \in things => "sysctl" \in reported
    /\ Removing({"rm_program", "end"}) /\ "files" \in things => "files" \in reported

\* ... and so has what a later removal cannot find without the configuration.
NeedsFiles == op \in {"provision", "update", "setup"} => "files" \in things
KnowsNothing == op = "uninstall" /\ ~knows => "files" \notin things
DnsReported == "files" \notin things /\ dns => "dns" \in reported
OpeningsReported ==
    "files" \notin things /\ ufw.on /\ ufw.panel # {} =>
        "firewall" \in reported \/ "openings" \in silent

\* A container whose directory is gone is one that compose down has not removed.
ContainerInv == bridge # None /\ "npm" \notin things => "container" \in silent

FilesInv == NeedsFiles /\ KnowsNothing /\ DnsReported /\ OpeningsReported

RemovalInv == LeftInv /\ FilesInv /\ ContainerInv

-----------------------------------------------------------------------------
(* Types.                                                                  *)

Ufw == [on : BOOLEAN, deny : BOOLEAN, open : SUBSET Ports,
        panel : SUBSET (Bridges \cup {Docker0})]

NetTypes ==
    /\ ufw \in Ufw
    /\ bridge \in Bridges \cup {None}
    /\ forward \subseteq Bridges \cup {Docker0}
    /\ nat \in BOOLEAN

DiskTypes ==
    /\ script \in Bridges \cup {Docker0, None}
    /\ unit \in BOOLEAN /\ dropin \in BOOLEAN
    /\ unit => script # None
    /\ things \subseteq Things /\ dns \in BOOLEAN

CommandTypes ==
    /\ op \in {"none", "provision", "update", "setup", "uninstall"}
    /\ knows \in BOOLEAN /\ failed \in BOOLEAN
    /\ exit \in {"none", "zero", "error"}
    /\ reported \subseteq {"panel", "dns", "firewall", "npm", "wireguard", "sysctl", "files", "program"}
    /\ silent \subseteq Parts \cup Traces

FaultTypes == faults \in 0..MaxFaults

TypeInv == NetTypes /\ DiskTypes /\ CommandTypes /\ FaultTypes

(* The count of faults stays in its bound, with or without another one.    *)
LEMMA FaultsCounted ==
    ASSUME FaultTypes
    PROVE  /\ Spend => FaultTypes'
           /\ Calm => FaultTypes'
           /\ \A f : Fault(f) => FaultTypes'
  BY MachineAssumption DEF FaultTypes, Spend, Calm, Fault

(* The bridge that edgekit works with, and the openings it leaves for it.  *)
LEMMA DetectedTypes ==
    ASSUME NetTypes
    PROVE  /\ Detected \in Bridges \cup {Docker0}
           /\ [ufw EXCEPT !.panel = (@ \cup {Detected}) \ Revoked] \in Ufw
<1>1. Detected \in Bridges \cup {Docker0}
  BY DEF Detected, NetTypes
<1> HIDE DEF Detected
<1>2. (ufw.panel \cup {Detected}) \ Revoked \in SUBSET (Bridges \cup {Docker0})
  BY <1>1 DEF NetTypes, Ufw
<1> QED
  BY <1>1, <1>2 DEF NetTypes, Ufw

(* Starting a command sets a Boolean that is read off the things.          *)
LEMMA StartKnows ==
    ASSUME NEW name, NEW label, Starts(name, label)
    PROVE  knows' \in BOOLEAN
  <1>1. knows' = ("files" \in things)
    BY DEF Starts
  <1>2. ("files" \in things) \in BOOLEAN
    OBVIOUS
  <1> QED
    BY <1>1, <1>2, Zenon

(* Every step keeps the types.                                             *)
LEMMA TypeStep ==
    ASSUME TypeInv, LabelInv
    PROVE  [Next]_vars => TypeInv'
<1>0. NetTypes /\ DiskTypes /\ CommandTypes /\ FaultTypes /\ UnitInv
  BY DEF TypeInv, LabelInv
<1> USE MachineAssumption, <1>0 DEF Goto, At, Quiet, Reports, Hushed, Silent,
    Sound, Afresh, net, disk, command, history
<1>1. BeginProvision => TypeInv'
  <2> SUFFICES ASSUME BeginProvision PROVE TypeInv'
    OBVIOUS
  <2>1. NetTypes'
    BY DEF NetTypes, DiskTypes, Ufw, Ports, Services, BeginProvision, Starts
  <2>2. DiskTypes'
    BY DEF DiskTypes, NetTypes, UnitInv, Things, BeginProvision, Starts
  <2>3. knows' \in BOOLEAN
    BY StartKnows DEF BeginProvision
  <2>4. CommandTypes'
    BY <2>3 DEF CommandTypes, BeginProvision, Starts
  <2>5. FaultTypes'
    BY FaultsCounted DEF BeginProvision, Starts
  <2> QED
    BY <2>1, <2>2, <2>4, <2>5 DEF TypeInv
<1>2. BeginUpdate => TypeInv'
  <2> SUFFICES ASSUME BeginUpdate PROVE TypeInv'
    OBVIOUS
  <2>1. NetTypes'
    BY DEF NetTypes, DiskTypes, Ufw, Ports, Services, BeginUpdate, Starts
  <2>2. DiskTypes'
    BY DEF DiskTypes, NetTypes, UnitInv, Things, BeginUpdate, Starts
  <2>3. knows' \in BOOLEAN
    BY StartKnows DEF BeginUpdate
  <2>4. CommandTypes'
    BY <2>3 DEF CommandTypes, BeginUpdate, Starts
  <2>5. FaultTypes'
    BY FaultsCounted DEF BeginUpdate, Starts
  <2> QED
    BY <2>1, <2>2, <2>4, <2>5 DEF TypeInv
<1>3. BeginSetup => TypeInv'
  <2> SUFFICES ASSUME BeginSetup PROVE TypeInv'
    OBVIOUS
  <2>1. NetTypes'
    BY DEF NetTypes, DiskTypes, Ufw, Ports, Services, BeginSetup, Starts
  <2>2. DiskTypes'
    BY DEF DiskTypes, NetTypes, UnitInv, Things, BeginSetup, Starts
  <2>3. knows' \in BOOLEAN
    BY StartKnows DEF BeginSetup
  <2>4. CommandTypes'
    BY <2>3 DEF CommandTypes, BeginSetup, Starts
  <2>5. FaultTypes'
    BY FaultsCounted DEF BeginSetup, Starts
  <2> QED
    BY <2>1, <2>2, <2>4, <2>5 DEF TypeInv
<1>4. BeginUninstall => TypeInv'
  <2> SUFFICES ASSUME BeginUninstall PROVE TypeInv'
    OBVIOUS
  <2>1. NetTypes'
    BY DEF NetTypes, DiskTypes, Ufw, Ports, Services, BeginUninstall, Starts
  <2>2. DiskTypes'
    BY DEF DiskTypes, NetTypes, UnitInv, Things, BeginUninstall, Starts
  <2>3. knows' \in BOOLEAN
    BY StartKnows DEF BeginUninstall
  <2>4. CommandTypes'
    BY <2>3 DEF CommandTypes, BeginUninstall, Starts
  <2>5. FaultTypes'
    BY FaultsCounted DEF BeginUninstall, Starts
  <2> QED
    BY <2>1, <2>2, <2>4, <2>5 DEF TypeInv
<1>5. Service => TypeInv'
  <2> SUFFICES ASSUME Service PROVE TypeInv'
    OBVIOUS
  <2>1. NetTypes'
    BY DEF NetTypes, DiskTypes, Ufw, Ports, Services, Service
  <2>2. DiskTypes'
    BY DEF DiskTypes, NetTypes, UnitInv, Things, Service
  <2>3. CommandTypes'
    BY DEF CommandTypes, Service
  <2>4. FaultTypes'
    BY FaultsCounted DEF Service
  <2> QED
    BY <2>1, <2>2, <2>3, <2>4 DEF TypeInv
<1>6. Deploy => TypeInv'
  <2> SUFFICES ASSUME Deploy PROVE TypeInv'
    OBVIOUS
  <2>1. NetTypes'
    BY DEF NetTypes, DiskTypes, Ufw, Ports, Services, Deploy, Tunnel
  <2>2. DiskTypes'
    BY DEF DiskTypes, NetTypes, UnitInv, Things, Deploy, Tunnel
  <2>3. CommandTypes'
    BY DEF CommandTypes, Deploy, Tunnel
  <2>4. FaultTypes'
    BY FaultsCounted DEF Deploy, Tunnel
  <2> QED
    BY <2>1, <2>2, <2>3, <2>4 DEF TypeInv
<1>7. Publish => TypeInv'
  <2> SUFFICES ASSUME Publish PROVE TypeInv'
    OBVIOUS
  <2>1. NetTypes'
    BY DEF NetTypes, DiskTypes, Ufw, Ports, Services, Publish
  <2>2. DiskTypes'
    BY DEF DiskTypes, NetTypes, UnitInv, Things, Publish
  <2>3. CommandTypes'
    BY DEF CommandTypes, Publish
  <2>4. FaultTypes'
    BY FaultsCounted DEF Publish
  <2> QED
    BY <2>1, <2>2, <2>3, <2>4 DEF TypeInv
<1>8. WriteRules => TypeInv'
  <2> SUFFICES ASSUME WriteRules PROVE TypeInv'
    OBVIOUS
  <2>1. NetTypes'
    BY DEF NetTypes, DiskTypes, Ufw, Ports, Services, WriteRules, Detected
  <2>2. DiskTypes'
    BY DEF DiskTypes, NetTypes, UnitInv, Things, WriteRules, Detected
  <2>3. CommandTypes'
    BY DEF CommandTypes, Parts, Traces, WriteRules, Detected
  <2>4. FaultTypes'
    BY FaultsCounted DEF WriteRules, Detected
  <2> QED
    BY <2>1, <2>2, <2>3, <2>4 DEF TypeInv
<1>9. ApplyRules => TypeInv'
  <2> SUFFICES ASSUME ApplyRules PROVE TypeInv'
    OBVIOUS
  <2>1. NetTypes'
    BY DEF NetTypes, DiskTypes, Ufw, Ports, Services, ApplyRules, ScriptRun, Fails
  <2>2. DiskTypes'
    BY DEF DiskTypes, NetTypes, UnitInv, Things, ApplyRules, ScriptRun, Fails
  <2>3. CommandTypes'
    BY DEF CommandTypes, Parts, Traces, ApplyRules, ScriptRun, Fails
  <2>4. FaultTypes'
    BY FaultsCounted DEF ApplyRules, ScriptRun, Fails
  <2> QED
    BY <2>1, <2>2, <2>3, <2>4 DEF TypeInv
<1>10. OpenPorts => TypeInv'
  <2> SUFFICES ASSUME OpenPorts PROVE TypeInv'
    OBVIOUS
  <2>1. NetTypes'
    BY DEF NetTypes, DiskTypes, Ufw, Ports, Services, OpenPorts
  <2>2. DiskTypes'
    BY DEF DiskTypes, NetTypes, UnitInv, Things, OpenPorts
  <2>3. CommandTypes'
    BY DEF CommandTypes, Parts, Traces, OpenPorts
  <2>4. FaultTypes'
    BY FaultsCounted DEF OpenPorts
  <2> QED
    BY <2>1, <2>2, <2>3, <2>4 DEF TypeInv
<1>11. ReloadUfw => TypeInv'
  <2> SUFFICES ASSUME ReloadUfw PROVE TypeInv'
    OBVIOUS
  <2>1. NetTypes'
    BY DEF NetTypes, DiskTypes, Ufw, Ports, Services, ReloadUfw, Rewritten
  <2>2. DiskTypes'
    BY DEF DiskTypes, NetTypes, UnitInv, Things, ReloadUfw, Rewritten
  <2>3. CommandTypes'
    BY DEF CommandTypes, ReloadUfw, Rewritten
  <2>4. FaultTypes'
    BY FaultsCounted DEF ReloadUfw, Rewritten
  <2> QED
    BY <2>1, <2>2, <2>3, <2>4 DEF TypeInv
<1>12. Restore => TypeInv'
  <2> SUFFICES ASSUME Restore PROVE TypeInv'
    OBVIOUS
  <2>1. NetTypes'
    BY DEF NetTypes, DiskTypes, Ufw, Ports, Services, Restore, DockerRestarted, ScriptRun
  <2>2. DiskTypes'
    BY DEF DiskTypes, NetTypes, UnitInv, Things, Restore, DockerRestarted, ScriptRun
  <2>3. CommandTypes'
    BY DEF CommandTypes, Parts, Traces, Restore, AfterRestore, DockerRestarted, ScriptRun
  <2>4. FaultTypes'
    BY FaultsCounted DEF Restore, DockerRestarted, ScriptRun
  <2> QED
    BY <2>1, <2>2, <2>3, <2>4 DEF TypeInv
<1>13. PanelRule => TypeInv'
  <2> SUFFICES ASSUME PanelRule PROVE TypeInv'
    OBVIOUS
  <2>1. NetTypes'
    <3>1. ufw' \in Ufw
      <4>1. Detected \in Bridges \cup {Docker0}
        BY DetectedTypes
      <4> HIDE DEF Detected
      <4>2. CASE UNCHANGED ufw
        BY <4>2 DEF NetTypes
      <4>3. CASE ufw' = [ufw EXCEPT !.panel = (@ \cup {Detected}) \ Revoked]
        BY <4>3, DetectedTypes
      <4>4. ASSUME NEW b \in {Detected, Docker0}, NEW R,
                   ufw' = [ufw EXCEPT !.panel = (@ \ R) \cup {b}]
            PROVE  ufw' \in Ufw
        <5>1. (ufw.panel \ R) \cup {b} \in SUBSET (Bridges \cup {Docker0})
          BY <4>1 DEF NetTypes, Ufw
        <5> QED
          BY <4>4, <5>1 DEF NetTypes, Ufw
      <4> QED
        BY <4>2, <4>3, <4>4 DEF PanelRule
    <3>2. UNCHANGED <<bridge, forward, nat>>
      BY DEF PanelRule
    <3> QED
      BY <3>1, <3>2 DEF NetTypes
  <2>2. DiskTypes'
    BY DEF DiskTypes, NetTypes, UnitInv, Things, PanelRule, Fails
  <2>3. CommandTypes'
    BY DEF CommandTypes, Parts, Traces, PanelRule, Fails
  <2>4. FaultTypes'
    BY FaultsCounted DEF PanelRule, Fails
  <2> QED
    BY <2>1, <2>2, <2>3, <2>4 DEF TypeInv
<1>14. DefaultDeny => TypeInv'
  <2> SUFFICES ASSUME DefaultDeny PROVE TypeInv'
    OBVIOUS
  <2>1. NetTypes'
    BY DEF NetTypes, DiskTypes, Ufw, Ports, Services, DefaultDeny, Fails
  <2>2. DiskTypes'
    BY DEF DiskTypes, NetTypes, UnitInv, Things, DefaultDeny, Fails
  <2>3. CommandTypes'
    BY DEF CommandTypes, DefaultDeny, Fails
  <2>4. FaultTypes'
    BY FaultsCounted DEF DefaultDeny, Fails
  <2> QED
    BY <2>1, <2>2, <2>3, <2>4 DEF TypeInv
<1>15. (\E p \in Ports : AllowPort(p)) => TypeInv'
  <2> SUFFICES ASSUME \E p \in Ports : AllowPort(p) PROVE TypeInv'
    OBVIOUS
  <2>1. NetTypes'
    BY DEF NetTypes, DiskTypes, Ufw, Ports, Services, AllowPort, Row, Fails
  <2>2. DiskTypes'
    BY DEF DiskTypes, NetTypes, UnitInv, Things, AllowPort, Row, Fails
  <2>3. CommandTypes'
    BY DEF CommandTypes, AllowPort, Row, Fails
  <2>4. FaultTypes'
    BY FaultsCounted DEF AllowPort, Row, Fails
  <2> QED
    BY <2>1, <2>2, <2>3, <2>4 DEF TypeInv
<1>16. Allowed => TypeInv'
  <2> SUFFICES ASSUME Allowed PROVE TypeInv'
    OBVIOUS
  <2>1. NetTypes'
    BY DEF NetTypes, DiskTypes, Ufw, Ports, Services, Allowed
  <2>2. DiskTypes'
    BY DEF DiskTypes, NetTypes, UnitInv, Things, Allowed
  <2>3. CommandTypes'
    BY DEF CommandTypes, Allowed
  <2>4. FaultTypes'
    BY FaultsCounted DEF Allowed
  <2> QED
    BY <2>1, <2>2, <2>3, <2>4 DEF TypeInv
<1>17. Enable => TypeInv'
  <2> SUFFICES ASSUME Enable PROVE TypeInv'
    OBVIOUS
  <2>1. NetTypes'
    BY DEF NetTypes, DiskTypes, Ufw, Ports, Services, Enable, Fails, Rewritten
  <2>2. DiskTypes'
    BY DEF DiskTypes, NetTypes, UnitInv, Things, Enable, Fails, Rewritten
  <2>3. CommandTypes'
    BY DEF CommandTypes, Enable, Fails, Rewritten
  <2>4. FaultTypes'
    BY FaultsCounted DEF Enable, Fails, Rewritten
  <2> QED
    BY <2>1, <2>2, <2>3, <2>4 DEF TypeInv
<1>18. RemovePanel => TypeInv'
  <2> SUFFICES ASSUME RemovePanel PROVE TypeInv'
    OBVIOUS
  <2>1. NetTypes'
    BY DEF NetTypes, DiskTypes, Ufw, Ports, Services, RemovePanel, Remove
  <2>2. DiskTypes'
    BY DEF DiskTypes, NetTypes, UnitInv, Things, RemovePanel, Remove
  <2>3. CommandTypes'
    BY DEF CommandTypes, RemovePanel, Remove
  <2>4. FaultTypes'
    BY FaultsCounted DEF RemovePanel, Remove
  <2> QED
    BY <2>1, <2>2, <2>3, <2>4 DEF TypeInv
<1>19. RemoveDns => TypeInv'
  <2> SUFFICES ASSUME RemoveDns PROVE TypeInv'
    OBVIOUS
  <2>1. NetTypes'
    BY DEF NetTypes, DiskTypes, Ufw, Ports, Services, RemoveDns
  <2>2. DiskTypes'
    BY DEF DiskTypes, NetTypes, UnitInv, Things, RemoveDns
  <2>3. CommandTypes'
    BY DEF CommandTypes, RemoveDns
  <2>4. FaultTypes'
    BY FaultsCounted DEF RemoveDns
  <2> QED
    BY <2>1, <2>2, <2>3, <2>4 DEF TypeInv
<1>20. RemoveRules => TypeInv'
  <2> SUFFICES ASSUME RemoveRules PROVE TypeInv'
    OBVIOUS
  <2>1. NetTypes'
    BY DEF NetTypes, DiskTypes, Ufw, Ports, Services, RemoveRules
  <2>2. DiskTypes'
    BY DEF DiskTypes, NetTypes, UnitInv, Things, RemoveRules
  <2>3. CommandTypes'
    BY DEF CommandTypes, RemoveRules
  <2>4. FaultTypes'
    BY FaultsCounted DEF RemoveRules
  <2> QED
    BY <2>1, <2>2, <2>3, <2>4 DEF TypeInv
<1>21. RemoveUnits => TypeInv'
  <2> SUFFICES ASSUME RemoveUnits PROVE TypeInv'
    OBVIOUS
  <2>1. NetTypes'
    BY DEF NetTypes, DiskTypes, Ufw, Ports, Services, RemoveUnits, Disabled
  <2>2. DiskTypes'
    BY DEF DiskTypes, NetTypes, UnitInv, Things, RemoveUnits, Disabled
  <2>3. CommandTypes'
    BY DEF CommandTypes, RemoveUnits, Disabled
  <2>4. FaultTypes'
    BY FaultsCounted DEF RemoveUnits, Disabled
  <2> QED
    BY <2>1, <2>2, <2>3, <2>4 DEF TypeInv
<1>22. RemoveUfw => TypeInv'
  <2> SUFFICES ASSUME RemoveUfw PROVE TypeInv'
    OBVIOUS
  <2>1. NetTypes'
    <3>1. ASSUME NEW S, NEW P, ufw' = [ufw EXCEPT !.open = @ \ S, !.panel = @ \ P]
          PROVE  ufw' \in Ufw
      BY <3>1 DEF NetTypes, Ufw
    <3>2. ASSUME RemoveOpenings PROVE ufw' \in Ufw
      <4>1. (IF knows THEN {} ELSE ufw.panel) \in SUBSET (Bridges \cup {Docker0})
        BY DEF NetTypes, Ufw
      <4>2. PICK P : P = IF knows THEN {} ELSE ufw.panel
        OBVIOUS
      <4>3. ufw' = [ufw EXCEPT !.open = @ \ Services, !.panel = P]
        BY <3>2, <4>2 DEF RemoveOpenings
      <4>4. P \in SUBSET (Bridges \cup {Docker0}) /\ ufw.open \ Services \in SUBSET Ports
        BY <4>1, <4>2 DEF NetTypes, Ufw
      <4> QED
        BY <4>3, <4>4 DEF NetTypes, Ufw
    <3>3. ufw' \in Ufw
      BY <3>1, <3>2 DEF NetTypes, RemoveUfw
    <3> QED
      BY <3>3 DEF NetTypes, RemoveUfw
  <2>2. DiskTypes'
    BY DEF DiskTypes, NetTypes, UnitInv, Things, RemoveUfw, RemoveOpenings
  <2>3. CommandTypes'
    BY DEF CommandTypes, Parts, Traces, RemoveUfw, RemoveOpenings
  <2>4. FaultTypes'
    BY FaultsCounted DEF RemoveUfw, RemoveOpenings
  <2> QED
    BY <2>1, <2>2, <2>3, <2>4 DEF TypeInv
<1>23. RemoveNpm => TypeInv'
  <2> SUFFICES ASSUME RemoveNpm PROVE TypeInv'
    OBVIOUS
  <2>1. NetTypes'
    BY DEF NetTypes, DiskTypes, Ufw, Ports, Services, RemoveNpm, Remove
  <2>2. DiskTypes'
    BY DEF DiskTypes, NetTypes, UnitInv, Things, RemoveNpm, Remove
  <2>3. CommandTypes'
    BY DEF CommandTypes, RemoveNpm, Remove
  <2>4. FaultTypes'
    BY FaultsCounted DEF RemoveNpm, Remove
  <2> QED
    BY <2>1, <2>2, <2>3, <2>4 DEF TypeInv
<1>24. RemoveWireGuard => TypeInv'
  <2> SUFFICES ASSUME RemoveWireGuard PROVE TypeInv'
    OBVIOUS
  <2>1. NetTypes'
    BY DEF NetTypes, DiskTypes, Ufw, Ports, Services, RemoveWireGuard, Tunnel
  <2>2. DiskTypes'
    BY DEF DiskTypes, NetTypes, UnitInv, Things, RemoveWireGuard, Tunnel
  <2>3. CommandTypes'
    BY DEF CommandTypes, RemoveWireGuard, Tunnel
  <2>4. FaultTypes'
    BY FaultsCounted DEF RemoveWireGuard, Tunnel
  <2> QED
    BY <2>1, <2>2, <2>3, <2>4 DEF TypeInv
<1>25. RemoveSysctl => TypeInv'
  <2> SUFFICES ASSUME RemoveSysctl PROVE TypeInv'
    OBVIOUS
  <2>1. NetTypes'
    BY DEF NetTypes, DiskTypes, Ufw, Ports, Services, RemoveSysctl, Remove
  <2>2. DiskTypes'
    BY DEF DiskTypes, NetTypes, UnitInv, Things, RemoveSysctl, Remove
  <2>3. CommandTypes'
    BY DEF CommandTypes, RemoveSysctl, Remove
  <2>4. FaultTypes'
    BY FaultsCounted DEF RemoveSysctl, Remove
  <2> QED
    BY <2>1, <2>2, <2>3, <2>4 DEF TypeInv
<1>26. RemoveFiles => TypeInv'
  <2> SUFFICES ASSUME RemoveFiles PROVE TypeInv'
    OBVIOUS
  <2>1. NetTypes'
    BY DEF NetTypes, DiskTypes, Ufw, Ports, Services, RemoveFiles, Remove
  <2>2. DiskTypes'
    BY DEF DiskTypes, NetTypes, UnitInv, Things, RemoveFiles, Remove
  <2>3. CommandTypes'
    BY DEF CommandTypes, RemoveFiles, Remove
  <2>4. FaultTypes'
    BY FaultsCounted DEF RemoveFiles, Remove
  <2> QED
    BY <2>1, <2>2, <2>3, <2>4 DEF TypeInv
<1>27. RemoveProgram => TypeInv'
  <2> SUFFICES ASSUME RemoveProgram PROVE TypeInv'
    OBVIOUS
  <2>1. NetTypes'
    BY DEF NetTypes, DiskTypes, Ufw, Ports, Services, RemoveProgram
  <2>2. DiskTypes'
    BY DEF DiskTypes, NetTypes, UnitInv, Things, RemoveProgram
  <2>3. CommandTypes'
    BY DEF CommandTypes, RemoveProgram
  <2>4. FaultTypes'
    BY FaultsCounted DEF RemoveProgram
  <2> QED
    BY <2>1, <2>2, <2>3, <2>4 DEF TypeInv
<1>28. Finish => TypeInv'
  <2> SUFFICES ASSUME Finish PROVE TypeInv'
    OBVIOUS
  <2>1. NetTypes'
    BY DEF NetTypes, DiskTypes, Ufw, Ports, Services, Finish
  <2>2. DiskTypes'
    BY DEF DiskTypes, NetTypes, UnitInv, Things, Finish
  <2>3. CommandTypes'
    BY DEF CommandTypes, Finish
  <2>4. FaultTypes'
    BY FaultsCounted DEF Finish
  <2> QED
    BY <2>1, <2>2, <2>3, <2>4 DEF TypeInv
<1>29. Kill => TypeInv'
  <2> SUFFICES ASSUME Kill PROVE TypeInv'
    OBVIOUS
  <2>1. NetTypes'
    BY DEF NetTypes, DiskTypes, Ufw, Ports, Services, Kill, Ended
  <2>2. DiskTypes'
    BY DEF DiskTypes, NetTypes, UnitInv, Things, Kill, Ended
  <2>3. CommandTypes'
    BY DEF CommandTypes, Kill, Ended
  <2>4. FaultTypes'
    BY FaultsCounted DEF Kill, Ended
  <2> QED
    BY <2>1, <2>2, <2>3, <2>4 DEF TypeInv
<1>30. Recreate => TypeInv'
  <2> SUFFICES ASSUME Recreate PROVE TypeInv'
    OBVIOUS
  <2>1. NetTypes'
    BY DEF NetTypes, DiskTypes, Ufw, Ports, Services, Recreate, Spend
  <2>2. DiskTypes'
    BY DEF DiskTypes, NetTypes, UnitInv, Things, Recreate, Spend
  <2>3. CommandTypes'
    BY DEF CommandTypes, Recreate, Spend
  <2>4. FaultTypes'
    BY FaultsCounted DEF Recreate, Spend
  <2> QED
    BY <2>1, <2>2, <2>3, <2>4 DEF TypeInv
<1>31. Reboot => TypeInv'
  <2> SUFFICES ASSUME Reboot PROVE TypeInv'
    OBVIOUS
  <2>1. NetTypes'
    BY DEF NetTypes, DiskTypes, Ufw, Ports, Services, Reboot, Ended
  <2>2. DiskTypes'
    BY DEF DiskTypes, NetTypes, UnitInv, Things, Reboot, Ended
  <2>3. CommandTypes'
    BY DEF CommandTypes, Reboot, Ended
  <2>4. FaultTypes'
    BY FaultsCounted DEF Reboot, Ended
  <2> QED
    BY <2>1, <2>2, <2>3, <2>4 DEF TypeInv
<1>32. UNCHANGED vars => TypeInv'
  BY DEF vars, history, TypeInv, NetTypes, DiskTypes, CommandTypes, FaultTypes
<1>33. ComposeDown => TypeInv'
  <2> SUFFICES ASSUME ComposeDown PROVE TypeInv'
    OBVIOUS
  <2>1. NetTypes'
    BY DEF NetTypes, DiskTypes, Ufw, Ports, Services, ComposeDown
  <2>2. DiskTypes'
    BY DEF DiskTypes, NetTypes, UnitInv, Things, ComposeDown
  <2>3. CommandTypes'
    BY DEF CommandTypes, Parts, Traces, ComposeDown
  <2>4. FaultTypes'
    BY FaultsCounted DEF ComposeDown
  <2> QED
    BY <2>1, <2>2, <2>3, <2>4 DEF TypeInv
<1> QED
  BY <1>1, <1>2, <1>3, <1>4, <1>5, <1>6, <1>7, <1>8, <1>9, <1>10, <1>11, <1>12, <1>13, <1>14,
      <1>15, <1>16, <1>17, <1>18, <1>19, <1>20, <1>21, <1>22, <1>23, <1>24, <1>25, <1>26,
      <1>27, <1>28, <1>29, <1>30, <1>31, <1>32, <1>33 DEF Next, Begin, Step

-----------------------------------------------------------------------------
(* Labels, and SSH.                                                        *)

(* A command stays on its way, and rewrites ufw's rules while it is on.    *)
LEMMA LabelStep ==
    ASSUME NetTypes, LabelInv
    PROVE  [Next]_vars => LabelInv'
<1> USE MachineAssumption DEF LabelInv, OpInv, ActiveInv, UnitInv, NetTypes, Ufw,
    ProvisionLabels, SetupLabels, RemovalLabels, AfterUnits, AfterDown, AfterNpm, At, Goto, Quiet, net,
    disk, command, history, Hushed, Silent, Sound, AfterRestore
<1>1. BeginProvision => LabelInv'
  BY DEF BeginProvision, Starts
<1>2. BeginUpdate => LabelInv'
  BY DEF BeginUpdate, Starts
<1>3. BeginSetup => LabelInv'
  BY DEF BeginSetup, Starts
<1>4. BeginUninstall => LabelInv'
  BY DEF BeginUninstall, Starts
<1>5. Service => LabelInv'
  BY DEF Service
<1>6. Deploy => LabelInv'
  BY DEF Deploy, Tunnel
<1>7. Publish => LabelInv'
  BY DEF Publish
<1>8. WriteRules => LabelInv'
  BY DEF WriteRules, Detected
<1>9. ApplyRules => LabelInv'
  BY DEF ApplyRules, ScriptRun, Fails
<1>10. OpenPorts => LabelInv'
  BY DEF OpenPorts
<1>11. ReloadUfw => LabelInv'
  BY DEF ReloadUfw, Rewritten
<1>12. Restore => LabelInv'
  BY DEF Restore, DockerRestarted, ScriptRun
<1>13. PanelRule => LabelInv'
  BY DEF PanelRule, Fails, Detected, Revoked, Listed
<1>14. DefaultDeny => LabelInv'
  BY DEF DefaultDeny, Fails
<1>15. (\E p \in Ports : AllowPort(p)) => LabelInv'
  BY DEF AllowPort, Row, Fails
<1>16. Allowed => LabelInv'
  BY DEF Allowed
<1>17. Enable => LabelInv'
  BY DEF Enable, Fails, Rewritten
<1>18. RemovePanel => LabelInv'
  BY DEF RemovePanel, Remove
<1>19. RemoveDns => LabelInv'
  BY DEF RemoveDns
<1>20. RemoveRules => LabelInv'
  BY DEF RemoveRules
<1>21. RemoveUnits => LabelInv'
  BY DEF RemoveUnits, Disabled
<1>22. RemoveUfw => LabelInv'
  BY DEF RemoveUfw, RemoveOpenings
<1>23. RemoveNpm => LabelInv'
  BY DEF RemoveNpm, Remove
<1>24. RemoveWireGuard => LabelInv'
  BY DEF RemoveWireGuard, Tunnel
<1>25. RemoveSysctl => LabelInv'
  BY DEF RemoveSysctl, Remove
<1>26. RemoveFiles => LabelInv'
  BY DEF RemoveFiles, Remove
<1>27. RemoveProgram => LabelInv'
  BY DEF RemoveProgram
<1>28. Finish => LabelInv'
  BY DEF Finish
<1>29. Kill => LabelInv'
  BY DEF Kill, Ended
<1>30. Recreate => LabelInv'
  BY DEF Recreate, Spend
<1>31. Reboot => LabelInv'
  BY DEF Reboot, Ended
<1>32. UNCHANGED vars => LabelInv'
  BY DEF vars, net, disk, command, history
<1>33. ComposeDown => LabelInv'
  BY DEF ComposeDown
<1> QED
  BY <1>1, <1>2, <1>3, <1>4, <1>5, <1>6, <1>7, <1>8, <1>9, <1>10, <1>11, <1>12, <1>13, <1>14,
      <1>15, <1>16, <1>17, <1>18, <1>19, <1>20, <1>21, <1>22, <1>23, <1>24, <1>25, <1>26,
      <1>27, <1>28, <1>29, <1>30, <1>31, <1>32, <1>33 DEF Next, Begin, Step

(* SSH is let in before ufw is turned on, and is not among what is removed.*)
LEMMA SshStep ==
    ASSUME NetTypes, LabelInv, SshInv
    PROVE  [Next]_vars => SshInv'
<1> USE DEF SshInv, SshStaysOpen, LabelInv, OpInv, ActiveInv, UnitInv, ProvisionLabels,
    SetupLabels, RemovalLabels, AfterUnits, AfterDown, AfterNpm, NetTypes, Ufw, Ports, Services, At,
    Goto, Quiet, net, disk, command, history, Hushed, Silent, Sound, AfterRestore
<1>1. BeginProvision => SshInv'
  BY DEF BeginProvision, Starts
<1>2. BeginUpdate => SshInv'
  BY DEF BeginUpdate, Starts
<1>3. BeginSetup => SshInv'
  BY DEF BeginSetup, Starts
<1>4. BeginUninstall => SshInv'
  BY DEF BeginUninstall, Starts
<1>5. Service => SshInv'
  BY DEF Service
<1>6. Deploy => SshInv'
  BY DEF Deploy, Tunnel
<1>7. Publish => SshInv'
  BY DEF Publish
<1>8. WriteRules => SshInv'
  BY DEF WriteRules, Detected
<1>9. ApplyRules => SshInv'
  BY DEF ApplyRules, ScriptRun, Fails
<1>10. OpenPorts => SshInv'
  BY DEF OpenPorts
<1>11. ReloadUfw => SshInv'
  BY DEF ReloadUfw, Rewritten
<1>12. Restore => SshInv'
  BY DEF Restore, DockerRestarted, ScriptRun
<1>13. PanelRule => SshInv'
  BY DEF PanelRule, Fails, Detected, Revoked, Listed
<1>14. DefaultDeny => SshInv'
  BY DEF DefaultDeny, Fails
<1>15. (\E p \in Ports : AllowPort(p)) => SshInv'
  BY DEF AllowPort, Row, Fails
<1>16. Allowed => SshInv'
  BY DEF Allowed
<1>17. Enable => SshInv'
  BY DEF Enable, Fails, Rewritten
<1>18. RemovePanel => SshInv'
  BY DEF RemovePanel, Remove
<1>19. RemoveDns => SshInv'
  BY DEF RemoveDns
<1>20. RemoveRules => SshInv'
  BY DEF RemoveRules
<1>21. RemoveUnits => SshInv'
  BY DEF RemoveUnits, Disabled
<1>22. RemoveUfw => SshInv'
  BY DEF RemoveUfw, RemoveOpenings
<1>23. RemoveNpm => SshInv'
  BY DEF RemoveNpm, Remove
<1>24. RemoveWireGuard => SshInv'
  BY DEF RemoveWireGuard, Tunnel
<1>25. RemoveSysctl => SshInv'
  BY DEF RemoveSysctl, Remove
<1>26. RemoveFiles => SshInv'
  BY DEF RemoveFiles, Remove
<1>27. RemoveProgram => SshInv'
  BY DEF RemoveProgram
<1>28. Finish => SshInv'
  BY DEF Finish
<1>29. Kill => SshInv'
  BY DEF Kill, Ended
<1>30. Recreate => SshInv'
  BY DEF Recreate, Spend
<1>31. Reboot => SshInv'
  BY DEF Reboot, Ended
<1>32. UNCHANGED vars => SshInv'
  BY DEF vars, net, disk, command, history
<1>33. ComposeDown => SshInv'
  BY DEF ComposeDown
<1> QED
  BY <1>1, <1>2, <1>3, <1>4, <1>5, <1>6, <1>7, <1>8, <1>9, <1>10, <1>11, <1>12, <1>13, <1>14,
      <1>15, <1>16, <1>17, <1>18, <1>19, <1>20, <1>21, <1>22, <1>23, <1>24, <1>25, <1>26,
      <1>27, <1>28, <1>29, <1>30, <1>31, <1>32, <1>33 DEF Next, Begin, Step

-----------------------------------------------------------------------------
(* A provisioning.                                                         *)

(* What a step of a provisioning achieves, no later step loses: a rewrite  *)
(* that drops rules is followed by their restoration.                      *)
LEMMA ReachStep ==
    ASSUME NetTypes, CommandTypes, OpInv, ActiveInv, ReachInv
    PROVE  [Next]_vars => ReachInv'
<1> USE MachineAssumption DEF ReachInv, NatInv, Achieved, Provisioning, Deployed, Written,
    Applied, Restored, OpInv, ActiveInv, NetTypes, Ufw, ProvisionLabels, SetupLabels,
    RemovalLabels, AfterUnits, AfterDown, AfterNpm, At, Goto, Quiet, net, disk, command,
    history, Hushed, Silent, Sound, AfterRestore
<1>1. BeginProvision => ReachInv'
  BY DEF BeginProvision, Starts
<1>2. BeginUpdate => ReachInv'
  BY DEF BeginUpdate, Starts
<1>3. BeginSetup => ReachInv'
  BY DEF BeginSetup, Starts
<1>4. BeginUninstall => ReachInv'
  BY DEF BeginUninstall, Starts
<1>5. Service => ReachInv'
  BY DEF Service
<1>6. Deploy => ReachInv'
  BY DEF Deploy, Tunnel
<1>7. Publish => ReachInv'
  <2> SUFFICES ASSUME Publish PROVE ReachInv'
    OBVIOUS
  <2>1. NatInv'
    BY DEF Publish
  <2>2. Provisioning' => Achieved'
    BY DEF Publish
  <2> QED
    BY <2>1, <2>2
<1>8. WriteRules => ReachInv'
  BY DEF WriteRules, Detected
<1>9. ApplyRules => ReachInv'
  BY DEF ApplyRules, ScriptRun, Fails
<1>10. OpenPorts => ReachInv'
  BY DEF OpenPorts
<1>11. ReloadUfw => ReachInv'
  BY DEF ReloadUfw, Rewritten
<1>12. Restore => ReachInv'
  <2> SUFFICES ASSUME Restore PROVE ReachInv'
    OBVIOUS
  <2>1. /\ UNCHANGED <<ufw, bridge, script, unit, dropin, things, dns, op, knows, failed, reported>>
        /\ silent \subseteq silent' /\ pc = "restore" /\ ufw.on
    BY DEF Restore
  <2>2. /\ op = "setup" => pc' = "end"
        /\ op = "uninstall" => pc' = "rm_npm"
        /\ op \in {"provision", "update"} => pc' = "panel_rule"
    BY DEF Restore
  <2>3. op \in {"setup", "uninstall", "provision", "update"}
    BY <2>1 DEF CommandTypes
  <2>4. script = None \/ forward' = forward \cup {script} \/ "forward" \in silent'
    BY DEF Restore, ScriptRun
  <2>5. bridge # None => nat' \/ "nat" \in silent'
    BY Zenon DEF Restore, DockerRestarted, Silent
  <2>6. NatInv'
    BY <2>1
  <2>7. Provisioning' => Achieved'
    <3> SUFFICES ASSUME Provisioning' PROVE Achieved'
      OBVIOUS
    <3>1. Achieved /\ pc' = "panel_rule"
      BY <2>1, <2>2
    <3>2. bridge # None /\ dropin /\ (script = bridge \/ {"script", "forward"} \subseteq silent)
      BY <2>1, <3>1
    <3>3. bridge \in forward' \/ "forward" \in silent'
      BY <2>1, <2>4, <3>2
    <3> QED
      BY <2>1, <2>5, <3>1, <3>2, <3>3
  <2> QED
    BY <2>6, <2>7
<1>13. PanelRule => ReachInv'
  BY DEF PanelRule, Fails, Detected, Revoked, Listed
<1>14. DefaultDeny => ReachInv'
  BY DEF DefaultDeny, Fails
<1>15. (\E p \in Ports : AllowPort(p)) => ReachInv'
  BY DEF AllowPort, Row, Fails
<1>16. Allowed => ReachInv'
  BY DEF Allowed
<1>17. Enable => ReachInv'
  <2> SUFFICES ASSUME Enable PROVE ReachInv'
    OBVIOUS
  <2>1. NatInv'
    BY DEF Enable, Fails, Rewritten
  <2>2. Provisioning' => Achieved'
    BY DEF Enable, Fails, Rewritten
  <2> QED
    BY <2>1, <2>2
<1>18. RemovePanel => ReachInv'
  BY DEF RemovePanel, Remove
<1>19. RemoveDns => ReachInv'
  BY DEF RemoveDns
<1>20. RemoveRules => ReachInv'
  BY DEF RemoveRules
<1>21. RemoveUnits => ReachInv'
  BY DEF RemoveUnits, Disabled
<1>22. RemoveUfw => ReachInv'
  BY DEF RemoveUfw, RemoveOpenings
<1>23. RemoveNpm => ReachInv'
  BY DEF RemoveNpm, Remove
<1>24. RemoveWireGuard => ReachInv'
  BY DEF RemoveWireGuard, Tunnel
<1>25. RemoveSysctl => ReachInv'
  BY DEF RemoveSysctl, Remove
<1>26. RemoveFiles => ReachInv'
  BY DEF RemoveFiles, Remove
<1>27. RemoveProgram => ReachInv'
  BY DEF RemoveProgram
<1>28. Finish => ReachInv'
  BY DEF Finish
<1>29. Kill => ReachInv'
  BY DEF Kill, Ended
<1>30. Recreate => ReachInv'
  BY DEF Recreate, Spend
<1>31. Reboot => ReachInv'
  BY DEF Reboot, Ended
<1>32. UNCHANGED vars => ReachInv'
  BY DEF vars, net, disk, command, history
<1>33. ComposeDown => ReachInv'
  <2> SUFFICES ASSUME ComposeDown PROVE ReachInv'
    OBVIOUS
  <2>1. /\ op \notin {"provision", "update"} /\ UNCHANGED <<ufw, op>>
        /\ \/ bridge' = None
           \/ UNCHANGED <<bridge, nat>>
    BY DEF ComposeDown
  <2> QED
    BY <2>1
<1> QED
  BY <1>1, <1>2, <1>3, <1>4, <1>5, <1>6, <1>7, <1>8, <1>9, <1>10, <1>11, <1>12, <1>13, <1>14,
      <1>15, <1>16, <1>17, <1>18, <1>19, <1>20, <1>21, <1>22, <1>23, <1>24, <1>25, <1>26,
      <1>27, <1>28, <1>29, <1>30, <1>31, <1>32, <1>33 DEF Next, Begin, Step

-----------------------------------------------------------------------------
(* A removal.                                                              *)

(* What a step of a removal leaves it has reported, and the steps after it *)
(* leave alone.                                                            *)
LEMMA LeftStep ==
    ASSUME NetTypes, CommandTypes, OpInv, ActiveInv, LeftInv, FilesInv, ContainerInv
    PROVE  [Next]_vars => LeftInv'
<1> USE DEF LeftInv, FilesInv, NeedsFiles, KnowsNothing, DnsReported, OpeningsReported,
    Removing, AfterFirewall, OpenedByEdgekit, OpInv, ActiveInv, Reports, ProvisionLabels,
    SetupLabels, RemovalLabels, AfterUnits, AfterDown, AfterNpm, At, Goto, Quiet, net, disk, command,
    history, Hushed, Silent, Sound, AfterRestore
<1>1. BeginProvision => LeftInv'
  BY DEF BeginProvision, Starts
<1>2. BeginUpdate => LeftInv'
  BY DEF BeginUpdate, Starts
<1>3. BeginSetup => LeftInv'
  BY DEF BeginSetup, Starts
<1>4. BeginUninstall => LeftInv'
  BY DEF BeginUninstall, Starts
<1>5. Service => LeftInv'
  BY DEF Service
<1>6. Deploy => LeftInv'
  BY DEF Deploy, Tunnel
<1>7. Publish => LeftInv'
  BY DEF Publish
<1>8. WriteRules => LeftInv'
  BY DEF WriteRules, Detected
<1>9. ApplyRules => LeftInv'
  BY DEF ApplyRules, ScriptRun, Fails
<1>10. OpenPorts => LeftInv'
  BY DEF OpenPorts
<1>11. ReloadUfw => LeftInv'
  <2> SUFFICES ASSUME ReloadUfw PROVE LeftInv'
    OBVIOUS
  <2>1. op = "uninstall" /\ dropin' => dropin
    BY DEF ReloadUfw
  <2>2. /\ UNCHANGED <<ufw, bridge, script, unit, things, dns, reported, silent, op>>
        /\ pc = "reload" /\ pc' = "restore"
    BY DEF ReloadUfw
  <2> QED
    BY <2>1, <2>2
<1>12. Restore => LeftInv'
  <2> SUFFICES ASSUME Restore PROVE LeftInv'
    OBVIOUS
  <2>1. /\ UNCHANGED <<ufw, bridge, script, unit, dropin, things, dns, op, knows, failed, reported>>
        /\ silent \subseteq silent' /\ pc = "restore" /\ ufw.on
    BY DEF Restore
  <2>2. /\ op = "setup" => pc' = "end"
        /\ op = "uninstall" => pc' = "rm_npm"
        /\ op \in {"provision", "update"} => pc' = "panel_rule"
    BY DEF Restore
  <2>3. op \in {"setup", "uninstall", "provision", "update"}
    BY <2>1 DEF CommandTypes
  <2> QED
    BY <2>1, <2>2, <2>3
<1>13. PanelRule => LeftInv'
  BY DEF PanelRule, Fails, Detected, Revoked, Listed
<1>14. DefaultDeny => LeftInv'
  BY DEF DefaultDeny, Fails
<1>15. (\E p \in Ports : AllowPort(p)) => LeftInv'
  BY DEF AllowPort, Row, Fails
<1>16. Allowed => LeftInv'
  BY DEF Allowed
<1>17. Enable => LeftInv'
  BY DEF Enable, Fails, Rewritten
<1>18. RemovePanel => LeftInv'
  BY DEF RemovePanel, Remove
<1>19. RemoveDns => LeftInv'
  BY DEF RemoveDns
<1>20. RemoveRules => LeftInv'
  BY DEF RemoveRules
<1>21. RemoveUnits => LeftInv'
  BY DEF RemoveUnits, Disabled
<1>22. RemoveUfw => LeftInv'
  <2> SUFFICES ASSUME RemoveUfw PROVE LeftInv'
    OBVIOUS
  <2>1. /\ UNCHANGED <<bridge, script, unit, dropin, things, dns, op, reported>>
        /\ silent \subseteq silent' /\ pc = "rm_ufw" /\ pc' \in {"reload", "rm_npm"}
    BY DEF RemoveUfw
  <2>2. CASE "openings" \in silent'
    BY <2>1, <2>2
  <2>3. CASE RemoveOpenings
    <3>1. ufw' = [ufw EXCEPT !.open = @ \ Services, !.panel = IF knows THEN {} ELSE @]
      BY <2>3 DEF RemoveOpenings
    <3>2. ufw'.open \cap Services = {} /\ ufw'.on = ufw.on
      BY <3>1 DEF NetTypes, Ufw
    <3>3. ufw'.panel = IF knows THEN {} ELSE ufw.panel
      BY <3>1 DEF NetTypes, Ufw
    <3>4. op = "uninstall" /\ OpenedByEdgekit' => "firewall" \in reported \/ "openings" \in silent
      BY <3>2, <3>3
    <3> QED
      BY <2>1, <3>4
  <2> QED
    BY <2>2, <2>3 DEF RemoveUfw
<1>23. RemoveNpm => LeftInv'
  BY DEF RemoveNpm, Remove
<1>24. RemoveWireGuard => LeftInv'
  BY DEF RemoveWireGuard, Tunnel
<1>25. RemoveSysctl => LeftInv'
  BY DEF RemoveSysctl, Remove
<1>26. RemoveFiles => LeftInv'
  BY DEF RemoveFiles, Remove
<1>27. RemoveProgram => LeftInv'
  BY DEF RemoveProgram
<1>28. Finish => LeftInv'
  BY DEF Finish
<1>29. Kill => LeftInv'
  BY DEF Kill, Ended
<1>30. Recreate => LeftInv'
  BY DEF Recreate, Spend
<1>31. Reboot => LeftInv'
  BY DEF Reboot, Ended
<1>32. UNCHANGED vars => LeftInv'
  BY DEF vars, net, disk, command, history
<1>33. ComposeDown => LeftInv'
  <2> SUFFICES ASSUME ComposeDown PROVE LeftInv'
    OBVIOUS
  <2>1. /\ UNCHANGED <<ufw, script, unit, dropin, things, dns, op, reported>>
        /\ silent \subseteq silent' /\ pc = "rm_npm" /\ pc' = "rm_npm_dir"
    BY DEF ComposeDown
  <2>2. bridge' # None => "container" \in silent'
    BY DEF ComposeDown, ContainerInv
  <2> QED
    BY <2>1, <2>2
<1> QED
  BY <1>1, <1>2, <1>3, <1>4, <1>5, <1>6, <1>7, <1>8, <1>9, <1>10, <1>11, <1>12, <1>13, <1>14,
      <1>15, <1>16, <1>17, <1>18, <1>19, <1>20, <1>21, <1>22, <1>23, <1>24, <1>25, <1>26,
      <1>27, <1>28, <1>29, <1>30, <1>31, <1>32, <1>33 DEF Next, Begin, Step

(* The configuration is deleted after all that needs it, and what was not  *)
(* removed by then has been reported.                                      *)
LEMMA FilesStep ==
    ASSUME NetTypes, CommandTypes, OpInv, ActiveInv, LeftInv, FilesInv
    PROVE  [Next]_vars => FilesInv'
<1> USE DEF LeftInv, FilesInv, NeedsFiles, KnowsNothing, DnsReported, OpeningsReported,
    Removing, AfterFirewall, OpenedByEdgekit, OpInv, ActiveInv, Reports, ProvisionLabels,
    SetupLabels, RemovalLabels, AfterUnits, AfterDown, AfterNpm, At, Goto, Quiet, net, disk, command,
    history, Hushed, Silent, Sound, AfterRestore
<1>1. BeginProvision => FilesInv'
  BY DEF BeginProvision, Starts, Configured
<1>2. BeginUpdate => FilesInv'
  BY DEF BeginUpdate, Starts, Configured
<1>3. BeginSetup => FilesInv'
  BY DEF BeginSetup, Starts, Configured
<1>4. BeginUninstall => FilesInv'
  <2> SUFFICES ASSUME BeginUninstall PROVE FilesInv'
    OBVIOUS
  <2>1. NeedsFiles'
    BY DEF BeginUninstall, Starts
  <2>2. knows' => "files" \in things
    BY DEF BeginUninstall, Starts
  <2>3. ~knows' => "files" \notin things
    BY Zenon DEF BeginUninstall, Starts
  <2>4. DnsReported'
    BY DEF BeginUninstall, Starts
  <2>5. OpeningsReported'
    BY DEF BeginUninstall, Starts
  <2>6. UNCHANGED things
    BY DEF BeginUninstall, Starts
  <2> QED
    BY <2>1, <2>2, <2>3, <2>4, <2>5, <2>6
<1>5. Service => FilesInv'
  BY DEF Service
<1>6. Deploy => FilesInv'
  BY DEF Deploy, Tunnel
<1>7. Publish => FilesInv'
  <2> SUFFICES ASSUME Publish PROVE FilesInv'
    OBVIOUS
  <2>1. op \in {"provision", "update", "setup"}
    BY DEF CommandTypes, Publish
  <2>2. NeedsFiles'
    BY <2>1 DEF Publish
  <2>3. KnowsNothing'
    BY <2>1 DEF Publish
  <2>4. DnsReported'
    BY <2>1 DEF Publish
  <2>5. OpeningsReported'
    BY <2>1 DEF Publish
  <2> QED
    BY <2>1, <2>2, <2>3, <2>4, <2>5
<1>8. WriteRules => FilesInv'
  BY DEF WriteRules, Detected
<1>9. ApplyRules => FilesInv'
  BY DEF ApplyRules, ScriptRun, Fails
<1>10. OpenPorts => FilesInv'
  <2> SUFFICES ASSUME OpenPorts PROVE FilesInv'
    OBVIOUS
  <2>1. op \in {"provision", "update", "setup"} /\ UNCHANGED <<op, things>>
    BY DEF CommandTypes, OpenPorts
  <2> QED
    BY <2>1
<1>11. ReloadUfw => FilesInv'
  BY DEF ReloadUfw, Rewritten
<1>12. Restore => FilesInv'
  <2> SUFFICES ASSUME Restore PROVE FilesInv'
    OBVIOUS
  <2>1. /\ UNCHANGED <<ufw, bridge, script, unit, dropin, things, dns, op, knows, failed, reported>>
        /\ silent \subseteq silent' /\ pc = "restore" /\ ufw.on
    BY DEF Restore
  <2>2. /\ op = "setup" => pc' = "end"
        /\ op = "uninstall" => pc' = "rm_npm"
        /\ op \in {"provision", "update"} => pc' = "panel_rule"
    BY DEF Restore
  <2>3. op \in {"setup", "uninstall", "provision", "update"}
    BY <2>1 DEF CommandTypes
  <2> QED
    BY <2>1, <2>2, <2>3
<1>13. PanelRule => FilesInv'
  <2> SUFFICES ASSUME PanelRule PROVE FilesInv'
    OBVIOUS
  <2>1. op \in {"provision", "update", "setup"}
    BY DEF CommandTypes, Parts, Traces, PanelRule, Fails, Detected, Revoked, Listed
  <2>2. NeedsFiles'
    BY <2>1 DEF PanelRule, Fails, Detected, Revoked, Listed
  <2>3. KnowsNothing'
    BY <2>1 DEF PanelRule, Fails, Detected, Revoked, Listed
  <2>4. DnsReported'
    BY <2>1 DEF PanelRule, Fails, Detected, Revoked, Listed
  <2>5. OpeningsReported'
    BY <2>1 DEF PanelRule, Fails, Detected, Revoked, Listed
  <2> QED
    BY <2>1, <2>2, <2>3, <2>4, <2>5
<1>14. DefaultDeny => FilesInv'
  <2> SUFFICES ASSUME DefaultDeny PROVE FilesInv'
    OBVIOUS
  <2>1. op \in {"provision", "update", "setup"}
    BY DEF CommandTypes, DefaultDeny, Fails
  <2>2. NeedsFiles'
    BY <2>1 DEF DefaultDeny, Fails
  <2>3. KnowsNothing'
    BY <2>1 DEF DefaultDeny, Fails
  <2>4. DnsReported'
    BY <2>1 DEF DefaultDeny, Fails
  <2>5. OpeningsReported'
    BY <2>1 DEF DefaultDeny, Fails
  <2> QED
    BY <2>1, <2>2, <2>3, <2>4, <2>5
<1>15. (\E p \in Ports : AllowPort(p)) => FilesInv'
  <2> SUFFICES ASSUME NEW p \in Ports, AllowPort(p) PROVE FilesInv'
    OBVIOUS
  <2>1. op \in {"provision", "update", "setup"}
    BY DEF CommandTypes, AllowPort, Fails
  <2>2. NeedsFiles'
    BY <2>1 DEF AllowPort, Fails
  <2>3. KnowsNothing'
    BY <2>1 DEF AllowPort, Fails
  <2>4. DnsReported'
    BY <2>1 DEF AllowPort, Fails
  <2>5. OpeningsReported'
    BY <2>1 DEF AllowPort, Fails
  <2> QED
    BY <2>2, <2>3, <2>4, <2>5
<1>16. Allowed => FilesInv'
  BY DEF Allowed
<1>17. Enable => FilesInv'
  <2> SUFFICES ASSUME Enable PROVE FilesInv'
    OBVIOUS
  <2>1. op \in {"provision", "update", "setup"}
    BY DEF CommandTypes, Enable, Fails, Rewritten
  <2>2. NeedsFiles'
    BY <2>1 DEF Enable, Fails, Rewritten
  <2>3. KnowsNothing'
    BY <2>1 DEF Enable, Fails, Rewritten
  <2>4. DnsReported'
    BY <2>1 DEF Enable, Fails, Rewritten
  <2>5. OpeningsReported'
    BY <2>1 DEF Enable, Fails, Rewritten
  <2> QED
    BY <2>1, <2>2, <2>3, <2>4, <2>5
<1>18. RemovePanel => FilesInv'
  BY DEF RemovePanel, Remove
<1>19. RemoveDns => FilesInv'
  BY DEF RemoveDns
<1>20. RemoveRules => FilesInv'
  BY DEF RemoveRules
<1>21. RemoveUnits => FilesInv'
  BY DEF RemoveUnits, Disabled
<1>22. RemoveUfw => FilesInv'
  <2> SUFFICES ASSUME RemoveUfw PROVE FilesInv'
    OBVIOUS
  <2>1. /\ UNCHANGED <<things, dns, op, knows, reported>>
        /\ silent \subseteq silent' /\ op = "uninstall"
    BY DEF RemoveUfw, CommandTypes
  <2>2. CASE "openings" \in silent'
    BY <2>1, <2>2
  <2>3. CASE RemoveOpenings
    <3>1. ufw' = [ufw EXCEPT !.open = @ \ Services, !.panel = IF knows THEN {} ELSE @]
      BY <2>3 DEF RemoveOpenings
    <3>2. ufw'.on = ufw.on /\ ufw'.panel \subseteq ufw.panel
      BY <3>1 DEF NetTypes, Ufw
    <3> QED
      BY <2>1, <3>2
  <2> QED
    BY <2>2, <2>3 DEF RemoveUfw
<1>23. RemoveNpm => FilesInv'
  BY DEF RemoveNpm, Remove
<1>24. RemoveWireGuard => FilesInv'
  BY DEF RemoveWireGuard, Tunnel
<1>25. RemoveSysctl => FilesInv'
  BY DEF RemoveSysctl, Remove
<1>26. RemoveFiles => FilesInv'
  <2> SUFFICES ASSUME RemoveFiles PROVE FilesInv'
    OBVIOUS
  <2>1. op = "uninstall"
    BY DEF CommandTypes, RemoveFiles, Remove
  <2>2. NeedsFiles'
    BY <2>1 DEF RemoveFiles, Remove
  <2>3. KnowsNothing'
    BY <2>1 DEF RemoveFiles, Remove
  <2>4. DnsReported'
    BY <2>1 DEF RemoveFiles, Remove
  <2>5. OpeningsReported'
    BY <2>1 DEF RemoveFiles, Remove
  <2> QED
    BY <2>1, <2>2, <2>3, <2>4, <2>5
<1>27. RemoveProgram => FilesInv'
  BY DEF RemoveProgram
<1>28. Finish => FilesInv'
  BY DEF Finish
<1>29. Kill => FilesInv'
  BY DEF Kill, Ended
<1>30. Recreate => FilesInv'
  BY DEF Recreate, Spend
<1>31. Reboot => FilesInv'
  BY DEF Reboot, Ended
<1>32. UNCHANGED vars => FilesInv'
  BY DEF vars, net, disk, command, history
<1>33. ComposeDown => FilesInv'
  <2> SUFFICES ASSUME ComposeDown PROVE FilesInv'
    OBVIOUS
  <2>1. /\ UNCHANGED <<ufw, things, dns, op, knows, reported>>
        /\ silent \subseteq silent'
    BY DEF ComposeDown
  <2> QED
    BY <2>1
<1> QED
  BY <1>1, <1>2, <1>3, <1>4, <1>5, <1>6, <1>7, <1>8, <1>9, <1>10, <1>11, <1>12, <1>13, <1>14,
      <1>15, <1>16, <1>17, <1>18, <1>19, <1>20, <1>21, <1>22, <1>23, <1>24, <1>25, <1>26,
      <1>27, <1>28, <1>29, <1>30, <1>31, <1>32, <1>33 DEF Next, Begin, Step

(* NPM's container and its directory come together, and the directory goes *)
(* after the container.                                                    *)
LEMMA ContainerStep ==
    ASSUME CommandTypes, OpInv, LeftInv, ContainerInv
    PROVE  [Next]_vars => ContainerInv'
<1> USE DEF ContainerInv, LeftInv, Removing, OpInv, ProvisionLabels, SetupLabels, RemovalLabels,
    AfterUnits, AfterDown, AfterNpm, Parts, Traces, Afresh, At, Goto, Quiet, Reports, Hushed, Silent,
    Sound, net, disk, command, history
<1>1. Begin => ContainerInv'
  BY DEF Begin, BeginProvision, BeginUpdate, BeginSetup, BeginUninstall, Starts
<1>2. Service \/ Deploy \/ Publish => ContainerInv'
  BY DEF Service, Deploy, Publish, Tunnel
<1>3. WriteRules \/ ApplyRules => ContainerInv'
  BY DEF WriteRules, ApplyRules, Fails
<1>4. OpenPorts \/ ReloadUfw \/ Restore \/ PanelRule => ContainerInv'
  BY DEF OpenPorts, ReloadUfw, Restore, PanelRule, Fails
<1>5. DefaultDeny \/ (\E p \in Ports : AllowPort(p)) \/ Allowed \/ Enable => ContainerInv'
  BY DEF DefaultDeny, AllowPort, Allowed, Enable, Fails
<1>6. RemovePanel \/ RemoveDns \/ RemoveRules \/ RemoveUnits \/ RemoveUfw => ContainerInv'
  BY DEF RemovePanel, Remove, RemoveDns, RemoveRules, RemoveUnits, RemoveUfw
<1>7. ComposeDown => ContainerInv'
  BY DEF ComposeDown
<1>8. RemoveNpm => ContainerInv'
  <2> SUFFICES ASSUME RemoveNpm PROVE ContainerInv'
    OBVIOUS
  <2>1. UNCHANGED <<bridge, silent>> /\ pc = "rm_npm_dir" /\ op = "uninstall"
    BY DEF RemoveNpm, Remove, CommandTypes
  <2> QED
    BY <2>1
<1>9. RemoveWireGuard \/ RemoveSysctl \/ RemoveFiles \/ RemoveProgram => ContainerInv'
  BY DEF RemoveWireGuard, RemoveSysctl, RemoveFiles, RemoveProgram, Remove, Tunnel
<1>10. Finish \/ Kill \/ Recreate \/ Reboot \/ UNCHANGED vars => ContainerInv'
  BY DEF Finish, Kill, Ended, Recreate, Spend, Reboot, vars
<1> QED
  BY <1>1, <1>2, <1>3, <1>4, <1>5, <1>6, <1>7, <1>8, <1>9, <1>10 DEF Next, Step

-----------------------------------------------------------------------------
(* The theorems.                                                           *)

Inv == TypeInv /\ LabelInv /\ SshInv /\ ReachInv /\ RemovalInv

(* Initially ufw is as the operator left it, and nothing of edgekit's is there. *)
LEMMA InitInv == Init => Inv
<1> SUFFICES ASSUME Init PROVE Inv
  OBVIOUS
<1>1. TypeInv
  <2>1. NetTypes
    BY DEF Init, NetTypes, Ufw, Ports
  <2>2. DiskTypes /\ CommandTypes
    BY DEF Init, DiskTypes, CommandTypes, Things
  <2>3. FaultTypes
    BY MachineAssumption DEF Init, FaultTypes
  <2> QED
    BY <2>1, <2>2, <2>3 DEF TypeInv
<1>2. LabelInv
  BY DEF Init, LabelInv, OpInv, ActiveInv, UnitInv
<1>3. SshInv
  BY DEF Init, SshInv, SshStaysOpen
<1>4. ReachInv
  BY DEF Init, ReachInv, NatInv, Provisioning
<1>5. RemovalInv
  BY DEF Init, RemovalInv, LeftInv, FilesInv, NeedsFiles, KnowsNothing, DnsReported,
      OpeningsReported, ContainerInv, Removing
<1> QED
  BY <1>1, <1>2, <1>3, <1>4, <1>5 DEF Inv

(* Every step keeps the invariant.                                         *)
LEMMA NextInv == Inv /\ [Next]_vars => Inv'
<1> SUFFICES ASSUME Inv, [Next]_vars PROVE Inv'
  OBVIOUS
<1>0. /\ TypeInv /\ LabelInv /\ SshInv /\ ReachInv /\ LeftInv /\ FilesInv /\ ContainerInv
      /\ NetTypes /\ CommandTypes /\ OpInv /\ ActiveInv
  BY DEF Inv, RemovalInv, TypeInv, LabelInv
<1>1. TypeInv'
  BY <1>0, TypeStep
<1>2. LabelInv'
  BY <1>0, LabelStep
<1>3. SshInv'
  BY <1>0, SshStep
<1>4. ReachInv'
  BY <1>0, ReachStep
<1>5. LeftInv' /\ FilesInv' /\ ContainerInv'
  BY <1>0, LeftStep, FilesStep, ContainerStep
<1> QED
  BY <1>1, <1>2, <1>3, <1>4, <1>5 DEF Inv, RemovalInv

(* The invariant holds in every reachable state.                           *)
LEMMA Invariant == Spec => []Inv
  BY InitInv, NextInv, PTL DEF Spec

(* Every variable keeps its type, and a unit that is enabled has its script: *)
(* firewall.write_rules comes before systemctl enable in apply_rules.      *)
THEOREM MachineTypeCorrect == Spec => []TypeOK
<1>1. Inv => TypeOK
  BY DEF Inv, TypeInv, NetTypes, DiskTypes, CommandTypes, FaultTypes, Ufw, TypeOK
<1> QED
  BY Invariant, <1>1, PTL

(* No command, whatever fails in it and wherever it stops, leaves an active *)
(* ufw that does not let SSH in (firewall.enable_host_firewall).           *)
THEOREM SshIsNeverShutOut == Spec => []SshStaysOpen
<1>1. Inv => SshStaysOpen
  BY DEF Inv, SshInv
<1> QED
  BY Invariant, <1>1, PTL

(* A command that is at its end finishes, is killed, or stays there.       *)
LEMMA AtTheEnd == pc = "end" /\ Next => Finish \/ Kill \/ Reboot
<1> SUFFICES ASSUME pc = "end" PROVE Next => Finish \/ Kill \/ Reboot
  OBVIOUS
<1>1. ~Begin /\ ~Recreate
  BY DEF Begin, BeginProvision, BeginUpdate, BeginSetup, BeginUninstall, Starts, Recreate
<1>2. ~(Service \/ Deploy \/ Publish \/ WriteRules \/ ApplyRules \/ OpenPorts \/ ReloadUfw \/ Restore)
  BY DEF Service, Deploy, Publish, WriteRules, ApplyRules, OpenPorts, ReloadUfw, Restore, At
<1>3. ~(PanelRule \/ DefaultDeny \/ (\E p \in Ports : AllowPort(p)) \/ Allowed \/ Enable)
  BY DEF PanelRule, DefaultDeny, AllowPort, Allowed, Enable, At
<1>4. ~(RemovePanel \/ RemoveDns \/ RemoveRules \/ RemoveUnits \/ RemoveUfw \/ ComposeDown \/ RemoveNpm)
  BY DEF RemovePanel, RemoveDns, RemoveRules, RemoveUnits, RemoveUfw, ComposeDown, RemoveNpm, Remove, At
<1>5. ~(RemoveWireGuard \/ RemoveSysctl \/ RemoveFiles \/ RemoveProgram)
  BY DEF RemoveWireGuard, RemoveSysctl, RemoveFiles, RemoveProgram, Remove, At
<1> QED
  BY <1>1, <1>2, <1>3, <1>4, <1>5 DEF Next, Step

(* A provisioning or an update that ends with status zero leaves NPM       *)
(* reachable, now and after the next boot, but for parts that a command    *)
(* without a check has failed to see to in it (Provisioner.step_firewall). *)
THEOREM ProvisionedMeansReachable == Spec => SuccessMeansReachable
<1>1. ASSUME Inv, Next, pc = "end", op \in {"provision", "update"}, exit' = "zero"
      PROVE  dropin /\ Lacking \subseteq silent
  <2>1. ~failed
    BY <1>1, AtTheEnd DEF Finish, Kill, Reboot, Ended
  <2>2. Achieved
    BY <1>1, <2>1 DEF Inv, ReachInv, Provisioning
  <2> QED
    BY <1>1, <2>2 DEF Achieved, Deployed, Written, Applied, Restored, Lacking
<1>2. Inv /\ [Next]_vars =>
        [pc = "end" /\ op \in {"provision", "update"} /\ exit' = "zero" =>
            dropin /\ Lacking \subseteq silent]_vars
  BY <1>1
<1> QED
  BY Invariant, <1>2, PTL DEF Spec, SuccessMeansReachable

(* When a removal has been through its steps, what is left is what it or an *)
(* earlier one reported, or what compose down or ufw have silently not     *)
(* removed (Uninstaller.run).                                              *)
THEOREM RemovalsReport == Spec => []RemovalReports
<1>1. Inv => RemovalReports
  <2> SUFFICES ASSUME Inv, pc = "end", op = "uninstall"
               PROVE  /\ Left \subseteq reported
                      /\ OpenedByEdgekit => "firewall" \in reported \/ "openings" \in silent
                      /\ bridge # None => "container" \in silent
    BY DEF RemovalReports
  <2>1. LeftInv
    BY DEF Inv, RemovalInv
  <2> QED
    BY <2>1 DEF LeftInv, Left, Removing, RemovalLabels, AfterUnits, AfterDown, AfterNpm, AfterFirewall
<1> QED
  BY Invariant, <1>1, PTL
=============================================================================
