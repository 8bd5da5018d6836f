------------------------------- MODULE Service -------------------------------
(***************************************************************************)
(* The panel as a service: the logins it throttles, and the jobs it starts *)
(* but must not own - the update, which replaces the program and restarts  *)
(* the panel, and the removal, which takes both away.                      *)
(*                                                                         *)
(* A job is a transient systemd unit.  The panel asks whether the unit is  *)
(* active, empties its log and asks systemd to run it, which systemd does  *)
(* later; the job's shell empties the log again and appends the exit       *)
(* status.  A handler of the panel has no await on this way, so launches   *)
(* exclude each other, but jobs start and end beside them.                 *)
(***************************************************************************)
EXTENDS Naturals, FiniteSets

CONSTANTS
    Kinds,      \* "update", "uninstall"
    Attempts,   \* pip calls of an update: PIP_ATTEMPTS
    Limit,      \* max_failures
    Lockout,    \* lockout_seconds, in ticks
    Faults,     \* "fetch", "pip", "run", "systemctl", "crash"
    MaxFaults,  \* bound: faults in a behaviour
    MaxRuns,    \* bound: jobs that are run
    None, Half  \* model values

ASSUME ServiceAssumption ==
    /\ Kinds \subseteq {"update", "uninstall"}
    /\ Attempts \in Nat \ {0} /\ Limit \in Nat \ {0} /\ Lockout \in Nat \ {0}
    /\ MaxFaults \in Nat /\ MaxRuns \in Nat
    /\ None \notin Nat /\ Half \notin Nat /\ None # Half

VARIABLES
    panel,     \* version the panel runs, or None
    unit,      \* edgekit-panel.service is installed
    program,   \* version in the virtualenv, Half while pip replaces it, or None
    files,     \* what edgekit keeps outside it: "config", "logs"
    source,    \* version of the checkout
    restarted, \* history: systemd took the last restart of the panel it was asked for
    job,       \* the units: "absent", "queued", or the step the job is at
    try,       \* pip calls of the running update
    logged,    \* exit line of a job's log, None without one
    ran,       \* history: the run of a kind that systemd accepted last
    launch,    \* the launch a handler is at: its kind, or None, and step
    bucket,    \* the throttle: failures counted, ticks of the lockout left
    guesses,   \* history: ticks since each of the last Limit + 1 wrong passwords
    runs, faults

service == <<panel, unit, program, files, source, restarted>>
units   == <<job, try, logged, ran>>
login   == <<bucket, guesses>>
vars    == <<service, units, launch, login, runs, faults>>

NoLaunch  == [kind |-> None, at |-> "check"]
NoBucket  == [failures |-> 0, locked |-> 0]
NoGuesses == [i \in 1..(Limit + 1) |-> Lockout]   \* a lockout ago, or never
Versions  == 1..(MaxRuns + 1)

Init ==
    /\ panel = 1 /\ unit = TRUE /\ program = 1 /\ source = 1 /\ restarted = TRUE
    /\ files = {"config", "logs"}
    /\ job = [k \in Kinds |-> "absent"]
    /\ try = 0
    /\ logged = [k \in Kinds |-> None] /\ ran = [k \in Kinds |-> None]
    /\ launch = NoLaunch
    /\ bucket = NoBucket /\ guesses = NoGuesses
    /\ runs = 0 /\ faults = 0

-----------------------------------------------------------------------------
(* Helpers.                                                                *)

Fault(f) == f \in Faults /\ faults < MaxFaults /\ faults' = faults + 1
Calm == UNCHANGED faults

At(k, step) == k \in Kinds /\ job[k] = step
Goto(k, step) == job' = [job EXCEPT ![k] = step]
Active(k) == job[k] \notin {"absent", "queued"}

\* A new process of the panel: the throttle is in memory, a launch is lost.
Forgotten ==
    /\ launch' = NoLaunch
    /\ bucket' = NoBucket /\ guesses' = NoGuesses

Runnable == program \in Versions

\* Without its directory the log is not written.
Log(k, line) == logged' = [logged EXCEPT ![k] = IF "logs" \in files THEN line ELSE None]

\* The shell appends the exit line.
Exits(k, code) ==
    /\ Goto(k, "absent") /\ try' = 0
    /\ Log(k, [run |-> ran[k], code |-> code])
    /\ UNCHANGED ran

-----------------------------------------------------------------------------
(* jobs.launch.                                                            *)

\* service_active: a unit that is queued is not active yet.
Launch(k) ==
    /\ panel # None /\ launch = NoLaunch /\ ~Active(k)
    /\ launch' = [kind |-> k, at |-> "truncate"]
    /\ UNCHANGED <<service, units, login, runs>> /\ Calm

Truncate ==
    /\ launch.at = "truncate"
    /\ files' = files \cup {"logs"}
    /\ logged' = [logged EXCEPT ![launch.kind] = None]
    /\ launch' = [launch EXCEPT !.at = "run"]
    /\ UNCHANGED <<panel, unit, program, source, job, try, ran, login, runs, restarted>> /\ Calm

\* systemd-run --no-block; it refuses the name of a unit that exists.
RunUnit ==
    /\ launch.at = "run"
    /\ LET k == launch.kind IN
       \/ /\ job[k] = "absent" /\ runs < MaxRuns
          /\ Goto(k, "queued") /\ Calm
          /\ runs' = runs + 1
          /\ ran' = [ran EXCEPT ![k] = runs']
       \/ /\ job[k] # "absent" /\ Calm
          /\ UNCHANGED <<job, ran, runs>>
       \/ Fault("run") /\ UNCHANGED <<job, ran, runs>>
    /\ launch' = NoLaunch
    /\ UNCHANGED <<service, try, logged, login>>

StartAppends(k) ==               \* mutant: the log of the run before is kept
    /\ At(k, "queued")
    /\ Goto(k, IF k = "update" THEN "fetch" ELSE "rm_panel")
    /\ UNCHANGED <<service, try, logged, ran, launch, login, runs>> /\ Calm

\* The unit's shell opens the log, which empties it, and runs edgekit.
Start(k) ==
    /\ At(k, "queued")
    /\ IF Runnable /\ "config" \in files /\ "logs" \in files
       THEN /\ Goto(k, IF k = "update" THEN "fetch" ELSE "rm_panel")
            /\ Log(k, None)
            /\ UNCHANGED <<try, ran>>
       ELSE Exits(k, 127)
    /\ UNCHANGED <<service, launch, login, runs>> /\ Calm

-----------------------------------------------------------------------------
(* edgekit update.                                                         *)

\* fetch_source: the checkout is moved to what the origin has.
Fetch ==
    /\ At("update", "fetch")
    /\ \/ Fault("fetch") /\ Exits("update", 1) /\ UNCHANGED source
       \/ /\ Calm
          /\ source' \in {source, runs + 1}
          /\ Goto("update", "pip") /\ try' = 1
          /\ UNCHANGED <<logged, ran>>
    /\ UNCHANGED <<panel, unit, program, files, launch, login, runs, restarted>>

\* install_package: a failed call is repeated, unless repeating is pointless.
PipAgain ==                      \* mutant: the last call is repeated, too
    /\ At("update", "pip")
    /\ IF program = None THEN Calm ELSE Fault("pip")
    /\ try' = try + 1
    /\ UNCHANGED <<service, job, logged, ran, launch, login, runs>>

PipFails ==
    /\ At("update", "pip")
    /\ IF program = None THEN Calm ELSE Fault("pip")
    /\ \/ try < Attempts /\ try' = try + 1 /\ UNCHANGED <<job, logged, ran>>
       \/ Exits("update", 1)
    /\ UNCHANGED <<service, launch, login, runs>>

\* pip removes the old program once it has the new one ready, ...
Unpack ==
    /\ At("update", "pip") /\ program # None
    /\ program' = Half
    /\ Goto("update", "unpack")
    /\ UNCHANGED <<panel, unit, files, source, try, logged, ran, launch, login, runs, restarted>> /\ Calm

\* ... and the new program goes on with --resume, if nobody deleted it.
Installed ==
    /\ At("update", "unpack")
    /\ IF program = Half
       THEN /\ program' = source
            /\ Goto("update", "service") /\ try' = 0
            /\ UNCHANGED <<logged, ran>>
       ELSE Exits("update", 1) /\ UNCHANGED program
    /\ UNCHANGED <<panel, unit, files, source, launch, login, runs, restarted>> /\ Calm

\* service_unit.install writes the unit and restarts the panel; nobody looks
\* whether systemctl did.
Enabled ==                       \* mutant: a panel that runs is left running
    /\ panel' = IF panel = None /\ Runnable THEN program ELSE panel
    /\ restarted' = TRUE /\ Forgotten /\ Calm

Restarted ==
    \/ /\ panel' = IF Runnable THEN program ELSE None
       /\ restarted' = TRUE /\ Forgotten /\ Calm
    \/ /\ Fault("systemctl")
       /\ restarted' = FALSE /\ UNCHANGED <<panel, launch, login>>

Service ==
    /\ At("update", "service")
    /\ IF "config" \in files
       THEN /\ unit' = TRUE /\ Restarted
            /\ Goto("update", "provision")
            /\ UNCHANGED <<try, logged, ran>>
       ELSE /\ Exits("update", 1) /\ Calm
            /\ UNCHANGED <<panel, unit, restarted, launch, login>>
    /\ UNCHANGED <<program, files, source, runs>>

\* ... and provisions.
Provision ==
    /\ At("update", "provision")
    /\ \E code \in {0, 2} : Exits("update", code)
    /\ UNCHANGED <<service, launch, login, runs>> /\ Calm

-----------------------------------------------------------------------------
(* edgekit uninstall, as far as it is about the panel and the program.     *)

\* systemctl disable --now, which nobody checks either.
RemovePanel ==
    /\ At("uninstall", "rm_panel")
    /\ unit' = FALSE
    /\ \/ panel' = None /\ Forgotten /\ Calm
       \/ Fault("systemctl") /\ UNCHANGED <<panel, launch, login>>
    /\ Goto("uninstall", "rm_files")
    /\ UNCHANGED <<program, files, source, restarted, try, logged, ran, runs>>

RemoveFiles ==
    /\ At("uninstall", "rm_files")
    /\ files' = {}
    /\ logged' = [k \in Kinds |-> None]
    /\ Goto("uninstall", "rm_program")
    /\ UNCHANGED <<panel, unit, program, source, try, ran, launch, login, runs, restarted>> /\ Calm

\* A program outside PROGRAM_DIR, a developer's, is kept.
RemoveProgram ==
    /\ At("uninstall", "rm_program")
    /\ program' \in {None, program}
    /\ Goto("uninstall", "absent")
    /\ Log("uninstall", [run |-> ran["uninstall"], code |-> 0])
    /\ UNCHANGED <<panel, unit, files, source, try, ran, launch, login, runs, restarted>> /\ Calm

-----------------------------------------------------------------------------
(* Logging in.                                                             *)

Locked == bucket.locked > 0

\* record_failure: the last one locks the address and starts the count again.
FailureForgiven ==               \* mutant: the lockout is not kept
    bucket' = [bucket EXCEPT !.failures = IF @ + 1 >= Limit THEN 0 ELSE @ + 1]

Failure ==
    bucket' = IF bucket.failures + 1 >= Limit
              THEN [failures |-> 0, locked |-> Lockout]
              ELSE [bucket EXCEPT !.failures = @ + 1]

\* A locked address is refused before its password is looked at.
LoginFails ==
    /\ panel # None /\ ~Locked
    /\ Failure
    /\ guesses' = [i \in 1..(Limit + 1) |-> IF i = 1 THEN 0 ELSE guesses[i - 1]]
    /\ UNCHANGED <<service, units, launch, runs>> /\ Calm

\* record_success forgets the address.
LoginSucceeds ==
    /\ panel # None /\ ~Locked
    /\ bucket' = NoBucket /\ guesses' = NoGuesses
    /\ UNCHANGED <<service, units, launch, runs>> /\ Calm

Tick ==
    /\ bucket' = [bucket EXCEPT !.locked = IF @ = 0 THEN 0 ELSE @ - 1]
    /\ guesses' = [i \in 1..(Limit + 1) |-> IF guesses[i] = Lockout THEN Lockout ELSE guesses[i] + 1]
    /\ UNCHANGED <<service, units, launch, runs>> /\ Calm

-----------------------------------------------------------------------------
(* What systemd and the machine do.                                        *)

\* Restart=on-failure; a program that is being replaced does not start.
PanelDies ==
    /\ panel # None /\ Fault("crash")
    /\ panel' = None
    /\ Forgotten
    /\ UNCHANGED <<unit, program, files, source, units, runs, restarted>>

PanelReturns ==
    /\ panel = None /\ unit /\ Runnable /\ "config" \in files
    /\ panel' = program
    /\ UNCHANGED <<unit, program, files, source, units, launch, login, runs, restarted>> /\ Calm

\* The shell is killed with the job: no exit line.
JobDies(k) ==
    /\ Active(k) /\ Fault("crash")
    /\ Goto(k, "absent") /\ try' = 0
    /\ UNCHANGED <<service, logged, ran, launch, login, runs>>

-----------------------------------------------------------------------------

Update == Fetch \/ PipFails \/ Unpack \/ Installed \/ Service \/ Provision
Uninstall == RemovePanel \/ RemoveFiles \/ RemoveProgram

Next ==
    \/ \E k \in Kinds : Launch(k) \/ Start(k) \/ JobDies(k)
    \/ Truncate \/ RunUnit \/ Update \/ Uninstall
    \/ LoginFails \/ LoginSucceeds \/ Tick
    \/ PanelDies \/ PanelReturns

Spec == Init /\ [][Next]_vars

-----------------------------------------------------------------------------
(* Properties.                                                             *)

(* Every variable keeps its type; an update calls pip Attempts times at    *)
(* most (updater.install_package), and a unit that exists has a run.       *)
TypeOK ==
    /\ panel \in Versions \cup {None} /\ source \in Versions /\ unit \in BOOLEAN
    /\ program \in Versions \cup {Half, None} /\ restarted \in BOOLEAN
    /\ files \subseteq {"config", "logs"}
    /\ job \in [Kinds -> {"absent", "queued", "fetch", "pip", "unpack", "service", "provision",
                          "rm_panel", "rm_files", "rm_program"}]
    /\ try \in 0..Attempts
    /\ logged \in [Kinds -> [run : 1..MaxRuns, code : {0, 1, 2, 127}] \cup {None}]
    /\ ran \in [Kinds -> 1..MaxRuns \cup {None}]
    /\ \A k \in Kinds : job[k] # "absent" => ran[k] # None
    /\ launch \in [kind : Kinds, at : {"truncate", "run"}] \cup {NoLaunch}
    /\ bucket \in [failures : 0..(Limit - 1), locked : 0..Lockout]
    /\ guesses \in [1..(Limit + 1) -> 0..Lockout]
    /\ runs \in 0..MaxRuns /\ faults \in 0..MaxFaults

(* jobs.state: the exit status on the update page is that of the run that  *)
(* was started last, never of the one before, however a launch that is     *)
(* refused or lost meets a job that starts, ends or is killed.  The page   *)
(* asks whether the unit is active before it reads the log, and both may   *)
(* change in between: so it must hold of the log whatever was answered.    *)
(* Only while systemd has not begun a run may the log be the one before's. *)
ExitIsTheLastRuns ==
    \A k \in Kinds : logged[k] # None /\ job[k] # "queued" => logged[k].run = ran[k]

(* README.md:454: "Failed logins are throttled per client address          *)
(* (5 attempts, 5-minute lockout)": in any span as long as the lockout, one *)
(* process of the panel looks at no more than Limit wrong passwords        *)
(* without a right one, although failures are counted without a window.    *)
AttemptsBounded == guesses[Limit + 1] = Lockout

(* cli.update: from the restart to the end of the update's provisioning    *)
(* the panel that serves is the version that was fetched, not the one that *)
(* started the job, whether it died, came back or was restarted - unless   *)
(* systemctl failed, which service_unit.install does not notice.           *)
UpdateRunsWhatItFetched ==
    \A k \in Kinds : job[k] = "provision" /\ restarted => panel \in {source, None}
=============================================================================
