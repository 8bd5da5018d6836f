---------------------------- MODULE Service_proofs ----------------------------
(***************************************************************************)
(* Theorems about Service, for any number of attempts, faults and runs:    *)
(* types, the update page shows the exit status of the run it is about,    *)
(* an updated panel is the version that was fetched, and the throttle      *)
(* bounds the wrong passwords of any span as long as its lockout.          *)
(***************************************************************************)
EXTENDS Service, TLAPS

Steps == {"absent", "queued", "fetch", "pip", "unpack", "service", "provision",
          "rm_panel", "rm_files", "rm_program"}

Line == [run : 1..MaxRuns, code : {0, 1, 2, 127}]

\* The parts of TypeOK, one for each group of variables.
ServiceTypes ==
    /\ panel \in Versions \cup {None} /\ source \in Versions /\ unit \in BOOLEAN
    /\ program \in Versions \cup {Half, None} /\ restarted \in BOOLEAN
    /\ files \subseteq {"config", "logs"}

UnitTypes ==
    /\ job \in [Kinds -> Steps]
    /\ try \in 0..Attempts
    /\ logged \in [Kinds -> Line \cup {None}]
    /\ ran \in [Kinds -> 1..MaxRuns \cup {None}]
    /\ \A k \in Kinds : job[k] # "absent" => ran[k] # None   \* a unit has been run

LoginTypes ==
    /\ launch \in [kind : Kinds, at : {"truncate", "run"}] \cup {NoLaunch}
    /\ bucket \in [failures : 0..(Limit - 1), locked : 0..Lockout]
    /\ guesses \in [1..(Limit + 1) -> 0..Lockout]

Counters == runs \in 0..MaxRuns /\ faults \in 0..MaxFaults

\* Once systemd has begun a run, the log has its exit line or none.
LogInv ==
    \A k \in Kinds : job[k] # "queued" /\ logged[k] # None => logged[k].run = ran[k]

\* From the installation on the program is the one that was fetched, unless a
\* removal deleted it; from the restart on so is the panel.
FetchedInv ==
    \A k \in Kinds : job[k] \in {"service", "provision"} =>
        /\ k = "update" /\ program \in {source, None}
        /\ job[k] = "provision" /\ restarted => panel \in {source, None}

\* Wrong passwords that are not counted any more are as old as a lockout; those
\* that locked the address are as old as the part of it that has passed.
ThrottleInv ==
    /\ ~Locked => \A i \in 1..(Limit + 1) : i > bucket.failures => guesses[i] = Lockout
    /\ Locked => /\ bucket.failures = 0 /\ guesses[Limit + 1] = Lockout
                 /\ \A i \in 1..Limit : guesses[i] + bucket.locked >= Lockout

Inv ==
    /\ ServiceTypes /\ UnitTypes /\ LoginTypes /\ Counters
    /\ LogInv /\ FetchedInv /\ ThrottleInv

-----------------------------------------------------------------------------
(* The constants, once for every step below.                               *)

LEMMA Constants ==
    /\ Attempts \in Nat \ {0} /\ Limit \in Nat \ {0} /\ Lockout \in Nat \ {0}
    /\ MaxFaults \in Nat /\ MaxRuns \in Nat
    /\ None \notin Versions /\ Half \notin Versions /\ None # Half
    /\ None \notin 1..MaxRuns
    /\ 1 \in Versions
  BY ServiceAssumption DEF Versions

LEMMA InitInv == Init => Inv
<1> SUFFICES ASSUME Init PROVE Inv
  OBVIOUS
<1>1. ServiceTypes
  BY Constants DEF Init, ServiceTypes
<1>2. UnitTypes
  BY Constants DEF Init, UnitTypes, Steps
<1>3. LoginTypes
  BY Constants DEF Init, LoginTypes, NoBucket, NoGuesses
<1>4. Counters
  BY Constants DEF Init, Counters
<1>5. LogInv /\ FetchedInv
  BY DEF Init, LogInv, FetchedInv
<1>6. ThrottleInv
  BY DEF Init, ThrottleInv, Locked, NoBucket, NoGuesses
<1> QED
  BY <1>1, <1>2, <1>3, <1>4, <1>5, <1>6 DEF Inv

-----------------------------------------------------------------------------
(* Types.                                                                  *)

LEMMA ServiceTypesStep ==
    ASSUME Inv, [Next]_vars
    PROVE  ServiceTypes'
<1> USE DEF service, units, login
<1>0. ServiceTypes
  BY DEF Inv
<1>1. ASSUME NEW k \in Kinds, Launch(k) \/ Start(k) \/ JobDies(k) PROVE ServiceTypes'
  BY <1>0, <1>1 DEF ServiceTypes, Launch, Start, JobDies
<1>2. CASE RunUnit \/ PipFails \/ Provision \/ LoginFails \/ LoginSucceeds \/ Tick \/ UNCHANGED vars
  BY <1>0, <1>2 DEF ServiceTypes, RunUnit, PipFails, Provision, LoginFails, LoginSucceeds, Tick, vars
<1>3. CASE Truncate \/ RemoveFiles
  BY <1>0, <1>3 DEF ServiceTypes, Truncate, RemoveFiles
<1>4. CASE Fetch
  <2>1. source' \in Versions
    BY <1>0, <1>4, Constants DEF Inv, ServiceTypes, Counters, Fetch, Versions
  <2> QED
    BY <1>0, <1>4, <2>1 DEF ServiceTypes, Fetch
<1>5. CASE Unpack \/ Installed \/ RemoveProgram
  BY <1>0, <1>5 DEF ServiceTypes, Unpack, Installed, RemoveProgram
<1>6. CASE Service
  BY <1>0, <1>6 DEF ServiceTypes, Service, Restarted, Runnable
<1>7. CASE RemovePanel \/ PanelDies \/ PanelReturns
  BY <1>0, <1>7 DEF ServiceTypes, RemovePanel, PanelDies, PanelReturns, Runnable
<1> QED
  BY <1>1, <1>2, <1>3, <1>4, <1>5, <1>6, <1>7 DEF Next, Update, Uninstall

(* A job that exits leaves a line of its run, or none.                     *)
LEMMA ExitTypes ==
    ASSUME Inv, NEW k \in Kinds, NEW code \in {0, 1, 2, 127}, job[k] # "absent", Exits(k, code)
    PROVE  UnitTypes' /\ LogInv'
<1>1. UnitTypes /\ LogInv
  BY DEF Inv
<1>2. /\ job' = [job EXCEPT ![k] = "absent"] /\ try' = 0 /\ ran' = ran
      /\ logged' = [logged EXCEPT ![k] = IF "logs" \in files
                                         THEN [run |-> ran[k], code |-> code] ELSE None]
  BY DEF Exits, Goto, Log
<1>3. ran[k] \in 1..MaxRuns
  BY <1>1 DEF UnitTypes
<1>4. [run |-> ran[k], code |-> code] \in Line
  BY <1>3 DEF Line
<1>5. UnitTypes'
  BY <1>1, <1>2, <1>4, Constants DEF UnitTypes, Steps
<1>6. LogInv'
  BY <1>1, <1>2 DEF UnitTypes, LogInv
<1> QED
  BY <1>5, <1>6

(* A job that goes on keeps its log, or empties it.                        *)
LEMMA GoesOn ==
    ASSUME Inv, NEW k \in Kinds, NEW step \in Steps \ {"queued"}, job[k] # "queued",
           job[k] # "absent", job' = [job EXCEPT ![k] = step], try' \in 0..Attempts,
           UNCHANGED <<logged, ran>>
    PROVE  UnitTypes' /\ LogInv'
<1>1. UnitTypes /\ LogInv
  BY DEF Inv
<1>2. UnitTypes'
  BY <1>1 DEF UnitTypes
<1>3. LogInv'
  BY <1>1 DEF UnitTypes, LogInv
<1> QED
  BY <1>2, <1>3

LEMMA UnitsStep ==
    ASSUME Inv, [Next]_vars
    PROVE  UnitTypes' /\ LogInv'
<1> USE DEF service, units, login
<1>0. UnitTypes /\ LogInv
  BY DEF Inv
<1>1. CASE UNCHANGED units
  BY <1>0, <1>1 DEF UnitTypes, LogInv
<1>2. ASSUME NEW k \in Kinds, Start(k) PROVE UnitTypes' /\ LogInv'
  <2>1. job[k] = "queued"
    BY <1>2 DEF Start, At
  <2>2. CASE Exits(k, 127)
    BY <2>1, <2>2, ExitTypes
  <2>3. CASE /\ Goto(k, IF k = "update" THEN "fetch" ELSE "rm_panel")
             /\ Log(k, None) /\ UNCHANGED <<try, ran>>
    <3>1. /\ job' = [job EXCEPT ![k] = IF k = "update" THEN "fetch" ELSE "rm_panel"]
          /\ logged' = [logged EXCEPT ![k] = None]
      BY <2>3 DEF Goto, Log
    <3>2. UnitTypes'
      BY <1>0, <2>1, <2>3, <3>1 DEF UnitTypes, Steps
    <3>3. LogInv'
      BY <1>0, <2>3, <3>1 DEF UnitTypes, LogInv
    <3> QED
      BY <3>2, <3>3
  <2> QED
    BY <1>2, <2>2, <2>3 DEF Start
<1>3. ASSUME NEW k \in Kinds, JobDies(k) PROVE UnitTypes' /\ LogInv'
  <2>1. job[k] \notin {"queued", "absent"} /\ job' = [job EXCEPT ![k] = "absent"]
    BY <1>3 DEF JobDies, Active, Goto
  <2>2. try' \in 0..Attempts
    BY <1>3, Constants DEF JobDies
  <2> QED
    BY <1>3, <2>1, <2>2, GoesOn DEF JobDies, Steps
<1>4. CASE Truncate
  <2>1. launch.kind \in Kinds
    BY <1>4 DEF Truncate, Inv, LoginTypes, NoLaunch
  <2>2. logged' = [logged EXCEPT ![launch.kind] = None] /\ UNCHANGED <<job, try, ran>>
    BY <1>4 DEF Truncate
  <2>3. UnitTypes'
    BY <1>0, <2>1, <2>2 DEF UnitTypes
  <2>4. LogInv'
    BY <1>0, <2>1, <2>2 DEF UnitTypes, LogInv
  <2> QED
    BY <2>3, <2>4
<1>5. CASE RunUnit
  <2> DEFINE k == launch.kind
  <2>1. k \in Kinds
    BY <1>5 DEF RunUnit, Inv, LoginTypes, NoLaunch
  <2>2. CASE UNCHANGED <<job, ran>>
    BY <1>0, <1>5, <2>2 DEF RunUnit, UnitTypes, LogInv
  <2>3. CASE /\ job[k] = "absent" /\ runs < MaxRuns
             /\ job' = [job EXCEPT ![k] = "queued"]
             /\ runs' = runs + 1 /\ ran' = [ran EXCEPT ![k] = runs']
    <3>1. runs' \in 1..MaxRuns
      BY <2>3, Constants DEF Inv, Counters
    <3>2. UNCHANGED <<try, logged>>
      BY <1>5 DEF RunUnit
    <3>3. UnitTypes'
      BY <1>0, <2>1, <2>3, <3>1, <3>2, Constants DEF UnitTypes, Steps
    <3>4. LogInv'
      BY <1>0, <2>1, <2>3, <3>2 DEF UnitTypes, LogInv
    <3> QED
      BY <3>3, <3>4
  <2> QED
    BY <1>5, <2>2, <2>3 DEF RunUnit, Goto
<1>6. CASE Fetch
  <2>1. "update" \in Kinds /\ job["update"] = "fetch"
    BY <1>6 DEF Fetch, At
  <2>2. CASE Exits("update", 1)
    BY <2>1, <2>2, ExitTypes
  <2>3. CASE Goto("update", "pip") /\ try' = 1 /\ UNCHANGED <<logged, ran>>
    <3>1. try' \in 0..Attempts
      BY <2>3, Constants
    <3> QED
      BY <2>1, <2>3, <3>1, GoesOn DEF Goto, Steps
  <2> QED
    BY <1>6, <2>2, <2>3 DEF Fetch
<1>7. CASE PipFails
  <2>1. "update" \in Kinds /\ job["update"] = "pip"
    BY <1>7 DEF PipFails, At
  <2>2. CASE Exits("update", 1)
    BY <2>1, <2>2, ExitTypes
  <2>3. CASE try < Attempts /\ try' = try + 1 /\ UNCHANGED <<job, logged, ran>>
    <3>1. try' \in 0..Attempts
      BY <1>0, <2>3, Constants DEF UnitTypes
    <3> QED
      BY <1>0, <2>3, <3>1 DEF UnitTypes, LogInv
  <2> QED
    BY <1>7, <2>2, <2>3 DEF PipFails
<1>8. CASE Unpack \/ Installed \/ Service \/ Provision
  <2>1. "update" \in Kinds /\ job["update"] \in {"pip", "unpack", "service", "provision"}
    BY <1>8 DEF Unpack, Installed, Service, Provision, At
  <2>2. (\E code \in {0, 1, 2} : Exits("update", code)) \/
        (\E step \in {"unpack", "service", "provision"} :
            Goto("update", step) /\ (try' = 0 \/ UNCHANGED try) /\ UNCHANGED <<logged, ran>>)
    BY <1>8 DEF Unpack, Installed, Service, Provision
  <2>3. ASSUME NEW code \in {0, 1, 2}, Exits("update", code) PROVE UnitTypes' /\ LogInv'
    BY <2>1, <2>3, ExitTypes
  <2>4. ASSUME NEW step \in {"unpack", "service", "provision"}, Goto("update", step),
               try' = 0 \/ UNCHANGED try, UNCHANGED <<logged, ran>>
        PROVE  UnitTypes' /\ LogInv'
    <3>1. try' \in 0..Attempts
      BY <1>0, <2>4, Constants DEF UnitTypes
    <3> QED
      BY <2>1, <2>4, <3>1, GoesOn DEF Goto, Steps
  <2> QED
    BY <2>2, <2>3, <2>4
<1>9. CASE RemovePanel
  BY <1>0, <1>9, GoesOn DEF RemovePanel, At, Goto, Steps, UnitTypes
<1>10. CASE RemoveFiles
  <2>1. /\ "uninstall" \in Kinds /\ job["uninstall"] = "rm_files"
        /\ job' = [job EXCEPT !["uninstall"] = "rm_program"]
        /\ logged' = [k \in Kinds |-> None] /\ UNCHANGED <<try, ran>>
    BY <1>10 DEF RemoveFiles, At, Goto
  <2>2. UnitTypes'
    BY <1>0, <2>1 DEF UnitTypes, Steps
  <2>3. LogInv'
    BY <2>1 DEF LogInv
  <2> QED
    BY <2>2, <2>3
<1>11. CASE RemoveProgram
  <2>1. /\ "uninstall" \in Kinds /\ job["uninstall"] = "rm_program"
        /\ job' = [job EXCEPT !["uninstall"] = "absent"] /\ UNCHANGED <<try, ran>>
        /\ logged' = [logged EXCEPT !["uninstall"] =
               IF "logs" \in files THEN [run |-> ran["uninstall"], code |-> 0] ELSE None]
    BY <1>11 DEF RemoveProgram, At, Goto, Log
  <2>2. [run |-> ran["uninstall"], code |-> 0] \in Line
    BY <1>0, <2>1 DEF UnitTypes, Line
  <2>3. UnitTypes'
    BY <1>0, <2>1, <2>2 DEF UnitTypes, Steps
  <2>4. LogInv'
    BY <1>0, <2>1 DEF UnitTypes, LogInv
  <2> QED
    BY <2>3, <2>4
<1>12. ASSUME NEW k \in Kinds, Launch(k) PROVE UNCHANGED units
  BY <1>12 DEF Launch
<1>13. CASE LoginFails \/ LoginSucceeds \/ Tick \/ PanelDies \/ PanelReturns \/ UNCHANGED vars
  BY <1>1, <1>13 DEF LoginFails, LoginSucceeds, Tick, PanelDies, PanelReturns, vars
<1> QED
  BY <1>1, <1>2, <1>3, <1>4, <1>5, <1>6, <1>7, <1>8, <1>9, <1>10, <1>11, <1>12, <1>13
     DEF Next, Update, Uninstall

LEMMA LoginTypesStep ==
    ASSUME Inv, [Next]_vars
    PROVE  LoginTypes'
<1> USE DEF service, units, login
<1>0. LoginTypes
  BY DEF Inv
<1>1. CASE UNCHANGED <<launch, login>>
  BY <1>0, <1>1 DEF LoginTypes
<1>2. CASE Forgotten
  BY <1>2, Constants DEF Forgotten, LoginTypes, NoBucket, NoGuesses
<1>3. ASSUME NEW k \in Kinds, Launch(k) \/ Start(k) \/ JobDies(k) PROVE LoginTypes'
  BY <1>0, <1>1, <1>3 DEF LoginTypes, Launch, Start, JobDies
<1>4. CASE Truncate
  BY <1>0, <1>4 DEF LoginTypes, Truncate, NoLaunch
<1>5. CASE RunUnit
  BY <1>0, <1>5 DEF LoginTypes, RunUnit
<1>6. CASE Update
  BY <1>1, <1>2, <1>6 DEF Update, Fetch, PipFails, Unpack, Installed, Service, Restarted, Provision
<1>7. CASE Uninstall
  BY <1>1, <1>2, <1>7 DEF Uninstall, RemovePanel, RemoveFiles, RemoveProgram, Forgotten, LoginTypes
<1>8. CASE LoginFails
  <2>1. bucket' \in [failures : 0..(Limit - 1), locked : 0..Lockout]
    BY <1>0, <1>8, Constants DEF LoginTypes, LoginFails, Failure
  <2>2. guesses' \in [1..(Limit + 1) -> 0..Lockout]
    <3>1. guesses \in [1..(Limit + 1) -> 0..Lockout]
      BY <1>0 DEF LoginTypes
    <3>2. \A i \in 1..(Limit + 1) : i # 1 => i - 1 \in 1..(Limit + 1)
      BY Constants
    <3>3. guesses' = [i \in 1..(Limit + 1) |-> IF i = 1 THEN 0 ELSE guesses[i - 1]]
      BY <1>8 DEF LoginFails
    <3>4. 0 \in 0..Lockout
      BY Constants
    <3> QED
      BY <3>1, <3>2, <3>3, <3>4
  <2> QED
    BY <1>0, <1>8, <2>1, <2>2 DEF LoginTypes, LoginFails
<1>9. CASE LoginSucceeds
  BY <1>0, <1>9, Constants DEF LoginTypes, LoginSucceeds, NoBucket, NoGuesses
<1>10. CASE Tick
  <2>0. \A n \in 0..Lockout : (IF n = 0 THEN 0 ELSE n - 1) \in 0..Lockout
    BY Constants
  <2>1. bucket' \in [failures : 0..(Limit - 1), locked : 0..Lockout]
    BY <1>0, <1>10, <2>0 DEF LoginTypes, Tick
  <2>2. guesses' \in [1..(Limit + 1) -> 0..Lockout]
    BY <1>0, <1>10, Constants DEF LoginTypes, Tick
  <2> QED
    BY <1>0, <1>10, <2>1, <2>2 DEF LoginTypes, Tick
<1>11. CASE PanelDies \/ PanelReturns \/ UNCHANGED vars
  BY <1>1, <1>2, <1>11 DEF PanelDies, PanelReturns, vars
<1> QED
  BY <1>3, <1>4, <1>5, <1>6, <1>7, <1>8, <1>9, <1>10, <1>11 DEF Next

LEMMA CountersStep ==
    ASSUME Inv, [Next]_vars
    PROVE  Counters'
<1> USE DEF service, units, login
<1>0. Counters
  BY DEF Inv
<1>1. \A f : Fault(f) => faults' \in 0..MaxFaults
  BY <1>0, Constants DEF Fault, Counters
<1>2. faults' \in 0..MaxFaults
  <2>1. faults' = faults \/ \E f : Fault(f)
    BY DEF Next, Update, Uninstall, Launch, Start, JobDies, Truncate, RunUnit, Fetch, PipFails, Unpack,
           Installed, Service, Restarted, Provision, RemovePanel, RemoveFiles, RemoveProgram, LoginFails,
           LoginSucceeds, Tick, PanelDies, PanelReturns, vars, Calm
  <2> QED
    BY <1>0, <1>1, <2>1 DEF Counters
<1>3. CASE RunUnit
  BY <1>0, <1>2, <1>3, Constants DEF Counters, RunUnit
<1>4. CASE ~RunUnit
  <2>1. runs' = runs
    BY <1>4 DEF Next, Update, Uninstall, Launch, Start, JobDies, Truncate, Fetch, PipFails, Unpack,
           Installed, Service, Provision, RemovePanel, RemoveFiles, RemoveProgram, LoginFails,
           LoginSucceeds, Tick, PanelDies, PanelReturns, vars
  <2> QED
    BY <1>0, <1>2, <2>1 DEF Counters
<1> QED
  BY <1>3, <1>4

-----------------------------------------------------------------------------
(* The fetched version.                                                    *)

(* Other jobs and the panel leave an update's label, program and checkout  *)
(* as they are, or delete the program.                                     *)
LEMMA FetchedKept ==
    ASSUME Inv, source' = source, program' \in {program, None},
           \A k \in Kinds : job'[k] \in {"service", "provision"} => job'[k] = job[k],
           restarted' = restarted,
           panel' \in {panel, None} \/ (Runnable /\ panel' = program)
    PROVE  FetchedInv'
<1>1. FetchedInv
  BY DEF Inv
<1>2. Runnable => program # None
  BY Constants DEF Runnable
<1> QED
  BY <1>1, <1>2 DEF FetchedInv

LEMMA FetchedStep ==
    ASSUME Inv, [Next]_vars
    PROVE  FetchedInv'
<1> USE DEF service, units, login
<1>0. FetchedInv /\ job \in [Kinds -> Steps]
  BY DEF Inv, UnitTypes
<1>1. ASSUME NEW k \in Kinds, NEW step, step \notin {"service", "provision"}, Goto(k, step)
      PROVE  \A l \in Kinds : job'[l] \in {"service", "provision"} => job'[l] = job[l]
  BY <1>0, <1>1 DEF Goto
<1>2. ASSUME NEW k \in Kinds, Launch(k) \/ Start(k) \/ JobDies(k) PROVE FetchedInv'
  <2>1. UNCHANGED job \/ \E step : step \notin {"service", "provision"} /\ Goto(k, step)
    BY <1>2 DEF Launch, Start, JobDies, Exits
  <2>2. UNCHANGED service
    BY <1>2 DEF Launch, Start, JobDies
  <2> QED
    BY <1>1, <2>1, <2>2, FetchedKept
<1>3. CASE Truncate \/ PipFails \/ RemovePanel \/ RemoveFiles \/ RemoveProgram \/ Provision \/ Unpack
           \/ Fetch
  <2>1. \/ UNCHANGED job
        \/ \E k \in Kinds : \E step : step \notin {"service", "provision"} /\ Goto(k, step)
    BY <1>3 DEF Truncate, PipFails, RemovePanel, RemoveFiles, RemoveProgram, Provision, Unpack, Fetch,
                Exits, At
  <2>2. \A l \in Kinds : job'[l] \in {"service", "provision"} => job'[l] = job[l]
    BY <1>1, <2>1
  <2>3. CASE Unpack \/ Fetch
    <3>1. "update" \in Kinds /\ job["update"] \in {"pip", "fetch"}
      BY <2>3 DEF Unpack, Fetch, At
    <3>2. \A k \in Kinds : job'[k] \notin {"service", "provision"}
      BY <1>0, <2>2, <3>1 DEF FetchedInv
    <3> QED
      BY <3>2 DEF FetchedInv
  <2>4. CASE ~(Unpack \/ Fetch)
    <3>1. /\ source' = source /\ program' \in {program, None} /\ panel' \in {panel, None}
          /\ restarted' = restarted
      BY <1>3, <2>4 DEF Truncate, PipFails, RemovePanel, RemoveFiles, RemoveProgram, Provision
    <3> QED
      BY <2>2, <3>1, FetchedKept
  <2> QED
    BY <2>3, <2>4
<1>4. CASE RunUnit
  <2>1. UNCHANGED job \/ (launch.kind \in Kinds /\ Goto(launch.kind, "queued"))
    BY <1>4 DEF RunUnit, Inv, LoginTypes, NoLaunch
  <2>2. UNCHANGED service
    BY <1>4 DEF RunUnit
  <2> QED
    BY <1>1, <2>1, <2>2, FetchedKept
<1>5. CASE Installed
  <2>1. "update" \in Kinds /\ job["update"] = "unpack" /\ UNCHANGED <<panel, source, restarted>>
    BY <1>5 DEF Installed, At
  <2>2. CASE program' = source /\ Goto("update", "service")
    BY <1>0, <2>1, <2>2 DEF FetchedInv, Goto
  <2>3. CASE Exits("update", 1) /\ UNCHANGED program
    BY <1>1, <2>1, <2>3, FetchedKept DEF Exits
  <2> QED
    BY <1>5, <2>2, <2>3 DEF Installed
<1>6. CASE Service
  <2>1. "update" \in Kinds /\ job["update"] = "service" /\ UNCHANGED <<program, source>>
    BY <1>6 DEF Service, At
  <2>2. program \in {source, None}
    BY <1>0, <2>1 DEF FetchedInv
  <2>3. CASE Restarted /\ Goto("update", "provision")
    <3>1. restarted' => panel' \in {source, None}
      BY <2>2, <2>3, Constants DEF Restarted, Runnable
    <3> QED
      BY <1>0, <2>1, <2>2, <2>3, <3>1 DEF FetchedInv, Goto
  <2>4. CASE Exits("update", 1) /\ UNCHANGED <<panel, restarted>>
    BY <1>1, <2>1, <2>4, FetchedKept DEF Exits
  <2> QED
    BY <1>6, <2>3, <2>4 DEF Service
<1>7. CASE LoginFails \/ LoginSucceeds \/ Tick \/ PanelDies \/ PanelReturns \/ UNCHANGED vars
  <2>1. UNCHANGED <<job, program, source, restarted>>
    BY <1>7 DEF LoginFails, LoginSucceeds, Tick, PanelDies, PanelReturns, vars
  <2>2. panel' \in {panel, None} \/ (Runnable /\ panel' = program)
    BY <1>7 DEF LoginFails, LoginSucceeds, Tick, PanelDies, PanelReturns, vars
  <2> QED
    BY <2>1, <2>2, FetchedKept
<1> QED
  BY <1>2, <1>3, <1>4, <1>5, <1>6, <1>7 DEF Next, Update, Uninstall

-----------------------------------------------------------------------------
(* The throttle.                                                           *)

LEMMA FailureKeepsThrottle ==
    ASSUME Inv, LoginFails
    PROVE  ThrottleInv'
<1> DEFINE n == bucket.failures
<1>1. /\ guesses \in [1..(Limit + 1) -> 0..Lockout]
      /\ bucket \in [failures : 0..(Limit - 1), locked : 0..Lockout]
  BY DEF Inv, LoginTypes
<1>2. n \in 0..(Limit - 1) /\ bucket.locked = 0
  BY <1>1, Constants DEF LoginFails, Locked
<1>3. \A i \in 1..(Limit + 1) : i > n => guesses[i] = Lockout
  BY <1>2 DEF Inv, ThrottleInv, LoginFails
<1>4. \A i \in 1..(Limit + 1) : guesses'[i] = IF i = 1 THEN 0 ELSE guesses[i - 1]
  BY DEF LoginFails
<1>5. \A i \in 1..(Limit + 1) : i > n + 1 => i # 1 /\ i - 1 \in 1..(Limit + 1) /\ i - 1 > n
  BY <1>2, Constants
<1>6. \A i \in 1..(Limit + 1) : i > n + 1 => guesses'[i] = Lockout
  BY <1>3, <1>4, <1>5
<1>7. CASE n + 1 >= Limit
  <2>1. bucket' = [failures |-> 0, locked |-> Lockout]
    BY <1>7 DEF LoginFails, Failure
  <2>2. Limit + 1 \in 1..(Limit + 1) /\ Limit + 1 > n + 1
    BY <1>2, Constants
  <2>3. guesses'[Limit + 1] = Lockout
    BY <1>6, <2>2
  <2>4. \A i \in 1..Limit : guesses'[i] \in 0..Lockout
    <3>1. \A i \in 1..Limit : i \in 1..(Limit + 1) /\ (i = 1 \/ i - 1 \in 1..(Limit + 1))
      BY Constants
    <3>2. 0 \in 0..Lockout
      BY Constants
    <3> QED
      BY <1>1, <1>4, <3>1, <3>2
  <2>5. \A i \in 1..Limit : guesses'[i] + Lockout >= Lockout
    BY <2>4, Constants
  <2> QED
    BY <2>1, <2>3, <2>5, Constants DEF ThrottleInv, Locked
<1>8. CASE ~(n + 1 >= Limit)
  <2>1. bucket'.failures = n + 1 /\ bucket'.locked = 0
    BY <1>1, <1>2, <1>8 DEF LoginFails, Failure
  <2> QED
    BY <1>6, <2>1 DEF ThrottleInv, Locked
<1> QED
  BY <1>7, <1>8

LEMMA TickKeepsThrottle ==
    ASSUME Inv, Tick
    PROVE  ThrottleInv'
<1>1. /\ guesses \in [1..(Limit + 1) -> 0..Lockout]
      /\ bucket \in [failures : 0..(Limit - 1), locked : 0..Lockout]
  BY DEF Inv, LoginTypes
<1>2. \A i \in 1..(Limit + 1) :
          guesses'[i] = IF guesses[i] = Lockout THEN Lockout ELSE guesses[i] + 1
  BY DEF Tick
<1>3. /\ bucket'.failures = bucket.failures
      /\ bucket'.locked = IF bucket.locked = 0 THEN 0 ELSE bucket.locked - 1
  BY <1>1 DEF Tick
<1>4. CASE bucket.locked = 0
  BY <1>2, <1>3, <1>4 DEF Inv, ThrottleInv, Locked
<1>5. CASE bucket.locked > 0
  <2>1. bucket.failures = 0 /\ guesses[Limit + 1] = Lockout
    BY <1>5 DEF Inv, ThrottleInv, Locked
  <2>2. \A i \in 1..Limit : guesses[i] + bucket.locked >= Lockout
    BY <1>5 DEF Inv, ThrottleInv, Locked
  <2>3. guesses'[Limit + 1] = Lockout
    BY <1>2, <2>1, Constants
  <2>4. \A i \in 1..Limit : i \in 1..(Limit + 1) /\ guesses[i] \in 0..Lockout
    BY <1>1, Constants
  <2> DEFINE left == bucket.locked
  <2>10. left \in 1..Lockout /\ bucket'.locked = left - 1
    BY <1>1, <1>3, <1>5, Constants
  <2>11. \A g \in 0..Lockout : g # Lockout /\ g + left >= Lockout =>
            g + 1 \in 0..Lockout /\ g + 1 + (left - 1) >= Lockout
    BY <2>10, Constants
  <2>5. ASSUME NEW i \in 1..Limit
        PROVE  guesses'[i] \in 0..Lockout /\ guesses'[i] + bucket'.locked >= Lockout
    <3>1. i \in 1..(Limit + 1) /\ guesses[i] \in 0..Lockout /\ guesses[i] + left >= Lockout
      BY <2>2, <2>4
    <3>2. CASE guesses[i] = Lockout
      BY <1>2, <2>10, <3>1, <3>2, Constants
    <3>3. CASE guesses[i] # Lockout
      <4>1. guesses'[i] = guesses[i] + 1
        BY <1>2, <3>1, <3>3
      <4> QED
        BY <2>10, <2>11, <3>1, <3>3, <4>1
    <3> QED
      BY <3>2, <3>3
  <2>6. \A i \in 1..(Limit + 1) : i \in 1..Limit \/ i = Limit + 1
    BY Constants
  <2>7. bucket'.locked = 0 => \A i \in 1..(Limit + 1) : guesses'[i] = Lockout
    BY <2>3, <2>5, <2>6, Constants
  <2>8. bucket'.locked \in Nat /\ bucket'.failures = 0
    BY <1>3, <2>1, <2>10, Constants
  <2>9. ~Locked' => bucket'.locked = 0
    BY <2>8 DEF Locked
  <2> QED
    BY <2>3, <2>5, <2>7, <2>8, <2>9 DEF ThrottleInv
<1> QED
  BY <1>1, <1>4, <1>5, Constants

LEMMA ThrottleStep ==
    ASSUME Inv, [Next]_vars
    PROVE  ThrottleInv'
<1> USE DEF service, units, login
<1>1. CASE UNCHANGED login
  BY <1>1 DEF Inv, ThrottleInv, Locked
<1>2. CASE bucket' = NoBucket /\ guesses' = NoGuesses
  BY <1>2, Constants DEF ThrottleInv, Locked, NoBucket, NoGuesses
<1>3. ASSUME NEW k \in Kinds, Launch(k) \/ Start(k) \/ JobDies(k) PROVE ThrottleInv'
  BY <1>1, <1>3 DEF Launch, Start, JobDies
<1>4. CASE Truncate \/ RunUnit
  BY <1>1, <1>4 DEF Truncate, RunUnit
<1>5. CASE Update
  BY <1>1, <1>2, <1>5 DEF Update, Fetch, PipFails, Unpack, Installed, Service, Restarted, Provision, Forgotten
<1>6. CASE Uninstall
  BY <1>1, <1>2, <1>6 DEF Uninstall, RemovePanel, RemoveFiles, RemoveProgram, Forgotten
<1>7. CASE LoginSucceeds \/ PanelDies \/ PanelReturns \/ UNCHANGED vars
  BY <1>1, <1>2, <1>7 DEF LoginSucceeds, PanelDies, PanelReturns, Forgotten, vars
<1> QED
  BY <1>3, <1>4, <1>5, <1>6, <1>7, FailureKeepsThrottle, TickKeepsThrottle DEF Next

-----------------------------------------------------------------------------
(* The theorems.                                                           *)

LEMMA Invariant == Spec => []Inv
<1>1. Inv /\ [Next]_vars => Inv'
  BY ServiceTypesStep, UnitsStep, LoginTypesStep, CountersStep, FetchedStep, ThrottleStep DEF Inv
<1> QED
  BY InitInv, <1>1, PTL DEF Spec

(* Every variable keeps its type, for any number of pip calls and runs.    *)
THEOREM ServiceTypeCorrect == Spec => []TypeOK
<1>1. Inv => TypeOK
  BY DEF Inv, TypeOK, ServiceTypes, UnitTypes, LoginTypes, Counters, Steps, Line
<1> QED
  BY <1>1, Invariant, PTL

(* The exit status that jobs.state reads is that of the last run systemd   *)
(* accepted, for any jobs, faults and restarts of the panel.               *)
THEOREM ExitIsOfTheLastRun == Spec => []ExitIsTheLastRuns
<1>1. Inv => ExitIsTheLastRuns
  BY DEF Inv, LogInv, ExitIsTheLastRuns
<1> QED
  BY <1>1, Invariant, PTL

(* While an update provisions, no panel of another version serves.         *)
THEOREM UpdatedPanelServes == Spec => []UpdateRunsWhatItFetched
<1>1. Inv => UpdateRunsWhatItFetched
  BY DEF Inv, FetchedInv, UpdateRunsWhatItFetched
<1> QED
  BY <1>1, Invariant, PTL

(* README.md:454: no span as long as the lockout sees more than max_failures *)
(* wrong passwords looked at, for any limit, any lockout and any lives of    *)
(* the panel, although record_failure counts without a window.               *)
THEOREM AttemptsStayBounded == Spec => []AttemptsBounded
<1>1. Inv => AttemptsBounded
  <2> SUFFICES ASSUME Inv PROVE guesses[Limit + 1] = Lockout
    BY DEF AttemptsBounded
  <2>1. CASE Locked
    BY <2>1 DEF Inv, ThrottleInv
  <2>2. CASE ~Locked
    <3>1. bucket.failures \in 0..(Limit - 1)
      BY DEF Inv, LoginTypes
    <3>2. Limit + 1 \in 1..(Limit + 1) /\ Limit + 1 > bucket.failures
      BY <3>1, Constants
    <3> QED
      BY <2>2, <3>2 DEF Inv, ThrottleInv
  <2> QED
    BY <2>1, <2>2
<1> QED
  BY <1>1, Invariant, PTL
=============================================================================
