----------------------------- MODULE Panel_proofs -----------------------------
(***************************************************************************)
(* Theorems about Panel, for any number of requests, commands and faults   *)
(* and whatever saves meet: types, only a save that meets another one can  *)
(* leave the file truncated, and the panel's object differs from the file  *)
(* only where the history explains it.                                     *)
(***************************************************************************)
EXTENDS Panel, FiniteSetTheorems, TLAPS

Labels == Body \cup {"idle", "begun", "asking", "working"}

Job == [op : {"none", "form", "wireguard", "cloudflare", "command"},
        ref : Objects \cup {None}, field : Fields \cup {"none"}]

\* A session holds an object for as long as it is at work, a command its own.
SessionInv(s) ==
    /\ pc[s] = "idle" => job[s] = NoJob
    /\ pc[s] # "idle" =>
           /\ job[s].ref \in Objects /\ heap[job[s].ref] # None
           /\ job[s].field \in Fields
           /\ s \in Commands => job[s].ref # cache

\* No object outlives those who hold it.
HeapInv == \A o \in Objects : heap[o] # None => o \in Held(job, cache)

StateInv ==
    /\ heap \in [Objects -> Config \cup {None}]
    /\ cache \in Objects \cup {None}
    /\ cache # None => heap[cache] # None
    /\ pc \in [Sessions -> Labels]
    /\ job \in [Sessions -> Job]
    /\ HeapInv
    /\ \A s \in Sessions : SessionInv(s)

\* A save that has met no other one is the only one, and what it has opened is
\* the temporary file.
SaveInv(s) ==
    /\ pc[s] = "write" <=> fd[s] # "closed"
    /\ s \in Saving \ met =>
           /\ Saving = {s}
           /\ pc[s] = "write" => tmp = Blank
           /\ pc[s] = "replace" => tmp \in Config
    /\ fd[s] \in {"conf", "unlinked"} => s \in met
    /\ fd[s] = "conf" => mixed

DiskInv ==
    /\ file \in Content /\ tmp \in Content \cup {None}
    /\ fd \in [Sessions -> Fds]
    /\ met \subseteq Saving /\ mixed \in BOOLEAN
    /\ \A s \in Sessions : SaveInv(s)
    /\ NeverTruncated

\* As long as no handler is between its change and the reload of the file.
Settled == \A r \in Requests : pc[r] \notin {"asking"} \cup Body

StepInv == Settled => Differing \subseteq explained

History == explained \subseteq Fields /\ begun \in 0..MaxBegun /\ faults \in 0..MaxFaults

Inv == StateInv /\ DiskInv /\ StepInv /\ History

-----------------------------------------------------------------------------
(* Constants.                                                              *)

LEMMA Constants ==
    /\ IsFiniteSet(Sessions) /\ Cardinality(Sessions) \in Nat
    /\ 1 \in Objects /\ None \notin Objects
    /\ None \notin Config /\ Blank \notin Config /\ Torn \notin Config
    /\ None \notin Content
    /\ Inputs \subseteq Settings
    /\ MaxFaults \in Nat /\ MaxBegun \in Nat
<1>1. Cardinality(Sessions) \in Nat
  BY PanelAssumption, FS_CardinalityType
<1>2. None \notin Config /\ Blank \notin Config /\ Torn \notin Config
  BY PanelAssumption
<1> QED
  BY <1>1, <1>2, PanelAssumption DEF Objects, Content

(* A file loads as a configuration, a whole one as the one it holds.       *)
LEMMA LoadingsAre ==
    ASSUME NEW text \in Content, NEW c \in Loadings(text)
    PROVE  c \in Config /\ (text \in Config => c = text)
<1>1. CASE text = Blank
  BY <1>1, Constants DEF Loadings, Defaults, Config
<1>2. CASE text = Torn
  BY <1>2, PanelAssumption, Constants DEF Loadings
<1>3. CASE text \in Config
  BY <1>3, Constants DEF Loadings
<1> QED
  BY <1>1, <1>2, <1>3 DEF Content

(* There is always an object nobody holds: one more than the sessions and  *)
(* the panel can hold.                                                     *)
LEMMA UnusedExists ==
    ASSUME StateInv
    PROVE  Unused \in Objects /\ heap[Unused] = None
<1> DEFINE n == Cardinality(Sessions)
           refs == {job[s].ref : s \in Sessions}
           ref == [s \in Sessions |-> job[s].ref]
<1>1. ref \in Surjection(Sessions, refs)
  BY DEF Surjection
<1>2. IsFiniteSet(refs) /\ Cardinality(refs) <= n
  <2> HIDE DEF ref, refs
  <2> QED
    BY <1>1, FS_Surjection, Constants
<1>3. IsFiniteSet(Held(job, cache)) /\ Cardinality(Held(job, cache)) <= n + 1
  <2>1. Cardinality(refs) \in Nat
    BY <1>2, FS_CardinalityType
  <2>2. IsFiniteSet(refs \cup {cache}) /\ Cardinality(refs \cup {cache}) <= n + 1
    <3> HIDE DEF refs, n
    <3>1. IsFiniteSet(refs \cup {cache})
      BY <1>2, FS_AddElement
    <3>2. Cardinality(refs \cup {cache}) =
              IF cache \in refs THEN Cardinality(refs) ELSE Cardinality(refs) + 1
      BY <1>2, FS_AddElement
    <3>3. n \in Nat
      BY Constants DEF n
    <3> QED
      BY <1>2, <2>1, <3>1, <3>2, <3>3
  <2> QED
    BY <2>2 DEF Held
<1>4. IsFiniteSet(Objects) /\ Cardinality(Objects) = n + 2
  BY FS_Interval, Constants DEF Objects
<1>5. \E o \in Objects : heap[o] = None
  <2> SUFFICES ASSUME \A o \in Objects : heap[o] # None PROVE FALSE
    OBVIOUS
  <2>1. Objects \subseteq Held(job, cache)
    BY DEF StateInv, HeapInv
  <2>2. Cardinality(Objects) <= Cardinality(Held(job, cache))
    BY <1>3, <2>1, FS_Subset
  <2>3. Cardinality(Held(job, cache)) \in Nat
    BY <1>3, FS_CardinalityType
  <2> QED
    BY <1>3, <1>4, <2>2, <2>3, Constants
<1> QED
  BY <1>5 DEF Unused

-----------------------------------------------------------------------------
(* Steps on the state.                                                     *)

(* What is still held survives a collection, and nothing else does.        *)
LEMMA CollectedKeeps ==
    ASSUME NEW h \in [Objects -> Config \cup {None}], NEW jobs, NEW c
    PROVE  /\ Collected(h, jobs, c) \in [Objects -> Config \cup {None}]
           /\ \A o \in Objects : o \in Held(jobs, c) => Collected(h, jobs, c)[o] = h[o]
           /\ \A o \in Objects : Collected(h, jobs, c)[o] # None => o \in Held(jobs, c)
           /\ \A s \in Sessions : jobs[s].ref \in Held(jobs, c)
           /\ c \in Held(jobs, c)
  BY DEF Collected, Held

(* Sessions that end let go of their objects only.                         *)
LEMMA DropInv ==
    ASSUME StateInv, NEW S \in SUBSET Sessions, NEW c \in {cache, None}, Drop(S, c)
    PROVE  /\ StateInv'
           /\ c = cache => UNCHANGED cache /\ (cache # None => heap'[cache] = heap[cache])
<1>1. /\ pc' = [s \in Sessions |-> IF s \in S THEN "idle" ELSE pc[s]]
      /\ job' = [s \in Sessions |-> IF s \in S THEN NoJob ELSE job[s]]
      /\ heap' = Collected(heap, job', c) /\ cache' = c
  BY DEF Drop
<1>2. /\ heap' \in [Objects -> Config \cup {None}]
      /\ \A o \in Objects : o \in Held(job', c) => heap'[o] = heap[o]
      /\ \A o \in Objects : heap'[o] # None => o \in Held(job', c)
      /\ \A s \in Sessions : job'[s].ref \in Held(job', c)
      /\ c \in Held(job', c)
  BY <1>1, CollectedKeeps DEF StateInv
<1>3. pc' \in [Sessions -> Labels] /\ job' \in [Sessions -> Job]
  BY <1>1 DEF StateInv, Labels, Job, NoJob
<1>4. cache' \in Objects \cup {None} /\ (cache' # None => heap'[cache'] # None)
  BY <1>1, <1>2 DEF StateInv
<1>5. HeapInv'
  BY <1>1, <1>2 DEF HeapInv
<1>6. ASSUME NEW s \in Sessions PROVE SessionInv(s)'
  <2>1. CASE s \in S
    BY <1>1, <2>1 DEF SessionInv
  <2>2. CASE s \notin S
    <3>1. pc'[s] = pc[s] /\ job'[s] = job[s] /\ SessionInv(s)
      BY <1>1, <2>2 DEF StateInv
    <3>2. pc[s] # "idle" => heap'[job[s].ref] = heap[job[s].ref]
      BY <1>2, <3>1 DEF SessionInv
    <3> QED
      BY <1>1, <3>1, <3>2, Constants DEF SessionInv
  <2> QED
    BY <2>1, <2>2
<1>7. c = cache => UNCHANGED cache /\ (cache # None => heap'[cache] = heap[cache])
  BY <1>1, <1>2 DEF StateInv
<1> QED
  BY <1>2, <1>3, <1>4, <1>5, <1>6, <1>7 DEF StateInv

(* A session goes on, and may have changed a setting of its object.        *)
LEMMA GoesOn ==
    ASSUME StateInv, NEW s \in Sessions, NEW label \in Labels \ {"idle"}, pc[s] # "idle",
           Goto(s, label), UNCHANGED <<job, cache>>,
           UNCHANGED heap \/ Submits(s)
    PROVE  /\ StateInv'
           /\ s \in Commands /\ cache # None => heap'[cache] = heap[cache]
<1>0. /\ job[s].ref \in Objects /\ heap[job[s].ref] \in Config /\ job[s].field \in Fields
      /\ s \in Commands => job[s].ref # cache
  BY DEF StateInv, SessionInv
<1>1. /\ heap' \in [Objects -> Config \cup {None}]
      /\ \A o \in Objects : heap'[o] = None <=> heap[o] = None
      /\ \A o \in Objects \ {job[s].ref} : heap'[o] = heap[o]
  <2>1. CASE UNCHANGED heap
    BY <2>1 DEF StateInv
  <2>2. CASE Submits(s)
    <3>1. PICK v \in Inputs : heap' = [heap EXCEPT ![job[s].ref][job[s].field] = v]
      BY <2>2 DEF Submits
    <3>2. [heap[job[s].ref] EXCEPT ![job[s].field] = v] \in Config
      BY <1>0, <3>1, Constants DEF Config
    <3>3. heap' = [heap EXCEPT ![job[s].ref] = [heap[job[s].ref] EXCEPT ![job[s].field] = v]]
      BY <3>1
    <3> QED
      BY <1>0, <3>2, <3>3, Constants DEF StateInv
  <2> QED
    BY <2>1, <2>2
<1>2. pc' \in [Sessions -> Labels] /\ pc' = [pc EXCEPT ![s] = label]
  BY DEF StateInv, Goto
<1>3. HeapInv'
  BY <1>1 DEF StateInv, HeapInv, Held
<1>4. ASSUME NEW t \in Sessions PROVE SessionInv(t)'
  <2>1. SessionInv(t) /\ (pc'[t] = "idle" <=> pc[t] = "idle")
    BY <1>2 DEF StateInv
  <2> QED
    BY <1>1, <2>1 DEF SessionInv
<1>5. s \in Commands /\ cache # None => heap'[cache] = heap[cache]
  BY <1>0, <1>1 DEF StateInv
<1> QED
  BY <1>1, <1>2, <1>3, <1>4, <1>5 DEF StateInv

(* A session begins with the panel's object, or with a new one.            *)
LEMMA Begins ==
    ASSUME StateInv, NEW s \in Sessions, pc[s] = "idle",
           NEW label \in Labels \ {"idle"}, Goto(s, label),
           NEW o \in Objects, NEW op, NEW f \in Fields,
           job' = [job EXCEPT ![s] = [op |-> op, ref |-> o, field |-> f]],
           op \in {"form", "wireguard", "cloudflare", "command"},
           UNCHANGED cache, NEW c \in Config,
           \/ UNCHANGED heap /\ s \in Requests /\ o = cache
           \/ heap[o] = None /\ heap' = [heap EXCEPT ![o] = c]
    PROVE  /\ StateInv'
           /\ cache # None => heap'[cache] = heap[cache]
<1>1. /\ heap' \in [Objects -> Config \cup {None}] /\ heap'[o] # None
      /\ \A p \in Objects : heap[p] # None => heap'[p] = heap[p]
      /\ \A p \in Objects \ {o} : heap'[p] = heap[p]
      /\ s \in Commands => o # cache
  <2>1. Requests \cap Commands = {}
    BY PanelAssumption
  <2> QED
    BY <2>1, Constants DEF StateInv
<1>2. pc' \in [Sessions -> Labels] /\ pc' = [pc EXCEPT ![s] = label]
  BY DEF StateInv, Goto
<1>3. job' \in [Sessions -> Job] /\ job[s] = NoJob
  BY DEF StateInv, Job, SessionInv
<1>4. HeapInv'
  <2> SUFFICES ASSUME NEW p \in Objects, heap'[p] # None PROVE p \in Held(job', cache')
    BY DEF HeapInv
  <2>1. CASE p = o
    BY <1>3, <2>1 DEF Held
  <2>2. CASE p # o
    <3>1. p \in Held(job, cache)
      BY <1>1, <2>2 DEF StateInv, HeapInv
    <3>2. p # job[s].ref
      BY <1>3, Constants DEF NoJob
    <3> QED
      BY <3>1, <3>2 DEF Held, StateInv
  <2> QED
    BY <2>1, <2>2
<1>5. ASSUME NEW t \in Sessions PROVE SessionInv(t)'
  <2>1. CASE t = s
    BY <1>1, <1>2, <2>1 DEF SessionInv, StateInv
  <2>2. CASE t # s
    <3>1. pc'[t] = pc[t] /\ job'[t] = job[t] /\ SessionInv(t)
      BY <1>2, <2>2 DEF StateInv
    <3> QED
      BY <1>1, <3>1 DEF SessionInv
  <2> QED
    BY <2>1, <2>2
<1>6. cache # None => heap'[cache] = heap[cache]
  BY <1>1 DEF StateInv
<1> QED
  BY <1>1, <1>2, <1>3, <1>4, <1>5, <1>6 DEF StateInv

(* The panel loads the file into a new object.                             *)
LEMMA Loading ==
    ASSUME StateInv, NEW S \in SUBSET Sessions, file \in Content, NEW c \in Loadings(file),
           pc' = [s \in Sessions |-> IF s \in S THEN "idle" ELSE pc[s]],
           job' = [s \in Sessions |-> IF s \in S THEN NoJob ELSE job[s]],
           cache' = Unused, UNCHANGED file,
           \/ heap' = Collected([heap EXCEPT ![Unused] = c], job', Unused)
           \/ heap' = [heap EXCEPT ![Unused] = c] /\ cache = None /\ S = {}
    PROVE  StateInv' /\ Differing' = {}
<1> DEFINE h == [heap EXCEPT ![Unused] = c]
<1>1. /\ Unused \in Objects /\ heap[Unused] = None
      /\ c \in Config /\ c # None /\ (file \in Config => c = file)
  BY UnusedExists, LoadingsAre, Constants
<1>2. h \in [Objects -> Config \cup {None}]
  BY <1>1 DEF StateInv
<1>3. /\ heap' \in [Objects -> Config \cup {None}]
      /\ \A o \in Objects : o \in Held(job', cache') => heap'[o] = h[o]
      /\ \A o \in Objects : heap'[o] # None => o \in Held(job', cache')
  <2>1. CASE heap' = Collected(h, job', Unused)
    <3> HIDE DEF h
    <3> QED
      BY <1>2, <2>1, CollectedKeeps
  <2>2. CASE heap' = h /\ cache = None /\ S = {}
    <3>1. job' = job
      BY <2>2 DEF StateInv
    <3>2. \A o \in Objects : heap'[o] # None => o = Unused \/ o \in Held(job, cache)
      BY <1>1, <2>2 DEF StateInv, HeapInv
    <3> QED
      BY <1>2, <2>2, <3>1, <3>2, Constants DEF Held
  <2> QED
    BY <1>1, <2>1, <2>2
<1>4. /\ \A s \in Sessions : job'[s].ref \in Held(job', cache')
      /\ cache' \in Held(job', cache')
  BY DEF Held
<1>5. heap'[cache'] = c
  BY <1>1, <1>3, <1>4 DEF StateInv
<1>6. pc' \in [Sessions -> Labels] /\ job' \in [Sessions -> Job]
  BY DEF StateInv, Labels, Job, NoJob
<1>7. HeapInv'
  BY <1>3 DEF HeapInv
<1>8. ASSUME NEW s \in Sessions PROVE SessionInv(s)'
  <2>1. CASE s \in S
    BY <2>1 DEF SessionInv
  <2>2. CASE s \notin S
    <3>1. pc'[s] = pc[s] /\ job'[s] = job[s] /\ SessionInv(s)
      BY <2>2 DEF StateInv
    <3>2. pc[s] # "idle" => job[s].ref # Unused /\ heap'[job[s].ref] = heap[job[s].ref]
      BY <1>1, <1>3, <1>4, <3>1 DEF SessionInv, StateInv
    <3> QED
      BY <3>1, <3>2 DEF SessionInv
  <2> QED
    BY <2>1, <2>2
<1>9. Differing' = {}
  BY <1>1, <1>5 DEF Differing, Content
<1> QED
  BY <1>1, <1>3, <1>5, <1>6, <1>7, <1>8, <1>9 DEF StateInv

-----------------------------------------------------------------------------
(* The actions.                                                            *)

LEMMA DifferingKept ==
    ASSUME UNCHANGED <<file, cache>>, cache # None => heap'[cache] = heap[cache]
    PROVE  Differing' = Differing
  BY DEF Differing

(* A handler that has changed its object is not settled; a command changes *)
(* an object that is not the panel's.                                      *)
LEMMA ChangeStep ==
    ASSUME Inv, NEW s \in Sessions, NEW label \in {"asking"} \cup Body, pc[s] # "idle",
           Goto(s, label), UNCHANGED <<job, cache>>,
           \/ s \in Requests
           \/ UNCHANGED <<file, explained>>
           \/ explained' = Differing',
           UNCHANGED heap \/ Submits(s)
    PROVE  StateInv' /\ StepInv'
<1>0. StateInv /\ StepInv
  BY DEF Inv
<1>1. /\ StateInv'
      /\ s \in Commands /\ cache # None => heap'[cache] = heap[cache]
  BY <1>0, GoesOn DEF Labels, Body
<1>2. pc' = [pc EXCEPT ![s] = label] /\ pc \in [Sessions -> Labels]
  BY <1>0 DEF Goto, StateInv
<1>3. CASE s \in Requests
  BY <1>1, <1>2, <1>3 DEF StepInv, Settled, Body
<1>5. CASE explained' = Differing'
  BY <1>1, <1>5 DEF StepInv
<1>4. CASE s \in Commands /\ s \notin Requests /\ UNCHANGED <<file, explained>>
  <2>1. Differing' = Differing
    BY <1>1, <1>4, DifferingKept
  <2>2. Settled' => Settled
    BY <1>2, <1>4 DEF Settled, Sessions
  <2> QED
    BY <1>0, <1>1, <1>4, <2>1, <2>2 DEF StepInv
<1> QED
  BY <1>3, <1>4, <1>5 DEF Sessions

(* A session ends without loading the file.                                *)
LEMMA EndStep ==
    ASSUME Inv, NEW s \in Sessions, Drop({s}, cache), UNCHANGED file,
           \/ explained' = Differing
           \/ UNCHANGED explained /\ (s \in Commands \/ pc[s] = "begun")
    PROVE  StateInv' /\ StepInv'
<1>0. StateInv /\ StepInv
  BY DEF Inv
<1>1. StateInv' /\ UNCHANGED cache /\ (cache # None => heap'[cache] = heap[cache])
  BY <1>0, DropInv DEF StateInv
<1>2. Differing' = Differing
  BY <1>1, DifferingKept
<1>3. CASE explained' = Differing
  BY <1>1, <1>2, <1>3 DEF StepInv
<1>4. CASE UNCHANGED explained /\ (s \in Commands \/ pc[s] = "begun")
  <2>1. pc' = [t \in Sessions |-> IF t \in {s} THEN "idle" ELSE pc[t]]
    BY DEF Drop
  <2>2. Requests \cap Commands = {} /\ Requests \subseteq Sessions
    BY PanelAssumption DEF Sessions
  <2>3. Settled' => Settled
    BY <1>4, <2>1, <2>2 DEF Settled, Body
  <2> QED
    BY <1>0, <1>1, <1>2, <1>4, <2>3 DEF StepInv
<1> QED
  BY <1>3, <1>4

LEMMA BeginStep ==
    ASSUME Inv, NEW s \in Sessions, BeginForm(s) \/ \E f \in Fields : BeginCommand(s, f)
    PROVE  StateInv' /\ StepInv'
<1>0. StateInv /\ StepInv /\ file \in Content /\ Fresh \in Config
  BY DEF Inv, DiskInv, Fresh, Config, Settings
<1>1. CASE BeginForm(s)
  <2>1. PICK op \in {"form", "wireguard", "cloudflare"}, f \in Fields : Begin(s, op, f)
    BY <1>1 DEF BeginForm, Fields
  <2>2. /\ s \in Requests /\ cache # None /\ pc[s] = "idle" /\ Goto(s, "begun")
        /\ job' = [job EXCEPT ![s] = [op |-> op, ref |-> cache, field |-> f]]
        /\ UNCHANGED <<file, heap, cache, explained>>
    BY <2>1 DEF Begin, disk
  <2>3. cache \in Objects
    BY <1>0, <2>2 DEF StateInv
  <2>4. StateInv' /\ (cache # None => heap'[cache] = heap[cache])
    BY <1>0, <2>2, <2>3, Begins DEF Labels
  <2>5. Differing' = Differing
    BY <2>2, <2>4, DifferingKept
  <2>6. Settled' => Settled
    BY <1>0, <2>2 DEF Settled, Goto, StateInv, Body
  <2> QED
    BY <1>0, <2>2, <2>4, <2>5, <2>6 DEF StepInv
<1>2. ASSUME NEW f \in Fields, BeginCommand(s, f) PROVE StateInv' /\ StepInv'
  <2>1. PICK c \in Loadings(file) : heap' = [heap EXCEPT ![Unused] = c]
    BY <1>2 DEF BeginCommand
  <2>c. c \in Config
    BY <1>0, LoadingsAre
  <2>2. /\ pc[s] = "idle" /\ Goto(s, "working")
        /\ job' = [job EXCEPT ![s] = [op |-> "command", ref |-> Unused, field |-> f]]
        /\ UNCHANGED <<file, cache, explained>>
    BY <1>2 DEF BeginCommand, disk
  <2>3. Unused \in Objects /\ heap[Unused] = None
    BY <1>0, UnusedExists
  <2>4. StateInv' /\ (cache # None => heap'[cache] = heap[cache])
    BY <1>0, <2>1, <2>c, <2>2, <2>3, Begins DEF Labels
  <2>5. Differing' = Differing
    BY <2>2, <2>4, DifferingKept
  <2>6. Settled' => Settled
    BY <1>0, <2>2 DEF Settled, Goto, StateInv, Body
  <2> QED
    BY <1>0, <2>2, <2>4, <2>5, <2>6 DEF StepInv
<1> QED
  BY <1>1, <1>2

(* A handler is not settled while it saves; what a command does to the     *)
(* file explains itself.                                                   *)
LEMMA WriteStep ==
    ASSUME Inv, NEW s \in Sessions, Write(s)
    PROVE  StateInv' /\ StepInv'
<1>1. /\ pc[s] = "write" /\ Goto(s, "replace") /\ UNCHANGED <<heap, job, cache>>
      /\ UNCHANGED <<file, explained>> \/ explained' = Differing'
  BY DEF Write
<1> QED
  BY <1>1, ChangeStep DEF Body

LEMMA ReplaceStep ==
    ASSUME Inv, NEW s \in Sessions, Replace(s)
    PROVE  StateInv' /\ StepInv'
<1>0. StateInv /\ pc[s] = "replace"
  BY DEF Inv, Replace
<1>1. CASE tmp = None
  BY <1>1, EndStep DEF Replace
<1>2. CASE tmp # None /\ s \in Requests
  <2>1. Goto(s, "reload") /\ UNCHANGED <<heap, cache, job>>
    BY <1>2 DEF Replace
  <2> QED
    BY <1>0, <1>2, <2>1, ChangeStep DEF Body
<1>3. CASE tmp # None /\ s \notin Requests
  <2>1. Drop({s}, cache) /\ explained' = Differing'
    BY <1>3 DEF Replace
  <2>2. StateInv'
    BY <1>0, <2>1, DropInv
  <2> QED
    BY <2>1, <2>2 DEF StepInv
<1> QED
  BY <1>1, <1>2, <1>3

LEMMA ReloadStep ==
    ASSUME Inv, NEW s \in Sessions, Reload(s)
    PROVE  StateInv' /\ StepInv'
<1>0. StateInv /\ file \in Content
  BY DEF Inv, DiskInv
<1>1. ASSUME NEW c \in Loadings(file),
             pc' = [pc EXCEPT ![s] = "idle"], job' = [job EXCEPT ![s] = NoJob],
             cache' = Unused,
             heap' = Collected([heap EXCEPT ![Unused] = c], job', Unused)
      PROVE  StateInv' /\ StepInv'
  <2>1. UNCHANGED file
    BY DEF Reload, disk
  <2>2. /\ pc' = [t \in Sessions |-> IF t \in {s} THEN "idle" ELSE pc[t]]
        /\ job' = [t \in Sessions |-> IF t \in {s} THEN NoJob ELSE job[t]]
    BY <1>0, <1>1 DEF StateInv
  <2>3. StateInv' /\ Differing' = {}
    BY <1>0, <1>1, <2>1, <2>2, Loading
  <2> QED
    BY <2>3 DEF StepInv
<1>2. CASE Drop({s}, cache) /\ explained' = Differing
  BY <1>2, EndStep DEF Reload, disk
<1> QED
  BY <1>1, <1>2 DEF Reload

LEMMA ServiceStep ==
    ASSUME Inv, Stop \/ Serve
    PROVE  StateInv' /\ StepInv'
<1>0. StateInv /\ file \in Content
  BY DEF Inv, DiskInv
<1>1. CASE Stop
  <2>1. Drop(Requests, None)
    BY <1>1 DEF Stop
  <2>2. StateInv'
    BY <1>0, <2>1, DropInv DEF Sessions, StateInv
  <2>3. Differing' = {}
    BY <2>1 DEF Drop, Differing
  <2> QED
    BY <2>2, <2>3 DEF StepInv
<1>2. CASE Serve
  <2>0. PICK c \in Loadings(file) : heap' = [heap EXCEPT ![Unused] = c]
    BY <1>2 DEF Serve
  <2>1. cache = None /\ cache' = Unused /\ UNCHANGED <<file, pc, job>>
    BY <1>2 DEF Serve, sessions, disk
  <2>2. /\ pc' = [t \in Sessions |-> IF t \in {} THEN "idle" ELSE pc[t]]
        /\ job' = [t \in Sessions |-> IF t \in {} THEN NoJob ELSE job[t]]
    BY <1>0, <2>1 DEF StateInv
  <2>3. PICK S \in SUBSET Sessions : S = {}
    OBVIOUS
  <2>4. /\ pc' = [t \in Sessions |-> IF t \in S THEN "idle" ELSE pc[t]]
        /\ job' = [t \in Sessions |-> IF t \in S THEN NoJob ELSE job[t]]
    BY <2>2, <2>3
  <2>5. /\ cache' = Unused /\ UNCHANGED file
        /\ heap' = [heap EXCEPT ![Unused] = c] /\ cache = None /\ S = {}
    BY <2>0, <2>1, <2>3
  <2>6. StateInv' /\ Differing' = {}
    BY <1>0, <2>4, <2>5, Loading
  <2> QED
    BY <2>6 DEF StepInv
<1> QED
  BY <1>1, <1>2

-----------------------------------------------------------------------------
(* Saves.                                                                  *)

(* A session that is not saving before or after a step saves nothing.      *)
LEMMA DiskKept ==
    ASSUME DiskInv, UNCHANGED disk,
           \A s \in Sessions : \/ pc'[s] = pc[s]
                              \/ {pc[s], pc'[s]} \cap {"write", "replace"} = {}
    PROVE  DiskInv'
<1>1. UNCHANGED <<file, tmp, fd, met, mixed>>
  BY DEF disk
<1>2. Saving' = Saving
  BY DEF Saving
<1>3. ASSUME NEW s \in Sessions PROVE SaveInv(s)'
  <2>1. SaveInv(s)
    BY DEF DiskInv
  <2>2. CASE pc'[s] = pc[s]
    BY <1>1, <1>2, <2>1, <2>2 DEF SaveInv
  <2>3. CASE {pc[s], pc'[s]} \cap {"write", "replace"} = {}
    BY <1>1, <1>2, <2>1, <2>3 DEF SaveInv, Saving
  <2> QED
    BY <2>2, <2>3
<1> QED
  BY <1>1, <1>2, <1>3 DEF DiskInv, NeverTruncated

(* A save that finds none at work is the only one, and all that are at     *)
(* work together meet.                                                     *)
LEMMA OpenStep ==
    ASSUME Inv, NEW s \in Sessions, pc[s] \notin {"write", "replace"}, Opens(s)
    PROVE  DiskInv'
<1>0. DiskInv /\ pc \in [Sessions -> Labels]
  BY DEF Inv, StateInv
<1>1. /\ tmp' = Blank /\ fd' = [fd EXCEPT ![s] = "tmp"] /\ UNCHANGED <<file, mixed>>
      /\ pc' = [pc EXCEPT ![s] = "write"]
      /\ met' = IF Saving = {} THEN met ELSE Saving \cup {s}
  BY DEF Opens, Meets, Goto
<1>2. Saving' = Saving \cup {s} /\ s \notin Saving
  BY <1>0, <1>1 DEF Saving
<1>3. fd' \in [Sessions -> Fds] /\ fd'[s] = "tmp" /\ \A t \in Sessions \ {s} : fd'[t] = fd[t]
  BY <1>0, <1>1 DEF DiskInv, Fds
<1>4. pc'[s] = "write" /\ \A t \in Sessions \ {s} : pc'[t] = pc[t]
  BY <1>0, <1>1
<1>5. met \subseteq Saving /\ met' \subseteq Saving' /\ met \subseteq met'
  BY <1>0, <1>1, <1>2 DEF DiskInv
<1>6. ASSUME NEW t \in Sessions PROVE SaveInv(t)'
  <2>1. SaveInv(t)
    BY <1>0 DEF DiskInv
  <2>2. CASE t = s
    <3>1. t \in Saving' \ met' => Saving' = {s}
      BY <1>1, <1>2, <2>2
    <3> QED
      BY <1>1, <1>3, <1>4, <2>2, <3>1 DEF SaveInv
  <2>3. CASE t # s
    <3>1. t \notin Saving' \ met'
      BY <1>1, <1>2, <2>3
    <3> QED
      BY <1>1, <1>3, <1>4, <1>5, <2>1, <2>3, <3>1 DEF SaveInv
  <2> QED
    BY <2>2, <2>3
<1> QED
  BY <1>0, <1>1, <1>3, <1>5, <1>6 DEF DiskInv, Content, NeverTruncated

(* Only a save that has met another one writes into config.yaml itself.    *)
LEMMA DiskWrite ==
    ASSUME Inv, NEW s \in Sessions, Write(s)
    PROVE  DiskInv'
<1>0. DiskInv /\ pc \in [Sessions -> Labels] /\ SaveInv(s)
  BY DEF Inv, StateInv, DiskInv
<1> DEFINE text == heap[job[s].ref]
<1>1. text \in Config /\ pc[s] = "write"
  BY DEF Inv, StateInv, SessionInv, Write
<1>2. /\ fd' = [fd EXCEPT ![s] = "closed"] /\ pc' = [pc EXCEPT ![s] = "replace"]
      /\ UNCHANGED <<met, mixed>>
  BY DEF Write, Goto
<1>3. Saving' = Saving /\ s \in Saving
  BY <1>0, <1>1, <1>2 DEF Saving
<1>4. fd' \in [Sessions -> Fds] /\ fd'[s] = "closed" /\ \A t \in Sessions \ {s} : fd'[t] = fd[t]
  BY <1>0, <1>2 DEF DiskInv, Fds
<1>5. pc'[s] = "replace" /\ \A t \in Sessions \ {s} : pc'[t] = pc[t]
  BY <1>0, <1>2
<1>6. \A c : Over(c, text) \subseteq Content /\ Over(Blank, text) = {text}
  BY <1>1 DEF Over, Content
<1>7. \/ tmp' \in Over(tmp, text) /\ UNCHANGED file
      \/ fd[s] = "conf" /\ file' \in Over(file, text) /\ UNCHANGED tmp
      \/ fd[s] = "unlinked" /\ UNCHANGED <<tmp, file>>
  BY DEF Write
<1>8. /\ file' \in Content /\ tmp' \in Content \cup {None}
      /\ UNCHANGED file \/ mixed
  BY <1>0, <1>6, <1>7 DEF DiskInv, SaveInv
<1>9. s \in Saving \ met => tmp' = text
  <2> SUFFICES ASSUME s \in Saving \ met PROVE tmp' = text
    OBVIOUS
  <2>1. tmp = Blank /\ fd[s] \notin {"conf", "unlinked"}
    BY <1>0, <1>1 DEF SaveInv
  <2> QED
    BY <1>6, <1>7, <2>1
<1>10. ASSUME NEW t \in Sessions PROVE SaveInv(t)'
  <2>1. SaveInv(t)
    BY <1>0 DEF DiskInv
  <2>2. CASE t = s
    <3>1. t \in Saving' \ met' => Saving' = {s} /\ tmp' \in Config
      BY <1>0, <1>1, <1>2, <1>3, <1>9, <2>2 DEF SaveInv
    <3> HIDE DEF text
    <3> QED
      BY <1>4, <1>5, <2>2, <3>1 DEF SaveInv
  <2>3. CASE t # s
    <3>1. t \notin Saving' \ met'
      BY <1>2, <1>3, <2>1, <2>3 DEF SaveInv
    <3> QED
      BY <1>2, <1>4, <1>5, <2>1, <2>3, <3>1 DEF SaveInv
  <2> QED
    BY <2>2, <2>3
<1>11. met' \subseteq Saving' /\ mixed' \in BOOLEAN /\ NeverTruncated'
  BY <1>0, <1>2, <1>3, <1>8 DEF DiskInv, NeverTruncated
<1> QED
  BY <1>4, <1>8, <1>10, <1>11 DEF DiskInv

(* A save that has met no other one moves its own text, and nobody has the *)
(* file open.                                                              *)
LEMMA DiskReplace ==
    ASSUME Inv, NEW s \in Sessions, Replace(s)
    PROVE  DiskInv'
<1>0. DiskInv /\ pc \in [Sessions -> Labels] /\ SaveInv(s) /\ pc[s] = "replace" /\ s \in Saving
  BY DEF Inv, StateInv, DiskInv, Replace, Saving
<1>1. /\ \A t \in Sessions \ {s} : pc'[t] = pc[t]
      /\ pc'[s] \notin {"write", "replace"} /\ met' = met \ {s}
  BY <1>0 DEF Replace, Drop, Goto
<1>2. Saving' = Saving \ {s}
  BY <1>1 DEF Saving
<1>3. CASE tmp = None
  <2>1. s \in met /\ UNCHANGED <<file, tmp, fd, mixed>>
    BY <1>0, <1>3, Constants DEF SaveInv, Replace
  <2>2. ASSUME NEW t \in Sessions PROVE SaveInv(t)'
    <3>1. SaveInv(t)
      BY <1>0 DEF DiskInv
    <3>2. CASE t = s
      <4>1. fd[s] = "closed"
        BY <1>0 DEF SaveInv
      <4> QED
        BY <1>1, <1>2, <2>1, <3>2, <4>1 DEF SaveInv
    <3>3. CASE t # s
      <4>1. t \notin Saving' \ met'
        BY <1>0, <1>1, <1>2, <3>1, <3>3 DEF SaveInv
      <4> QED
        BY <1>1, <2>1, <3>1, <3>3, <4>1 DEF SaveInv
    <3> QED
      BY <3>2, <3>3
  <2> QED
    BY <1>0, <1>1, <1>2, <2>1, <2>2 DEF DiskInv, NeverTruncated
<1>4. CASE tmp # None
  <2>1. /\ file' = tmp /\ tmp' = None /\ mixed' = (s \in met)
        /\ fd' = [t \in Sessions |-> Moved(fd[t])]
    BY <1>4 DEF Replace
  <2>2. ASSUME NEW t \in Sessions PROVE SaveInv(t)'
    <3>1. SaveInv(t) /\ fd[t] \in Fds
      BY <1>0 DEF DiskInv
    <3>2. CASE t = s
      <4>1. fd[s] = "closed"
        BY <1>0 DEF SaveInv
      <4> QED
        BY <1>1, <1>2, <2>1, <3>2, <4>1 DEF SaveInv, Moved
    <3>3. CASE t # s
      <4>1. t \notin Saving' \ met' /\ (t \in Saving => t \in met /\ s \in met)
        BY <1>0, <1>1, <1>2, <3>1, <3>3 DEF SaveInv
      <4>2. fd[t] # "closed" => t \in Saving
        BY <3>1 DEF SaveInv, Saving
      <4>3. fd'[t] = Moved(fd[t]) /\ (fd'[t] = "closed" <=> fd[t] = "closed")
        BY <2>1, <3>1 DEF Moved
      <4>4. fd'[t] # "closed" => t \in met' /\ mixed'
        BY <1>1, <2>1, <3>3, <4>1, <4>2, <4>3
      <4> QED
        BY <1>1, <3>1, <3>3, <4>1, <4>3, <4>4 DEF SaveInv
    <3> QED
      BY <3>2, <3>3
  <2>3. fd' \in [Sessions -> Fds]
    BY <1>0, <2>1 DEF DiskInv, Moved, Fds
  <2>4. file' \in Content /\ tmp' \in Content \cup {None} /\ mixed' \in BOOLEAN
    BY <1>0, <1>4, <2>1 DEF DiskInv
  <2>5. NeverTruncated'
    BY <1>0, <2>1, Constants DEF SaveInv, NeverTruncated
  <2>6. met' \subseteq Saving'
    BY <1>0, <1>1, <1>2 DEF DiskInv
  <2> QED
    BY <2>2, <2>3, <2>4, <2>5, <2>6 DEF DiskInv
<1> QED
  BY <1>3, <1>4

(* A killed process leaves its files; the others go on as they were.       *)
LEMMA DiskKill ==
    ASSUME Inv, NEW S \in SUBSET Sessions, Closes(S),
           pc' = [s \in Sessions |-> IF s \in S THEN "idle" ELSE pc[s]]
    PROVE  DiskInv'
<1>0. DiskInv
  BY DEF Inv
<1>1. /\ UNCHANGED <<file, tmp, mixed>> /\ met' = met \ S
      /\ fd' = [s \in Sessions |-> IF s \in S THEN "closed" ELSE fd[s]]
  BY DEF Closes
<1>2. Saving' = Saving \ S
  BY DEF Saving
<1>3. ASSUME NEW s \in Sessions PROVE SaveInv(s)'
  <2>1. SaveInv(s)
    BY <1>0 DEF DiskInv
  <2>2. CASE s \in S
    BY <1>1, <1>2, <2>2 DEF SaveInv
  <2>3. CASE s \notin S
    <3>1. pc'[s] = pc[s] /\ fd'[s] = fd[s] /\ (s \in met' <=> s \in met)
      BY <1>1, <2>3
    <3>2. s \in Saving' \ met' => s \in Saving \ met /\ Saving' = {s}
      BY <1>1, <1>2, <2>1, <2>3 DEF SaveInv
    <3> QED
      BY <1>1, <2>1, <3>1, <3>2 DEF SaveInv
  <2> QED
    BY <2>2, <2>3
<1>4. fd' \in [Sessions -> Fds]
  BY <1>0, <1>1 DEF DiskInv, Fds
<1>5. met' \subseteq Saving'
  BY <1>0, <1>1, <1>2 DEF DiskInv
<1> QED
  BY <1>0, <1>1, <1>3, <1>4, <1>5 DEF DiskInv, NeverTruncated

LEMMA DiskStep ==
    ASSUME Inv, [Next]_vars
    PROVE  DiskInv'
<1>0. DiskInv /\ pc \in [Sessions -> Labels]
  BY DEF Inv, StateInv
<1>1. ASSUME NEW s \in Sessions, NEW label \in Labels \ {"write", "replace"},
             pc[s] \notin {"write", "replace"}, Goto(s, label), UNCHANGED disk
      PROVE  DiskInv'
  BY <1>0, <1>1, DiskKept DEF Goto
<1>2. ASSUME NEW s \in Sessions, pc[s] \notin {"write", "replace"}, UNCHANGED disk,
             \/ Drop({s}, cache)
             \/ pc' = [pc EXCEPT ![s] = "idle"]
      PROVE  DiskInv'
  <2>1. \A t \in Sessions : pc'[t] = IF t = s THEN "idle" ELSE pc[t]
    BY <1>0, <1>2 DEF Drop
  <2> QED
    BY <1>0, <1>2, <2>1, DiskKept
<1>3. ASSUME NEW s \in Sessions, BeginForm(s) PROVE DiskInv'
  <2>1. PICK op, f : Begin(s, op, f)
    BY <1>3 DEF BeginForm
  <2> QED
    BY <1>1, <2>1 DEF Begin, Labels
<1>4. ASSUME NEW s \in Commands, NEW f \in Fields, BeginCommand(s, f) PROVE DiskInv'
  BY <1>1, <1>4 DEF BeginCommand, Labels, Sessions
<1>5. ASSUME NEW s \in Sessions, Step(s) PROVE DiskInv'
  <2>1. CASE Change(s) \/ Accepted(s) \/ Work(s)
    BY <2>1, OpenStep DEF Change, Accepted, Work
  <2>2. CASE Ask(s)
    BY <1>1, <2>2 DEF Ask, Labels
  <2>3. CASE Refused(s) \/ Failed(s) \/ SyncFails(s) \/ Reload(s)
    BY <1>2, <2>3 DEF Refused, Failed, SyncFails, Reload
  <2>4. CASE Write(s)
    BY <2>4, DiskWrite
  <2>5. CASE Replace(s)
    BY <2>5, DiskReplace
  <2> QED
    BY <1>5, <2>1, <2>2, <2>3, <2>4, <2>5 DEF Step
<1>6. ASSUME NEW s \in Sessions, KillCommand(s) PROVE DiskInv'
  BY <1>6, DiskKill DEF KillCommand, Drop
<1>7. CASE Stop
  BY <1>7, DiskKill DEF Stop, Drop, Sessions
<1>8. CASE Serve \/ UNCHANGED vars
  BY <1>0, <1>8, DiskKept DEF Serve, vars, sessions
<1> QED
  BY <1>3, <1>4, <1>5, <1>6, <1>7, <1>8 DEF Next

-----------------------------------------------------------------------------

LEMMA HistoryStep ==
    ASSUME Inv, [Next]_vars
    PROVE  History'
<1> USE DEF sessions
<1>0. History
  BY DEF Inv
<1>1. \A f : Fault(f) => faults' \in 0..MaxFaults
  BY <1>0, Constants DEF Fault, History
<1>2. faults' = faults \/ \E f : Fault(f)
  BY DEF Next, Step, BeginForm, Begin, BeginCommand, Change, Ask, Accepted, Refused, Failed, Write,
         Replace, SyncFails, Reload, Work, KillCommand, Stop, Serve, vars
<1>3. Differing \subseteq Fields /\ Differing' \subseteq Fields
  BY DEF Differing
<1>4. UNCHANGED explained \/ explained' \subseteq Fields
  BY <1>3 DEF Next, Step, BeginForm, Begin, BeginCommand, Change, Ask, Accepted, Refused, Failed, Write,
         Replace, SyncFails, Reload, Work, KillCommand, Stop, Serve, vars
<1>5. Count \/ UNCHANGED begun
  BY DEF Next, BeginForm, Begin, BeginCommand, vars
<1>6. begun' \in 0..MaxBegun
  BY <1>0, <1>5, Constants DEF Count, History
<1> QED
  BY <1>0, <1>1, <1>2, <1>4, <1>6 DEF History

LEMMA NextInv ==
    ASSUME Inv, [Next]_vars
    PROVE  Inv'
<1> USE DEF sessions, disk
<1> SUFFICES StateInv' /\ StepInv'
  BY HistoryStep, DiskStep DEF Inv
<1>0. StateInv /\ StepInv
  BY DEF Inv
<1>1. ASSUME NEW s \in Sessions, BeginForm(s) \/ \E f \in Fields : BeginCommand(s, f)
      PROVE  StateInv' /\ StepInv'
  BY <1>1, BeginStep
<1>2. ASSUME NEW s \in Sessions, Step(s) PROVE StateInv' /\ StepInv'
  <2>1. CASE Change(s) \/ Work(s)
    BY <2>1, ChangeStep DEF Change, Work, Opens, Body
  <2>2. CASE Ask(s)
    BY <2>2, ChangeStep DEF Ask
  <2>3. CASE Accepted(s)
    BY <2>3, ChangeStep DEF Accepted, Opens, Body
  <2>4. CASE Refused(s) \/ SyncFails(s)
    BY <2>4, EndStep DEF Refused, SyncFails
  <2>5. CASE Failed(s)
    BY <2>5, EndStep DEF Failed
  <2>6. CASE Replace(s) \/ Write(s)
    BY <2>6, ReplaceStep, WriteStep
  <2>7. CASE Reload(s)
    BY <2>7, ReloadStep
  <2> QED
    BY <1>2, <2>1, <2>2, <2>3, <2>4, <2>5, <2>6, <2>7 DEF Step
<1>3. ASSUME NEW s \in Sessions, KillCommand(s) PROVE StateInv' /\ StepInv'
  BY <1>3, EndStep DEF KillCommand, Closes
<1>4. CASE UNCHANGED vars
  <2>1. UNCHANGED <<file, heap, cache, pc, job, explained>>
    BY <1>4 DEF vars
  <2>2. HeapInv' /\ \A s \in Sessions : SessionInv(s)'
    BY <1>0, <2>1 DEF StateInv, HeapInv, Held, SessionInv
  <2>3. StateInv'
    BY <1>0, <2>1, <2>2 DEF StateInv
  <2>4. Differing' = Differing /\ (Settled' <=> Settled)
    BY <2>1 DEF Differing, Settled
  <2>5. StepInv'
    BY <1>0, <2>1, <2>4 DEF StepInv
  <2> QED
    BY <2>3, <2>5
<1>5. CASE Next
  <2>1. ASSUME NEW s \in Sessions, BeginForm(s) \/ Step(s) \/ KillCommand(s)
        PROVE  StateInv' /\ StepInv'
    BY <1>1, <1>2, <1>3, <2>1
  <2>2. ASSUME NEW s \in Commands, NEW f \in Fields, BeginCommand(s, f)
        PROVE  StateInv' /\ StepInv'
    BY <1>1, <2>2 DEF Sessions
  <2>3. CASE Stop \/ Serve
    BY <2>3, ServiceStep
  <2>4. \/ \E s \in Sessions : BeginForm(s) \/ Step(s) \/ KillCommand(s)
        \/ \E s \in Commands, f \in Fields : BeginCommand(s, f)
        \/ Stop \/ Serve
    BY <1>5 DEF Next
  <2> QED
    BY <2>1, <2>2, <2>3, <2>4
<1> QED
  BY <1>4, <1>5

LEMMA InitInv == Init => Inv
<1> SUFFICES ASSUME Init PROVE Inv
  OBVIOUS
<1>1. Fresh \in Config
  BY DEF Fresh, Config, Settings
<1>2. /\ heap \in [Objects -> Config \cup {None}]
      /\ cache \in Objects \cup {None} /\ heap[cache] # None
  BY <1>1, Constants DEF Init
<1>3. pc \in [Sessions -> Labels] /\ job \in [Sessions -> Job]
  BY DEF Init, Labels, Job, NoJob
<1>4. HeapInv
  BY DEF Init, HeapInv, Held
<1>5. \A s \in Sessions : SessionInv(s)
  BY DEF Init, SessionInv
<1>6. Differing = {}
  BY Constants DEF Init, Differing
<1>7. History
  BY Constants DEF Init, History
<1>8. Saving = {}
  BY DEF Init, Saving
<1>9. \A s \in Sessions : SaveInv(s)
  BY <1>8 DEF Init, SaveInv
<1>10. DiskInv
  BY <1>1, <1>9, Constants DEF Init, DiskInv, Content, Fds, NeverTruncated
<1> QED
  BY <1>2, <1>3, <1>4, <1>5, <1>6, <1>7, <1>10 DEF Inv, StateInv, StepInv

LEMMA Invariant == Spec => []Inv
<1>1. Inv /\ [Next]_vars => Inv'
  BY NextInv
<1> QED
  BY InitInv, <1>1, PTL DEF Spec

-----------------------------------------------------------------------------
(* The theorems.                                                           *)

(* Every variable keeps its type, and a new object always finds a place:   *)
(* what no handler and no command holds is given up.                       *)
THEOREM PanelTypeCorrect == Spec => []TypeOK
<1>1. Inv => TypeOK
  <2> SUFFICES ASSUME Inv PROVE TypeOK
    OBVIOUS
  <2>1. StateInv /\ DiskInv /\ History
    BY DEF Inv
  <2>2. \E o \in Objects : heap[o] = None
    BY <2>1, UnusedExists
  <2>3. \A s \in Sessions : pc[s] = "write" <=> fd[s] # "closed"
    BY <2>1 DEF DiskInv, SaveInv
  <2> QED
    BY <2>1, <2>2, <2>3 DEF TypeOK, StateInv, DiskInv, SessionInv, History, Labels
<1> QED
  BY <1>1, Invariant, PTL

(* For any number of handlers and commands that are killed or meet in      *)
(* their saves, in the panel and beside it: config.yaml is truncated or    *)
(* half overwritten only when the save that last replaced it met another   *)
(* one; a save that has met none has the temporary file to itself from     *)
(* open to os.replace, and nobody writes into what it has moved.           *)
THEOREM FileStaysWhole == Spec => []NeverTruncated
<1>1. Inv => NeverTruncated
  BY DEF Inv, DiskInv
<1> QED
  BY <1>1, Invariant, PTL

(* For any number of handlers that hold objects the panel has replaced, a  *)
(* panel with no handler at work differs from the file only where a        *)
(* command, a refusal, or a failed sync or save explains it, also when the *)
(* file it loads is one that saves have mixed.                             *)
THEOREM PanelStaysInStep == Spec => []PanelInStep
<1>1. Inv => PanelInStep
  BY DEF Inv, StepInv, Settled, PanelInStep, Body
<1> QED
  BY <1>1, Invariant, PTL
=============================================================================
