------------------------ MODULE WireGuardHub_proofs ------------------------
(***************************************************************************)
(* Proofs about WireGuardHub, for every number of sessions, rows,          *)
(* addresses and keys.  Under every operation and every fault:             *)
(*   TypeCorrect        the variables keep their types;                    *)
(*   PeersStayUnique    no two committed peers share an address or a key;  *)
(*   WhoIsAloneRepairs  a session nobody else is at work beside leaves     *)
(*                      file and device as the table it commits;           *)
(* with every fault, when one session at a time is past its flush:         *)
(*   CommitsPublish     a committed change is in file and device;          *)
(*   ServedWithoutAmbiguity neither is torn or routes anything twice;      *)
(* and when also nothing fails:                                            *)
(*   ChangesAgree       file and device are at most the change of the      *)
(*                      session at work ahead of the table;                *)
(*   HubKeepsPromise    the hub implements HubPromise.                     *)
(***************************************************************************)
EXTENDS WireGuardHub, TLAPS

Waiting == {"idle", "flush"}

\* What the code relies on while session s is at work.  The last conjuncts
\* hold because only the holder of the write lock changes the table: what the
\* constraints accepted at the flush is still true at the commit.
SessionInv(s) ==
    LET j == job[s] IN
    /\ pc[s] = "idle" <=> j.op = "none"
    /\ j.op = "create" => j.row \in Row /\ (pc[s] # "flush" => j.id \in Ids)
    /\ j.op \in Edits => j.row \in Row /\ j.id \in Ids
    /\ j.op = "remove" => j.id \in Ids
    /\ j.op = "sync" => pc[s] # "flush"
    /\ pc[s] \notin Waiting /\ j.op # "sync" => writer = s
    /\ writer = s => pc[s] \notin Waiting /\ j.op # "sync"
    /\ pc[s] \notin Waiting /\ j.op \in {"toggle", "rotate"} => rows[j.id] # None
    /\ pc[s] \notin Waiting => ~Collides(s)

HubInv == TypeOK /\ UniquePeers /\ \A s \in Sessions : SessionInv(s)
-----------------------------------------------------------------------------

(* The empty table satisfies the invariant.                                *)
LEMMA InitInv == Init => HubInv
<1> SUFFICES ASSUME Init PROVE HubInv
  OBVIOUS
<1> USE DEF Init
<1>1. TypeOK
  BY HubAssumption DEF TypeOK, Text, Content, Labels, Body, NoJob, Fds
<1>2. UniquePeers
  BY DEF UniquePeers, UniqueIn, Live
<1>3. ASSUME NEW s \in Sessions PROVE SessionInv(s)
  BY HubAssumption DEF SessionInv, NoJob, Edits, Waiting
<1> QED
  BY <1>1, <1>2, <1>3 DEF HubInv

(* What a file gives the device is a text, or torn.                        *)
LEMMA PeersType ==
    ASSUME NEW c \in Content
    PROVE  Peers(c) \in Text \cup {Torn}
BY DEF Peers, Content, Text

(* Steps between the flush and the end of a session: one label changes.    *)
LEMMA BodyStep ==
    ASSUME HubInv, NEW s \in Sessions, NEW l \in Labels \ Waiting,
           pc[s] \notin Waiting, Goto(s, l), UNCHANGED <<rows, writer, job, alone>>,
           tmp' \in Content \cup {None}, file' \in Content,
           device' \in Text \cup {Down, Torn}, text' \in [Sessions -> Text \cup {Torn}],
           fd' \in [Sessions -> Fds],
           l = "write" <=> fd'[s] # "closed",
           \A t \in Sessions \ {s} : fd'[t] = "closed" <=> fd[t] = "closed"
    PROVE  HubInv'
<1>1. UniquePeers'
  BY DEF HubInv, UniquePeers, UniqueIn, Live
<1>2. ASSUME NEW t \in Sessions
      PROVE  SessionInv(t)' /\ (pc'[t] = "write" <=> fd'[t] # "closed")
  <2>1. /\ pc \in [Sessions -> Labels] /\ SessionInv(t)
        /\ pc[t] = "write" <=> fd[t] # "closed"
    BY DEF HubInv, TypeOK
  <2>2. Collides(t)' <=> Collides(t)
    BY DEF Collides, AddressTaken, KeyRegistered, Live
  <2>3. CASE t = s
    BY <2>1, <2>2, <2>3 DEF SessionInv, Goto, Waiting
  <2>4. CASE t # s
    BY <2>1, <2>2, <2>4 DEF SessionInv, Goto, Waiting
  <2> QED
    BY <2>3, <2>4
<1>3. TypeOK'
  <2>1. pc' \in [Sessions -> Labels]
    BY DEF HubInv, TypeOK, Goto
  <2>2. \A t \in Sessions : (pc'[t] = "idle" <=> job'[t].op = "none")
    BY <1>2 DEF SessionInv
  <2> QED
    BY <1>2, <2>1, <2>2 DEF HubInv, TypeOK
<1> QED
  BY <1>1, <1>2, <1>3 DEF HubInv

(* Ending sessions releases their lock and leaves the others as they were. *)
LEMMA StopSessions ==
    ASSUME HubInv, NEW S \in SUBSET Sessions, Stop(S), UNCHANGED rows
    PROVE  UniquePeers' /\ \A t \in Sessions : SessionInv(t)'
<1>1. UniquePeers'
  BY DEF HubInv, UniquePeers, UniqueIn, Live
<1>2. ASSUME NEW t \in Sessions PROVE SessionInv(t)'
  <2>1. SessionInv(t) /\ None # t
    BY HubAssumption DEF HubInv
  <2>2. CASE t \in S
    <3>1. pc'[t] = "idle" /\ job'[t] = NoJob /\ writer' # t
      BY <2>1, <2>2 DEF Stop
    <3>2. ~Collides(t)'
      BY <3>1 DEF Collides, NoJob
    <3> QED
      BY <3>1, <3>2 DEF SessionInv, NoJob, Edits, Waiting
  <2>3. CASE t \notin S
    <3>1. pc'[t] = pc[t] /\ job'[t] = job[t] /\ (writer' = t <=> writer = t)
      BY <2>1, <2>3 DEF Stop
    <3>2. Collides(t)' <=> Collides(t)
      BY <3>1 DEF Collides, AddressTaken, KeyRegistered, Live
    <3> QED
      BY <2>1, <3>1, <3>2 DEF SessionInv
  <2> QED
    BY <2>2, <2>3
<1> QED
  BY <1>1, <1>2

(* The variables that Stop writes keep their types.                        *)
LEMMA StopTypes ==
    ASSUME TypeOK, NEW S \in SUBSET Sessions, Stop(S),
           rows' \in [Ids -> Row \cup {None}], UNCHANGED <<tmp, file>>,
           device' \in {device, Peers(file)}
    PROVE  TypeOK'
<1>1. writer' \in Sessions \cup {None} /\ alone' \in Sessions \cup {None}
  BY DEF TypeOK, Stop
<1>2. pc' \in [Sessions -> Labels] /\ fd' \in [Sessions -> Fds]
  BY DEF TypeOK, Stop, Labels, Fds
<1>3. NoJob \in [op : AllOps \cup {"none"}, id : Ids \cup {0}, row : Row \cup {None}]
  BY DEF NoJob
<1>4. {} \in Text
  BY DEF Text
<1>5. /\ job' \in [Sessions -> [op : AllOps \cup {"none"}, id : Ids \cup {0},
                                row : Row \cup {None}]]
      /\ text' \in [Sessions -> Text \cup {Torn}]
  BY <1>3, <1>4 DEF TypeOK, Stop
<1>6. device' \in Text \cup {Down, Torn}
  BY PeersType DEF TypeOK
<1>7. ASSUME NEW t \in Sessions
      PROVE  /\ pc'[t] = "idle" <=> job'[t].op = "none"
             /\ pc'[t] = "write" <=> fd'[t] # "closed"
  <2>1. /\ pc'[t] = IF t \in S THEN "idle" ELSE pc[t]
        /\ job'[t] = IF t \in S THEN NoJob ELSE job[t]
        /\ fd'[t] = IF t \in S THEN "closed" ELSE fd[t]
    BY DEF Stop
  <2> QED
    BY <2>1 DEF TypeOK, NoJob
<1> QED
  BY <1>1, <1>2, <1>5, <1>6, <1>7 DEF TypeOK

LEMMA StopStep ==
    ASSUME HubInv, NEW S \in SUBSET Sessions, Stop(S), UNCHANGED <<rows, tmp, file>>,
           device' \in {device, Peers(file)}
    PROVE  HubInv'
<1>1. rows' \in [Ids -> Row \cup {None}] /\ TypeOK
  BY DEF HubInv, TypeOK
<1>2. TypeOK'
  BY <1>1, StopTypes
<1>3. UniquePeers' /\ \A t \in Sessions : SessionInv(t)'
  BY StopSessions
<1> QED
  BY <1>2, <1>3 DEF HubInv

(* A session that begins has read a row or chosen one, and has no lock.    *)
LEMMA BeginStep ==
    ASSUME HubInv, NEW s \in Sessions, NEW op \in AllOps, NEW i \in Ids \cup {0},
           NEW r \in Row \cup {None}, NEW label \in {"flush", "render"},
           Begin(s, op, i, r, label),
           op = "sync" <=> label = "render",
           op \in Edits \cup {"create"} => r \in Row,
           op \in Edits \cup {"remove"} => i \in Ids
    PROVE  HubInv'
<1>1. TypeOK'
  <2>1. job' \in [Sessions -> [op : AllOps \cup {"none"}, id : Ids \cup {0},
                              row : Row \cup {None}]]
    BY DEF HubInv, TypeOK, Begin
  <2>2. pc' \in [Sessions -> Labels]
    BY DEF HubInv, TypeOK, Begin, Goto, Labels, Body
  <2>3. alone' \in Sessions \cup {None}
    BY DEF HubInv, TypeOK, Begin
  <2>4. ASSUME NEW t \in Sessions
        PROVE  /\ pc'[t] = "idle" <=> job'[t].op = "none"
               /\ pc'[t] = "write" <=> fd'[t] # "closed"
    <3>1. /\ pc'[t] = IF t = s THEN label ELSE pc[t]
          /\ job'[t] = IF t = s THEN [op |-> op, id |-> i, row |-> r] ELSE job[t]
          /\ fd' = fd /\ pc[s] = "idle" /\ op # "none"
      BY DEF HubInv, TypeOK, Begin, Goto, AllOps, Edits
    <3> QED
      BY <3>1 DEF HubInv, TypeOK
  <2> QED
    BY <2>1, <2>2, <2>3, <2>4 DEF HubInv, TypeOK, Begin
<1>2. UniquePeers'
  BY DEF HubInv, UniquePeers, UniqueIn, Live, Begin
<1>3. ASSUME NEW t \in Sessions PROVE SessionInv(t)'
  <2>1. SessionInv(t) /\ pc[s] = "idle" /\ pc \in [Sessions -> Labels] /\ job = [u \in Sessions |-> job[u]]
    BY DEF HubInv, TypeOK, Begin
  <2>2. CASE t = s
    <3>1. job'[t] = [op |-> op, id |-> i, row |-> r] /\ pc'[t] = label
      BY <2>1, <2>2 DEF Begin, Goto
    <3>2. writer' # t
      BY <2>1, <2>2 DEF SessionInv, Waiting, Begin
    <3>3. label = "render" => ~Collides(t)'
      BY <3>1 DEF Collides
    <3> QED
      BY <3>1, <3>2, <3>3 DEF SessionInv, Waiting, Edits, AllOps
  <2>3. CASE t # s
    <3>1. job'[t] = job[t] /\ pc'[t] = pc[t] /\ writer' = writer /\ rows' = rows
      BY <2>1, <2>3 DEF Begin, Goto
    <3>2. Collides(t)' <=> Collides(t)
      BY <3>1 DEF Collides, AddressTaken, KeyRegistered, Live
    <3> QED
      BY <2>1, <3>1, <3>2 DEF SessionInv
  <2> QED
    BY <2>2, <2>3
<1> QED
  BY <1>1, <1>2, <1>3 DEF HubInv

(* The flush takes the lock, and the constraints hold from here on.        *)
LEMMA FlushStep ==
    ASSUME HubInv, NEW s \in Sessions, Flush(s)
    PROVE  HubInv'
<1>1. /\ SessionInv(s) /\ pc[s] = "flush" /\ writer = None /\ writer' = s
      /\ UNCHANGED <<rows, tmp, file, device, text, fd, alone>>
      /\ pc \in [Sessions -> Labels]
      /\ job \in [Sessions -> [op : AllOps \cup {"none"}, id : Ids \cup {0},
                               row : Row \cup {None}]]
  BY DEF HubInv, TypeOK, Flush, Writable
<1>2. /\ pc'[s] \in {"await", "render"}
      /\ pc' = [pc EXCEPT ![s] = pc'[s]]
  BY <1>1 DEF Flush, Goto
<1>3. /\ job'[s].op = job[s].op /\ job'[s].row = job[s].row
      /\ job'[s].id \in Ids \cup {0}
      /\ job[s].op # "create" => job'[s] = job[s]
      /\ job[s].op = "create" => job'[s].id \in Ids
      /\ \A t \in Sessions \ {s} : job'[t] = job[t]
      /\ job' \in [Sessions -> [op : AllOps \cup {"none"}, id : Ids \cup {0},
                                row : Row \cup {None}]]
  BY <1>1 DEF Flush
<1>4. ~Collides(s) /\ (job[s].op \in {"toggle", "rotate"} => rows[job[s].id] # None)
  <2>1. CASE ~Rejected(s)
    BY <2>1 DEF Rejected, Edits
  <2>2. CASE job[s].op = "edit"
    BY <2>2 DEF Collides
  <2> QED
    BY <2>1, <2>2 DEF Flush
<1>5. TypeOK'
  <2>1. ASSUME NEW t \in Sessions
        PROVE  /\ pc'[t] = "idle" <=> job'[t].op = "none"
               /\ pc'[t] = "write" <=> fd'[t] # "closed"
    BY <1>1, <1>2, <1>3 DEF HubInv, TypeOK
  <2>2. pc' \in [Sessions -> Labels]
    BY <1>1, <1>2 DEF Labels, Body
  <2> QED
    BY <1>1, <1>3, <2>1, <2>2 DEF HubInv, TypeOK
<1>6. UniquePeers'
  BY <1>1 DEF HubInv, UniquePeers, UniqueIn, Live
<1>7. SessionInv(s)'
  <2>1. ~Collides(s)'
    BY <1>1, <1>3, <1>4 DEF Collides, AddressTaken, KeyRegistered, Live
  <2> QED
    BY <1>1, <1>2, <1>3, <1>4, <2>1 DEF SessionInv, Waiting, Edits
<1>8. ASSUME NEW t \in Sessions \ {s} PROVE SessionInv(t)'
  <2>1. SessionInv(t) /\ pc'[t] = pc[t] /\ job'[t] = job[t] /\ None # t
    BY <1>1, <1>2, <1>3, HubAssumption DEF HubInv
  <2>2. Collides(t)' <=> Collides(t)
    BY <1>1, <2>1 DEF Collides, AddressTaken, KeyRegistered, Live
  <2> QED
    BY <1>1, <2>1, <2>2 DEF SessionInv
<1> QED
  BY <1>5, <1>6, <1>7, <1>8 DEF HubInv

(* The change of a lock holder keeps the table typed and its peers unique. *)
LEMMA DraftUnique ==
    ASSUME HubInv, NEW s \in Sessions, pc[s] \notin Waiting
    PROVE  Draft(s) \in [Ids -> Row \cup {None}] /\ UniqueIn(Draft(s))
<1>1. SessionInv(s) /\ UniqueIn(rows) /\ rows \in [Ids -> Row \cup {None}]
  BY DEF HubInv, TypeOK, UniquePeers
<1>2. CASE job[s].op = "create"
  <2>1. /\ Draft(s) = [rows EXCEPT ![job[s].id] = job[s].row]
        /\ job[s].row \in Row /\ job[s].id \in Ids
    BY <1>1, <1>2 DEF Draft, SessionInv, Waiting
  <2>2. \A i \in Live(rows) : rows[i].addr # job[s].row.addr /\ rows[i].key # job[s].row.key
    BY <1>1, <1>2 DEF SessionInv, Collides, AddressTaken, KeyRegistered
  <2> QED
    BY <1>1, <2>1, <2>2 DEF UniqueIn, Live
<1>3. CASE job[s].op = "remove"
  BY <1>1, <1>3 DEF Draft, UniqueIn, Live
<1>4. CASE job[s].op = "toggle"
  <2>1. /\ Draft(s) = [rows EXCEPT ![job[s].id].on = job[s].row.on]
        /\ job[s].row \in Row /\ job[s].id \in Ids /\ rows[job[s].id] \in Row
    BY <1>1, <1>4 DEF Draft, SessionInv, Edits
  <2> QED
    BY <1>1, <1>4, <2>1 DEF UniqueIn, Live, Row, SessionInv
<1>5. CASE job[s].op = "rotate"
  <2>1. /\ Draft(s) = [rows EXCEPT ![job[s].id].key = job[s].row.key]
        /\ job[s].row \in Row /\ job[s].id \in Ids /\ rows[job[s].id] \in Row
    BY <1>1, <1>5 DEF Draft, SessionInv, Edits
  <2>2. \A i \in Live(rows) \ {job[s].id} : rows[i].key # job[s].row.key
    BY <1>1, <1>5 DEF SessionInv, Collides
  <2> QED
    BY <1>1, <1>5, <2>1, <2>2 DEF UniqueIn, Live, Row, SessionInv
<1>6. CASE job[s].op \notin {"create", "remove", "toggle", "rotate"}
  BY <1>1, <1>6 DEF Draft, UniqueIn, Live
<1> QED
  BY <1>2, <1>3, <1>4, <1>5, <1>6

(* A commit: no other session is past its flush.                           *)
LEMMA CommitStep ==
    ASSUME HubInv, NEW s \in Sessions, Commit(s)
    PROVE  HubInv'
<1>1. /\ pc[s] = "commit" /\ rows' = Draft(s) /\ Stop({s})
      /\ UNCHANGED <<tmp, file, device>> /\ SessionInv(s)
  BY DEF Commit, HubInv
<1>2. rows' \in [Ids -> Row \cup {None}] /\ UniquePeers'
  BY <1>1, DraftUnique DEF Waiting, UniquePeers, UniqueIn, Live
<1>3. TypeOK'
  <2>1. {s} \in SUBSET Sessions /\ TypeOK
    BY DEF HubInv
  <2> QED
    BY <1>1, <1>2, <2>1, StopTypes
<1>4. ASSUME NEW t \in Sessions PROVE SessionInv(t)'
  <2>1. CASE job[s].op = "sync"
    <3>1. rows' = rows
      BY <1>1, <2>1 DEF Draft
    <3> QED
      BY <1>1, <3>1, StopSessions
  <2>2. CASE job[s].op # "sync" /\ t = s
    <3>1. pc'[t] = "idle" /\ job'[t] = NoJob /\ writer' # t
      BY <1>1, <2>2, HubAssumption DEF Stop
    <3>2. ~Collides(t)'
      BY <3>1 DEF Collides, NoJob
    <3> QED
      BY <3>1, <3>2 DEF SessionInv, NoJob, Edits, Waiting
  <2>3. CASE job[s].op # "sync" /\ t # s
    <3>1. writer = s /\ writer' = None
      BY <1>1, <2>3 DEF SessionInv, Waiting, Stop
    <3>2. SessionInv(t) /\ pc'[t] = pc[t] /\ job'[t] = job[t] /\ None # t
      BY <1>1, <2>3, HubAssumption DEF Stop, HubInv
    <3>3. pc[t] \in Waiting \/ job[t].op = "sync"
      BY <2>3, <3>1, <3>2 DEF SessionInv
    <3>4. pc[t] \notin Waiting => ~Collides(t)'
      BY <3>2, <3>3 DEF Collides
    <3> QED
      BY <3>1, <3>2, <3>3, <3>4 DEF SessionInv
  <2> QED
    BY <2>1, <2>2, <2>3
<1> QED
  BY <1>2, <1>3, <1>4 DEF HubInv

(* A rendering of a typed table is a text.                                 *)
LEMMA RenderedType ==
    ASSUME NEW t \in [Ids -> Row \cup {None}]
    PROVE  Rendered(t) \in Text
BY DEF Rendered, Live, Text, Row

(* A query returns a typed table.                                          *)
LEMMA ListedType ==
    ASSUME HubInv, NEW s \in Sessions, pc[s] \notin Waiting
    PROVE  Listed(s) \in [Ids -> Row \cup {None}]
<1>1. Draft(s) \in [Ids -> Row \cup {None}] /\ SessionInv(s)
  BY DraftUnique DEF HubInv
<1>2. CASE job[s].op \in Edits /\ Draft(s)[job[s].id] # None
  BY <1>1, <1>2 DEF Listed, SessionInv
<1>3. CASE ~(job[s].op \in Edits /\ Draft(s)[job[s].id] # None)
  BY <1>1, <1>3 DEF Listed
<1> QED
  BY <1>2, <1>3

(* Every way a session begins.                                             *)
LEMMA StartStep ==
    ASSUME HubInv, NEW s \in Sessions, Start(s)
    PROVE  HubInv'
<1>1. rows \in [Ids -> Row \cup {None}]
  BY DEF HubInv, TypeOK
<1>2. CASE BeginCreate(s)
  <2>1. PICK a \in Addresses, k \in Keys :
            Begin(s, "create", 0, [addr |-> a, key |-> k, on |-> TRUE], "flush")
    BY <1>2 DEF BeginCreate
  <2>2. [addr |-> a, key |-> k, on |-> TRUE] \in Row
    BY DEF Row
  <2> QED
    BY <2>1, <2>2, BeginStep DEF Edits, AllOps
<1>3. CASE BeginToggle(s)
  <2>1. PICK i \in Live(rows) : Begin(s, "toggle", i, [rows[i] EXCEPT !.on = ~@], "flush")
    BY <1>3 DEF BeginToggle
  <2>2. i \in Ids /\ [rows[i] EXCEPT !.on = ~@] \in Row
    BY <1>1 DEF Live, Row
  <2> QED
    BY <2>1, <2>2, BeginStep DEF Edits, AllOps
<1>4. CASE BeginRotate(s)
  <2>1. PICK i \in Live(rows), k \in Keys :
            Begin(s, "rotate", i, [rows[i] EXCEPT !.key = k], "flush")
    BY <1>4 DEF BeginRotate
  <2>2. i \in Ids /\ [rows[i] EXCEPT !.key = k] \in Row
    BY <1>1 DEF Live, Row
  <2> QED
    BY <2>1, <2>2, BeginStep DEF Edits, AllOps
<1>5. CASE BeginEdit(s)
  <2>1. PICK i \in Live(rows) : Begin(s, "edit", i, rows[i], "flush")
    BY <1>5 DEF BeginEdit
  <2>2. i \in Ids /\ rows[i] \in Row
    BY <1>1 DEF Live
  <2> QED
    BY <2>1, <2>2, BeginStep DEF Edits, AllOps
<1>6. CASE BeginRemove(s)
  <2>1. PICK i \in Live(rows) : Begin(s, "remove", i, None, "flush")
    BY <1>6 DEF BeginRemove
  <2>2. i \in Ids
    BY DEF Live
  <2> QED
    BY <2>1, <2>2, BeginStep DEF Edits, AllOps
<1>7. CASE BeginSync(s)
  BY <1>7, BeginStep DEF BeginSync, Edits, AllOps
<1>8. CASE BeginPush(s)
  BY <1>8, BeginStep DEF BeginPush, Edits, AllOps
<1> QED
  BY <1>2, <1>3, <1>4, <1>5, <1>6, <1>7, <1>8 DEF Start

(* Every other step of a session.                                          *)
LEMMA StepStep ==
    ASSUME HubInv, NEW s \in Sessions, Step(s)
    PROVE  HubInv'
<1>1. TypeOK /\ {s} \in SUBSET Sessions
  BY DEF HubInv
<1>2. CASE Flush(s)
  BY <1>2, FlushStep
<1>3. CASE FlushRejected(s) \/ FlushTimeout(s) \/ Rollback(s)
  BY <1>1, <1>3, StopStep DEF FlushRejected, FlushTimeout, Rollback
<1> USE DEF TypeOK
<1>4. CASE PushReturns(s)
  BY <1>1, <1>4, BodyStep DEF PushReturns, Waiting, Labels
<1>5. CASE Render(s)
  <2>1. /\ pc[s] \notin Waiting /\ Goto(s, "open") /\ "open" \in Labels \ Waiting
        /\ UNCHANGED <<rows, writer, job, alone, tmp, file, device, fd>>
        /\ text' = [text EXCEPT ![s] = Rendered(Listed(s))] /\ pc[s] = "render"
    BY <1>5 DEF Render, Waiting, Labels, Body
  <2>2. Rendered(Listed(s)) \in Text
    BY <2>1, ListedType, RenderedType
  <2> QED
    BY <1>1, <2>1, <2>2, BodyStep
<1>6. CASE OpenTmp(s)
  <2>1. /\ pc[s] \notin Waiting /\ Goto(s, "write") /\ "write" \in Labels \ Waiting
        /\ UNCHANGED <<rows, writer, job, alone, file, device, text>>
        /\ tmp' \in Content /\ fd' = [fd EXCEPT ![s] = "tmp"]
    BY <1>6 DEF OpenTmp, Waiting, Labels, Body, Content
  <2> QED
    BY <1>1, <2>1, BodyStep DEF Fds
<1>7. CASE WriteTmp(s)
  <2>1. /\ pc[s] \notin Waiting /\ Goto(s, "replace") /\ "replace" \in Labels \ Waiting
        /\ UNCHANGED <<rows, writer, job, alone, device, text>>
        /\ fd' = [fd EXCEPT ![s] = "closed"]
    BY <1>7 DEF WriteTmp, Waiting, Labels, Body
  <2>2. \A c : Over(c, text[s]) \subseteq Content
    BY <1>1 DEF Over, Content
  <2>3. tmp' \in Content \cup {None} /\ file' \in Content
    BY <1>1, <1>7, <2>2 DEF WriteTmp
  <2> QED
    BY <1>1, <2>1, <2>3, BodyStep DEF Fds
<1>8. CASE Replace(s)
  <2>1. PICK l \in {"raised", "strip"} : Goto(s, l)
    BY <1>8 DEF Replace
  <2>2. /\ pc[s] \notin Waiting /\ l \in Labels \ Waiting /\ pc[s] = "replace"
        /\ UNCHANGED <<rows, writer, job, alone, device, text>>
        /\ tmp' \in {tmp, None} /\ (file' = file \/ (tmp # None /\ file' = tmp))
        /\ fd' = fd \/ fd' = [t \in Sessions |-> Moved(fd[t])]
    BY <1>8, <2>1 DEF Replace, Waiting, Labels, Body
  <2>3. fd' \in [Sessions -> Fds]
    BY <1>1, <2>2 DEF Moved, Fds
  <2>4. \A t \in Sessions : fd'[t] = "closed" <=> fd[t] = "closed"
    BY <2>2 DEF Moved
  <2>5. tmp' \in Content \cup {None} /\ file' \in Content
    BY <1>1, <2>2
  <2> QED
    BY <1>1, <2>1, <2>2, <2>3, <2>4, <2>5, BodyStep
<1>9. CASE BringUp(s) \/ SyncConf(s)
  <2>1. /\ pc[s] \notin Waiting /\ Goto(s, "exit") /\ "exit" \in Labels \ Waiting
        /\ UNCHANGED <<rows, writer, job, alone, tmp, file, text, fd>>
        /\ device' \in {Peers(file), text[s]} /\ pc[s] \in {"strip", "apply"}
    BY <1>9 DEF BringUp, SyncConf, Waiting, Labels, Body
  <2>2. device' \in Text \cup {Down, Torn}
    BY <1>1, <2>1, PeersType
  <2> QED
    BY <1>1, <2>1, <2>2, BodyStep
<1>10. CASE Strip(s) \/ ApplyFails(s)
  <2>1. PICK l \in {"apply", "raised"} : Goto(s, l)
    BY <1>10 DEF Strip, ApplyFails
  <2>2. /\ pc[s] \notin Waiting /\ l \in Labels \ Waiting /\ pc[s] \in {"strip", "apply"}
        /\ UNCHANGED <<rows, writer, job, alone, tmp, file, device, fd>>
        /\ text' = text \/ text' = [text EXCEPT ![s] = Peers(file)]
    BY <1>10, <2>1 DEF Strip, ApplyFails, Waiting, Labels, Body
  <2>3. text' \in [Sessions -> Text \cup {Torn}]
    BY <1>1, <2>2, PeersType
  <2> QED
    BY <1>1, <2>1, <2>2, <2>3, BodyStep
<1>11. CASE Dispatch(s)
  <2>1. PICK l \in {"commit", "rollback"} : Goto(s, l)
    BY <1>11 DEF Dispatch
  <2>2. /\ pc[s] \notin Waiting /\ l \in Labels \ Waiting /\ pc[s] \in {"exit", "raised"}
        /\ UNCHANGED <<rows, writer, job, alone, tmp, file, device, text, fd>>
    BY <1>11, <2>1 DEF Dispatch, Waiting, Labels
  <2> QED
    BY <1>1, <2>1, <2>2, BodyStep
<1>12. CASE Commit(s)
  BY <1>12, CommitStep
<1> QED
  BY <1>2, <1>3, <1>4, <1>5, <1>6, <1>7, <1>8, <1>9, <1>10, <1>11, <1>12 DEF Step

(* The invariant is inductive.                                             *)
LEMMA NextInv == HubInv /\ [Next]_vars => HubInv'
<1> SUFFICES ASSUME HubInv, [Next]_vars PROVE HubInv'
  OBVIOUS
<1>1. ASSUME NEW s \in Sessions, Start(s) PROVE HubInv'
  BY <1>1, StartStep
<1>2. ASSUME NEW s \in Sessions, Step(s) PROVE HubInv'
  BY <1>2, StepStep
<1>3. ASSUME NEW s \in Sessions, KillCommand(s) PROVE HubInv'
  <2>1. {s} \in SUBSET Sessions
    OBVIOUS
  <2> QED
    BY <1>3, <2>1, StopStep DEF KillCommand
<1>4. CASE KillPanel
  <2>1. Requests \in SUBSET Sessions
    BY DEF Sessions
  <2> QED
    BY <1>4, <2>1, StopStep DEF KillPanel
<1>5. CASE Reboot
  <2>1. Sessions \in SUBSET Sessions
    OBVIOUS
  <2> QED
    BY <1>5, <2>1, StopStep DEF Reboot
<1>6. CASE UNCHANGED vars
  <2>1. TypeOK' /\ UniquePeers'
    BY <1>6 DEF vars, HubInv, TypeOK, UniquePeers, UniqueIn, Live
  <2>2. ASSUME NEW t \in Sessions PROVE SessionInv(t)'
    <3>1. SessionInv(t) /\ (Collides(t)' <=> Collides(t))
      BY <1>6 DEF vars, HubInv, Collides, AddressTaken, KeyRegistered, Live
    <3> QED
      BY <1>6, <3>1 DEF vars, SessionInv
  <2> QED
    BY <2>1, <2>2 DEF HubInv
<1> QED
  BY <1>1, <1>2, <1>3, <1>4, <1>5, <1>6 DEF Next

-----------------------------------------------------------------------------

(* So it holds in every reachable state.                                   *)
LEMMA HubInvariant == Spec => []HubInv
BY InitInv, NextInv, PTL DEF Spec

(* Every variable keeps its type, for all operations and all faults.       *)
THEOREM TypeCorrect == Spec => []TypeOK
<1>1. HubInv => TypeOK
  BY DEF HubInv
<1> QED
  BY <1>1, HubInvariant, PTL

(* No two committed peers ever share an address or a key: the checks of    *)
(* PeerService.create are made outside the transaction and may be stale,   *)
(* the constraints and the write lock are what the theorem rests on.       *)
THEOREM PeersStayUnique == Spec => []UniquePeers
<1>1. HubInv => UniquePeers
  BY DEF HubInv
<1> QED
  BY <1>1, HubInvariant, PTL

-----------------------------------------------------------------------------
(* Any fault.  What a session renders is its draft when the rows it loaded *)
(* are as fresh as the table: when no operation renders a loaded row, or   *)
(* when nobody else could have changed it.                                 *)

Single == \A s, t \in Sessions : s = t

NoStaleRows == Single \/ Ops \cap Edits = {}

\* One session at most is between its flush and its end: there is but one, or
\* each holds the write lock from the flush on.
LockedOps == {"create", "remove", "push"}

OneAtWork == Single \/ Ops \subseteq LockedOps

FreshInv ==
    \A s \in Sessions : job[s].op \in Ops \cup {"none"} /\ Listed(s) = Draft(s)

(* The draft of a session depends on the table and on its own job.         *)
LEMMA SameDraft ==
    ASSUME NEW s \in Sessions, UNCHANGED rows, job'[s] = job[s]
    PROVE  Draft(s)' = Draft(s) /\ Rendered(rows)' = Rendered(rows)
           /\ Rendered(Draft(s))' = Rendered(Draft(s))
<1>1. Draft(s)' = Draft(s)
  BY DEF Draft
<1> QED
  BY <1>1 DEF Rendered, Live

(* What a step does to the job of a session.                               *)
LEMMA JobMoves ==
    ASSUME HubInv, [Next]_vars, NEW t \in Sessions
    PROVE  \/ Start(t)
           \/ job'[t] = NoJob
           \/ job'[t] = job[t] /\ (UNCHANGED rows \/ \E s \in Sessions \ {t} : Commit(s))
           \/ job'[t].op = job[t].op /\ job[t].op = "create"
<1>1. job = [u \in Sessions |-> job[u]]
  BY DEF HubInv, TypeOK
<1>2. ASSUME NEW s \in Sessions \ {t}, Start(s) PROVE job'[t] = job[t] /\ UNCHANGED rows
  BY <1>1, <1>2 DEF Start, BeginCreate, BeginToggle, BeginRotate, BeginEdit, BeginRemove, BeginSync,
                    BeginPush, Begin
<1>3. ASSUME NEW S \in SUBSET Sessions, Stop(S) PROVE job'[t] = IF t \in S THEN NoJob ELSE job[t]
  BY <1>3 DEF Stop
<1>4. ASSUME NEW s \in Sessions, Flush(s)
      PROVE  UNCHANGED rows /\ (job'[t] = job[t] \/ (job'[t].op = job[t].op /\ job[t].op = "create"))
  <2>1. CASE job[s].op = "create"
    <3>1. PICK i \in Ids : job' = [job EXCEPT ![s].id = i]
      BY <1>4, <2>1 DEF Flush
    <3>2. job[s] \in [op : AllOps \cup {"none"}, id : Ids \cup {0}, row : Row \cup {None}]
      BY DEF HubInv, TypeOK
    <3>3. job'[t] = IF t = s THEN [job[s] EXCEPT !.id = i] ELSE job[t]
      BY <1>1, <3>1
    <3> QED
      BY <1>4, <2>1, <3>2, <3>3 DEF Flush
  <2>2. CASE job[s].op # "create"
    BY <1>4, <2>2 DEF Flush
  <2> QED
    BY <2>1, <2>2
<1>5. ASSUME NEW s \in Sessions,
             \/ PushReturns(s) \/ Render(s) \/ OpenTmp(s) \/ WriteTmp(s) \/ Replace(s) \/ BringUp(s)
             \/ Strip(s) \/ SyncConf(s) \/ ApplyFails(s) \/ Dispatch(s)
      PROVE  job'[t] = job[t] /\ UNCHANGED rows
  BY <1>5 DEF PushReturns, Render, OpenTmp, WriteTmp, Replace, BringUp, Strip, SyncConf, ApplyFails, Dispatch
<1>6. ASSUME NEW s \in Sessions,
             FlushRejected(s) \/ FlushTimeout(s) \/ Rollback(s) \/ Commit(s) \/ KillCommand(s)
      PROVE  /\ job'[t] = IF t = s THEN NoJob ELSE job[t]
             /\ UNCHANGED rows \/ Commit(s)
  <2>1. Stop({s}) /\ {s} \in SUBSET Sessions
    BY <1>6 DEF FlushRejected, FlushTimeout, Rollback, Commit, KillCommand
  <2>2. UNCHANGED rows \/ Commit(s)
    BY <1>6 DEF FlushRejected, FlushTimeout, Rollback, Commit, KillCommand
  <2> QED
    BY <1>3, <2>1, <2>2
<1>7. CASE KillPanel \/ Reboot
  <2>1. PICK S \in SUBSET Sessions : Stop(S)
    BY <1>7 DEF KillPanel, Reboot, Sessions
  <2>2. UNCHANGED rows
    BY <1>7 DEF KillPanel, Reboot
  <2> QED
    BY <1>3, <2>1, <2>2
<1>8. CASE UNCHANGED vars
  BY <1>8 DEF vars
<1>9. ASSUME NEW s \in Sessions, Step(s)
      PROVE  \/ job'[t] = NoJob
             \/ job'[t] = job[t] /\ (UNCHANGED rows \/ \E u \in Sessions \ {t} : Commit(u))
             \/ job'[t].op = job[t].op /\ job[t].op = "create"
  BY <1>4, <1>5, <1>6, <1>9 DEF Step
<1> QED
  BY <1>2, <1>6, <1>7, <1>8, <1>9 DEF Next

(* A session begins with the row as the table has it.                      *)
LEMMA BeginFresh ==
    ASSUME HubInv, NEW t \in Sessions, Start(t)
    PROVE  job'[t].op \in Ops /\ Listed(t)' = Draft(t)'
<1>1. /\ rows \in [Ids -> Row \cup {None}]
      /\ \A i \in Live(rows) : i \in Ids /\ rows[i] \in Row
      /\ job = [u \in Sessions |-> job[u]]
  BY DEF HubInv, TypeOK, Live
<1>2. ASSUME NEW op, NEW i, NEW r, NEW label, Begin(t, op, i, r, label)
      PROVE  op \in Ops /\ job'[t] = [op |-> op, id |-> i, row |-> r] /\ rows' = rows
  BY <1>1, <1>2 DEF Begin
<1>3. ASSUME NEW i, NEW r, NEW op, op \notin Edits, job'[t] = [op |-> op, id |-> i, row |-> r]
      PROVE  Listed(t)' = Draft(t)'
  BY <1>3 DEF Listed
<1>4. CASE BeginToggle(t)
  <2>1. PICK i \in Live(rows) : Begin(t, "toggle", i, [rows[i] EXCEPT !.on = ~@], "flush")
    BY <1>4 DEF BeginToggle
  <2> DEFINE r == [rows[i] EXCEPT !.on = ~@]
  <2>2. "toggle" \in Ops /\ job'[t] = [op |-> "toggle", id |-> i, row |-> r] /\ rows' = rows
    BY <1>2, <2>1
  <2> HIDE DEF r
  <2>3. Draft(t)' = [rows EXCEPT ![i].on = r.on]
    <3>1. job'[t].op = "toggle" /\ job'[t].id = i /\ job'[t].row = r
      BY <2>2
    <3> QED
      BY <2>2, <3>1 DEF Draft
  <2>4. rows[i] \in Row /\ i \in Ids
    BY <1>1
  <2>5. [rows[i] EXCEPT !.on = r.on] = r
    BY <2>4 DEF r, Row
  <2>6. [[rows EXCEPT ![i].on = r.on] EXCEPT ![i] = r] = [rows EXCEPT ![i].on = r.on]
    BY <1>1, <2>4, <2>5
  <2>7. Listed(t)' = Draft(t)'
    BY <2>2, <2>3, <2>6 DEF Listed
  <2> QED
    BY <2>2, <2>7
<1>5. CASE BeginRotate(t)
  <2>1. PICK i \in Live(rows), k \in Keys :
            Begin(t, "rotate", i, [rows[i] EXCEPT !.key = k], "flush")
    BY <1>5 DEF BeginRotate
  <2> DEFINE r == [rows[i] EXCEPT !.key = k]
  <2>2. "rotate" \in Ops /\ job'[t] = [op |-> "rotate", id |-> i, row |-> r] /\ rows' = rows
    BY <1>2, <2>1
  <2> HIDE DEF r
  <2>3. Draft(t)' = [rows EXCEPT ![i].key = r.key]
    <3>1. job'[t].op = "rotate" /\ job'[t].id = i /\ job'[t].row = r
      BY <2>2
    <3> QED
      BY <2>2, <3>1 DEF Draft
  <2>4. rows[i] \in Row /\ i \in Ids
    BY <1>1
  <2>5. [rows[i] EXCEPT !.key = r.key] = r
    BY <2>4 DEF r, Row
  <2>6. [[rows EXCEPT ![i].key = r.key] EXCEPT ![i] = r] = [rows EXCEPT ![i].key = r.key]
    BY <1>1, <2>4, <2>5
  <2>7. Listed(t)' = Draft(t)'
    BY <2>2, <2>3, <2>6 DEF Listed
  <2> QED
    BY <2>2, <2>7
<1>6. CASE BeginEdit(t)
  <2>1. PICK i \in Live(rows) : Begin(t, "edit", i, rows[i], "flush")
    BY <1>6 DEF BeginEdit
  <2>2. "edit" \in Ops /\ job'[t] = [op |-> "edit", id |-> i, row |-> rows[i]] /\ rows' = rows
    BY <1>2, <2>1
  <2>3. Draft(t)' = rows
    BY <2>2 DEF Draft
  <2>4. [rows EXCEPT ![i] = rows[i]] = rows
    BY <1>1
  <2>5. Listed(t)' = Draft(t)'
    BY <2>2, <2>3, <2>4 DEF Listed
  <2> QED
    BY <2>2, <2>5
<1>7. CASE BeginCreate(t) \/ BeginRemove(t) \/ BeginSync(t) \/ BeginPush(t)
  <2>1. PICK op \in {"create", "remove", "sync", "push"} : \E i, r, label : Begin(t, op, i, r, label)
    BY <1>7 DEF BeginCreate, BeginRemove, BeginSync, BeginPush
  <2>2. PICK i, r, label : Begin(t, op, i, r, label)
    BY <2>1
  <2>3. op \in Ops /\ job'[t] = [op |-> op, id |-> i, row |-> r] /\ op \notin Edits
    BY <1>2, <2>1, <2>2 DEF Edits
  <2>4. Listed(t)' = Draft(t)'
    BY <1>3, <2>3
  <2> QED
    BY <2>3, <2>4
<1> QED
  BY <1>4, <1>5, <1>6, <1>7 DEF Start

LEMMA FreshStep ==
    ASSUME HubInv, FreshInv, NoStaleRows, [Next]_vars
    PROVE  FreshInv'
<1> SUFFICES ASSUME NEW t \in Sessions
             PROVE  job'[t].op \in Ops \cup {"none"} /\ Listed(t)' = Draft(t)'
  BY DEF FreshInv
<1>1. job[t].op \in Ops \cup {"none"} /\ Listed(t) = Draft(t)
  BY DEF FreshInv
<1>2. job'[t].op \notin Edits => Listed(t)' = Draft(t)'
  BY DEF Listed
<1>3. CASE Start(t)
  BY <1>3, BeginFresh
<1>4. CASE job'[t] = NoJob
  BY <1>2, <1>4 DEF NoJob, Edits
<1>5. CASE job'[t].op = job[t].op /\ job[t].op = "create"
  BY <1>1, <1>2, <1>5 DEF Edits
<1>6. CASE job'[t] = job[t] /\ (UNCHANGED rows \/ \E s \in Sessions \ {t} : Commit(s))
  <2>1. CASE Ops \cap Edits = {}
    BY <1>1, <1>2, <1>6, <2>1 DEF Edits
  <2>2. CASE Single
    <3>1. UNCHANGED rows
      BY <1>6, <2>2 DEF Single
    <3>2. Draft(t)' = Draft(t)
      BY <1>6, <3>1, SameDraft
    <3>3. Listed(t)' = Listed(t)
      BY <1>6, <3>2 DEF Listed
    <3> QED
      BY <1>1, <1>6, <3>2, <3>3
  <2> QED
    BY <2>1, <2>2 DEF NoStaleRows
<1> QED
  BY <1>3, <1>4, <1>5, <1>6, JobMoves

LEMMA FreshInvariant ==
    ASSUME NoStaleRows
    PROVE  Spec => [](HubInv /\ FreshInv)
<1>1. Init => FreshInv
  BY DEF Init, FreshInv, NoJob, Listed, Edits
<1>2. HubInv /\ FreshInv /\ [Next]_vars => FreshInv'
  BY FreshStep
<1> QED
  BY <1>1, <1>2, HubInvariant, PTL DEF Spec

-----------------------------------------------------------------------------
(* A table of unique peers is rendered without ambiguity.                  *)
LEMMA RenderedUnambiguously ==
    ASSUME NEW t, UniqueIn(t), Rendered(t) # Torn
    PROVE  Unambiguous(Rendered(t))
<1> SUFFICES ASSUME NEW p \in Rendered(t), NEW q \in Rendered(t),
                    p[1] = q[1] \/ p[2] = q[2]
             PROVE  p = q
  BY DEF Unambiguous
<1>1. PICK i \in Live(t) : p = <<t[i].addr, t[i].key>>
  BY DEF Rendered
<1>2. PICK j \in Live(t) : q = <<t[j].addr, t[j].key>>
  BY DEF Rendered
<1>3. i = j
  BY <1>1, <1>2 DEF UniqueIn
<1> QED
  BY <1>1, <1>2, <1>3

-----------------------------------------------------------------------------
(* What a commit publishes.                                                *)

\* How far a session has brought its draft.
PublishInv(s) ==
    /\ pc[s] = "await" => job[s].op = "push"
    /\ pc[s] \in {"open", "write", "apply"} => text[s] = Rendered(Draft(s))
    /\ pc[s] = "write" => fd[s] = "tmp" /\ tmp = Blank
    /\ pc[s] = "replace" => tmp = Rendered(Draft(s))
    /\ pc[s] \in {"strip", "apply"} => file = Rendered(Draft(s))
    /\ pc[s] \in {"exit", "commit"} /\ job[s].op # "push" =>
           file = Rendered(Draft(s)) /\ device = file

(* Its own steps keep it so.                                               *)
LEMMA PublishBody ==
    ASSUME NEW s \in Sessions, pc[s] \notin Waiting, pc \in [Sessions -> Labels],
           NEW l, Goto(s, l), UNCHANGED <<rows, job>>,
           l = "await" => job[s].op = "push",
           l \in {"open", "write", "apply"} => text'[s] = Rendered(Draft(s)),
           l = "write" => fd'[s] = "tmp" /\ tmp' = Blank,
           l = "replace" => tmp' = Rendered(Draft(s)),
           l \in {"strip", "apply"} => file' = Rendered(Draft(s)),
           l \in {"exit", "commit"} /\ job[s].op # "push" =>
               file' = Rendered(Draft(s)) /\ device' = file'
    PROVE  PublishInv(s)'
<1>1. pc'[s] = l
  BY DEF Goto
<1>2. Rendered(Draft(s))' = Rendered(Draft(s)) /\ job'[s] = job[s]
  BY SameDraft
<1> QED
  BY <1>1, <1>2 DEF PublishInv

LEMMA PublishOwn ==
    ASSUME HubInv, NEW s \in Sessions, PublishInv(s), Listed(s) = Draft(s), Step(s)
    PROVE  PublishInv(s)'
<1> DEFINE d == Rendered(Draft(s))
<1>1. /\ pc \in [Sessions -> Labels] /\ text \in [Sessions -> Text \cup {Torn}]
      /\ fd \in [Sessions -> Fds]
  BY DEF HubInv, TypeOK
<1>2. pc[s] \notin Waiting => d \in Text /\ d \notin {None, Blank, Torn}
  BY DraftUnique, RenderedType, HubAssumption
<1>3. CASE Flush(s)
  <2>1. /\ pc' = [pc EXCEPT ![s] = IF job[s].op = "push" THEN "await" ELSE "render"]
        /\ job'[s].op = job[s].op
    BY <1>3 DEF Flush, Goto, HubInv, TypeOK
  <2> QED
    BY <1>1, <2>1 DEF PublishInv
<1>4. CASE FlushRejected(s) \/ FlushTimeout(s) \/ Rollback(s) \/ Commit(s)
  <2>1. pc'[s] = "idle"
    BY <1>4 DEF FlushRejected, FlushTimeout, Rollback, Commit, Stop
  <2> QED
    BY <2>1 DEF PublishInv
<1>5. CASE PushReturns(s)
  <2>1. pc[s] = "await" /\ job[s].op = "push" /\ Goto(s, "exit") /\ UNCHANGED <<rows, job>>
    BY <1>5 DEF PushReturns, PublishInv
  <2> QED
    BY <1>1, <2>1, PublishBody DEF Waiting
<1>6. CASE Render(s)
  <2>1. pc[s] = "render" /\ Goto(s, "open") /\ UNCHANGED <<rows, job>> /\ text'[s] = d
    BY <1>1, <1>6 DEF Render
  <2> QED
    BY <1>1, <2>1, PublishBody DEF Waiting
<1>7. CASE OpenTmp(s)
  <2>1. /\ pc[s] = "open" /\ Goto(s, "write") /\ UNCHANGED <<rows, job>>
        /\ text'[s] = d /\ fd'[s] = "tmp" /\ tmp' = Blank
    BY <1>1, <1>7 DEF OpenTmp, PublishInv
  <2> QED
    BY <1>1, <2>1, PublishBody DEF Waiting
<1>8. CASE WriteTmp(s)
  <2>1. pc[s] = "write" /\ text[s] = d /\ fd[s] = "tmp" /\ tmp = Blank
    BY <1>8 DEF WriteTmp, PublishInv
  <2>2. Goto(s, "replace") /\ UNCHANGED <<rows, job>> /\ tmp' = d
    BY <1>8, <2>1 DEF WriteTmp, Over
  <2> QED
    BY <1>1, <2>1, <2>2, PublishBody DEF Waiting
<1>9. CASE Replace(s)
  <2>1. pc[s] = "replace" /\ tmp = d /\ UNCHANGED <<rows, job>>
    BY <1>9 DEF Replace, PublishInv
  <2>2. Goto(s, "strip") /\ file' = tmp
    BY <1>2, <1>9, <2>1 DEF Replace, Waiting
  <2> QED
    BY <1>1, <2>1, <2>2, PublishBody DEF Waiting
<1>10. CASE BringUp(s) \/ SyncConf(s)
  <2>1. /\ pc[s] \in {"strip", "apply"} /\ Goto(s, "exit") /\ UNCHANGED <<rows, job>>
        /\ file = d /\ file' = d /\ device' \in {Peers(file), d}
    BY <1>10 DEF BringUp, SyncConf, PublishInv
  <2>2. Peers(d) = d
    BY <1>2, <2>1 DEF Peers, Waiting
  <2> QED
    BY <1>1, <2>1, <2>2, PublishBody DEF Waiting
<1>11. CASE Strip(s)
  <2>1. /\ pc[s] = "strip" /\ Goto(s, "apply") /\ UNCHANGED <<rows, job>>
        /\ file = d /\ file' = d /\ text'[s] = Peers(d)
    BY <1>1, <1>11 DEF Strip, PublishInv
  <2>2. Peers(d) = d
    BY <1>2, <2>1 DEF Peers, Waiting
  <2> QED
    BY <1>1, <2>1, <2>2, PublishBody DEF Waiting
<1>12. CASE ApplyFails(s)
  BY <1>1, <1>12, PublishBody DEF ApplyFails, Waiting
<1>13. CASE Dispatch(s)
  <2>1. CASE pc[s] = "raised"
    BY <1>1, <1>13, <2>1, PublishBody DEF Dispatch, Waiting
  <2>2. CASE pc[s] = "exit"
    <3>1. /\ Goto(s, "commit") /\ UNCHANGED <<rows, job, file, device>>
          /\ job[s].op # "push" => file = d /\ device = file
      BY <1>13, <2>2 DEF Dispatch, PublishInv
    <3> QED
      BY <1>1, <2>2, <3>1, PublishBody DEF Waiting
  <2> QED
    BY <1>13, <2>1, <2>2 DEF Dispatch
<1> QED
  BY <1>3, <1>4, <1>5, <1>6, <1>7, <1>8, <1>9, <1>10, <1>11, <1>12, <1>13 DEF Step

(* While a session is past its flush, no other is.                         *)
LEMMA OthersWait ==
    ASSUME HubInv, FreshInv, OneAtWork, NEW s \in Sessions, NEW t \in Sessions,
           pc[s] \notin Waiting, t # s
    PROVE  pc[t] \in Waiting
<1>1. SessionInv(s) /\ SessionInv(t) /\ Ops \subseteq LockedOps
  BY DEF HubInv, OneAtWork, Single
<1>2. job[s].op \notin {"sync", "none"} /\ job[t].op # "sync"
  BY <1>1 DEF FreshInv, LockedOps, SessionInv, Waiting
<1> QED
  BY <1>1, <1>2 DEF SessionInv

(* Sessions end, and what they leave is not changed.                       *)
LEMMA PublishStop ==
    ASSUME \A t \in Sessions : PublishInv(t), NEW S \in SUBSET Sessions, Stop(S),
           UNCHANGED <<rows, tmp, file, device>>
    PROVE  \A t \in Sessions : PublishInv(t)'
<1> SUFFICES ASSUME NEW t \in Sessions PROVE PublishInv(t)'
  OBVIOUS
<1>1. CASE t \in S
  BY <1>1 DEF Stop, PublishInv
<1>2. CASE t \notin S
  <2>1. pc'[t] = pc[t] /\ job'[t] = job[t] /\ text'[t] = text[t] /\ fd'[t] = fd[t]
    BY <1>2 DEF Stop
  <2> QED
    BY <2>1, SameDraft DEF PublishInv
<1> QED
  BY <1>1, <1>2

(* A step of one session leaves what another has brought about alone.      *)
LEMMA PublishStep ==
    ASSUME HubInv, FreshInv, OneAtWork, \A t \in Sessions : PublishInv(t),
           NEW s \in Sessions, Step(s)
    PROVE  \A t \in Sessions : PublishInv(t)'
<1>1. PublishInv(s)'
  BY PublishOwn DEF FreshInv
<1>2. ASSUME NEW t \in Sessions \ {s} PROVE PublishInv(t)'
  <2>1. pc'[t] = pc[t] /\ job'[t] = job[t] /\ PublishInv(t)
    BY DEF HubInv, TypeOK, Step, Flush, FlushRejected, FlushTimeout, PushReturns, Render, OpenTmp,
           WriteTmp, Replace, BringUp, Strip, SyncConf, ApplyFails, Dispatch, Commit, Rollback,
           Goto, Stop
  <2>2. CASE pc[s] \in Waiting
    <3>1. UNCHANGED <<rows, tmp, file, device>> /\ text'[t] = text[t] /\ fd'[t] = fd[t]
      BY <2>2 DEF Waiting, Step, Flush, FlushRejected, FlushTimeout, PushReturns, Render, OpenTmp,
           WriteTmp, Replace, BringUp, Strip, SyncConf, ApplyFails, Dispatch, Commit, Rollback, Stop
    <3> QED
      BY <2>1, <3>1, SameDraft DEF PublishInv
  <2>3. CASE pc[s] \notin Waiting
    <3>1. pc'[t] \in Waiting
      BY <2>1, <2>3, OthersWait
    <3> QED
      BY <3>1 DEF PublishInv, Waiting
  <2> QED
    BY <2>2, <2>3
<1> QED
  BY <1>1, <1>2

LEMMA PublishNext ==
    ASSUME HubInv, FreshInv, OneAtWork, \A t \in Sessions : PublishInv(t), [Next]_vars
    PROVE  \A t \in Sessions : PublishInv(t)'
<1>1. ASSUME NEW s \in Sessions, Start(s), NEW t \in Sessions PROVE PublishInv(t)'
  <2>1. PICK label \in {"flush", "render"} : \E op, i, r : Begin(s, op, i, r, label)
    BY <1>1 DEF Start, BeginCreate, BeginToggle, BeginRotate, BeginEdit, BeginRemove, BeginSync, BeginPush
  <2>2. /\ UNCHANGED <<rows, tmp, file, device, text, fd>>
        /\ pc'[t] = IF t = s THEN label ELSE pc[t]
        /\ t # s => job'[t] = job[t]
    BY <2>1 DEF Begin, Goto, HubInv, TypeOK
  <2>3. CASE t = s
    BY <2>2, <2>3 DEF PublishInv
  <2>4. CASE t # s
    BY <2>2, <2>4, SameDraft DEF PublishInv
  <2> QED
    BY <2>3, <2>4
<1>2. ASSUME NEW s \in Sessions, KillCommand(s) PROVE \A t \in Sessions : PublishInv(t)'
  BY <1>2, PublishStop DEF KillCommand
<1>3. CASE KillPanel
  BY <1>3, PublishStop DEF KillPanel, Sessions
<1>4. CASE Reboot
  BY <1>4 DEF Reboot, Stop, PublishInv
<1>5. CASE UNCHANGED vars
  BY <1>5, SameDraft DEF vars, PublishInv
<1> QED
  BY <1>1, <1>2, <1>3, <1>4, <1>5, PublishStep DEF Next

LEMMA PublishInvariant ==
    ASSUME OneAtWork
    PROVE  Spec => [](HubInv /\ FreshInv /\ \A t \in Sessions : PublishInv(t))
<1>1. NoStaleRows
  BY DEF OneAtWork, NoStaleRows, LockedOps, Edits
<1>2. Init => \A t \in Sessions : PublishInv(t)
  BY DEF Init, PublishInv
<1>3. /\ HubInv /\ FreshInv /\ (\A t \in Sessions : PublishInv(t)) /\ [Next]_vars
      => (\A t \in Sessions : PublishInv(t))'
  BY PublishNext
<1> QED
  BY <1>1, <1>2, <1>3, FreshInvariant, PTL DEF Spec

(* A change that is committed is on disk and on the device, whatever       *)
(* failed, died or rebooted before: for one session with every operation,  *)
(* and for any number of them when all take the write lock first and       *)
(* render no row that they loaded.                                         *)
THEOREM CommitsPublish ==
    ASSUME OneAtWork
    PROVE  Spec => CommitPublishes
<1>1. ASSUME \A t \in Sessions : PublishInv(t)
      PROVE  \A s \in Sessions :
                 /\ pc[s] = "commit" /\ pc'[s] = "idle"
                 /\ job[s].op # "push"
                 /\ rows' = Draft(s)
                 => file = Rendered(rows') /\ device = file
  BY <1>1 DEF PublishInv
<1> QED
  BY <1>1, PublishInvariant, PTL DEF Spec, CommitPublishes

-----------------------------------------------------------------------------
(* What is served.                                                         *)

LEMMA ServedStep ==
    ASSUME HubInv, FreshInv, \A t \in Sessions : PublishInv(t), ServedUnambiguously, [Next]_vars
    PROVE  ServedUnambiguously'
<1> USE DEF ServedUnambiguously
<1>1. CASE UNCHANGED file /\ device' \in {device, Peers(file)}
  BY <1>1 DEF Unambiguous, Peers
<1>2. ASSUME NEW s \in Sessions, Step(s) PROVE ServedUnambiguously'
  <2> DEFINE d == Rendered(Draft(s))
  <2>1. pc[s] \notin Waiting => Unambiguous(d) /\ d # Blank /\ d # Torn /\ PublishInv(s)
    <3> SUFFICES ASSUME pc[s] \notin Waiting
                 PROVE  Unambiguous(d) /\ d # Blank /\ d # Torn /\ PublishInv(s)
      OBVIOUS
    <3>1. UniqueIn(Draft(s)) /\ d \in Text
      BY DraftUnique, RenderedType
    <3> QED
      BY <3>1, RenderedUnambiguously, HubAssumption
  <2>2. CASE WriteTmp(s)
    <3>1. fd[s] = "tmp" /\ UNCHANGED <<file, device>>
      BY <2>1, <2>2 DEF WriteTmp, PublishInv, Waiting
    <3> QED
      BY <1>1, <3>1
  <2>3. CASE Replace(s)
    <3>1. tmp = d /\ Unambiguous(d) /\ Peers(d) = d /\ UNCHANGED device
      BY <2>1, <2>3 DEF Replace, PublishInv, Waiting, Peers
    <3>2. file' \in {file, d}
      BY <2>3, <3>1 DEF Replace
    <3> QED
      BY <3>1, <3>2 DEF Unambiguous, Peers
  <2>4. CASE SyncConf(s)
    <3>1. text[s] = d /\ Unambiguous(d) /\ UNCHANGED file /\ device' = d
      BY <2>1, <2>4 DEF SyncConf, PublishInv, Waiting
    <3> QED
      BY <3>1 DEF Unambiguous, Peers
  <2>5. CASE ~(WriteTmp(s) \/ Replace(s) \/ SyncConf(s))
    BY <1>1, <1>2, <2>5 DEF Step, Flush, FlushRejected, FlushTimeout, PushReturns, Render, OpenTmp,
                            BringUp, Strip, ApplyFails, Dispatch, Commit, Rollback
  <2> QED
    BY <2>2, <2>3, <2>4, <2>5
<1>3. ASSUME NEW s \in Sessions, Start(s) \/ KillCommand(s) PROVE ServedUnambiguously'
  BY <1>1, <1>3 DEF Start, BeginCreate, BeginToggle, BeginRotate, BeginEdit, BeginRemove, BeginSync,
                    BeginPush, Begin, KillCommand
<1>4. CASE KillPanel \/ Reboot
  BY <1>1, <1>4 DEF KillPanel, Reboot
<1>5. CASE UNCHANGED vars
  BY <1>1, <1>5 DEF vars
<1> QED
  BY <1>2, <1>3, <1>4, <1>5 DEF Next

(* Under the same condition wg0.conf is never torn, and neither it nor the *)
(* device routes an address to two keys or a key to two addresses: not     *)
(* between a flush and its commit, not after a sync that failed half-way   *)
(* or was rolled back, not after a crash or a reboot.  The condition keeps *)
(* two writers out of the one temporary file: without it a sync that takes *)
(* no lock tears it.                                                       *)
THEOREM ServedWithoutAmbiguity ==
    ASSUME OneAtWork
    PROVE  Spec => []ServedUnambiguously
<1>1. Init => ServedUnambiguously
  BY HubAssumption DEF Init, ServedUnambiguously, Unambiguous, Peers, Text
<1>2. /\ HubInv /\ FreshInv /\ (\A t \in Sessions : PublishInv(t)) /\ ServedUnambiguously /\ [Next]_vars
      => ServedUnambiguously'
  BY ServedStep
<1> QED
  BY <1>1, <1>2, PublishInvariant, PTL DEF Spec

-----------------------------------------------------------------------------
(* Any operations, any number of sessions, any fault: the session nobody   *)
(* else is at work beside.                                                 *)

AloneInv ==
    \A s \in Sessions :
        alone = s =>
            /\ pc[s] # "idle"
            /\ \A t \in Sessions \ {s} : pc[t] = "idle"
            /\ Listed(s) = Draft(s)
            /\ PublishInv(s)

LEMMA AloneStart ==
    ASSUME HubInv, AloneInv, NEW s \in Sessions, Start(s)
    PROVE  AloneInv'
<1>1. PICK label \in {"flush", "render"} : \E op, i, r : Begin(s, op, i, r, label)
  BY DEF Start, BeginCreate, BeginToggle, BeginRotate, BeginEdit, BeginRemove, BeginSync, BeginPush
<1>2. /\ pc[s] = "idle" /\ pc' = [pc EXCEPT ![s] = label] /\ pc \in [Sessions -> Labels]
      /\ alone' = IF \A t \in Sessions \ {s} : pc[t] = "idle" THEN s ELSE None
  BY <1>1 DEF Begin, Goto, HubInv, TypeOK
<1>3. Listed(s)' = Draft(s)'
  BY BeginFresh
<1>4. PublishInv(s)'
  BY <1>2 DEF PublishInv
<1>5. CASE alone' = s
  <2>1. s # None /\ pc'[s] # "idle" /\ \A t \in Sessions \ {s} : pc[t] = "idle"
    BY <1>2, <1>5, HubAssumption
  <2>2. \A t \in Sessions \ {s} : pc'[t] = "idle"
    BY <1>2, <2>1
  <2>3. ASSUME NEW u \in Sessions, u = s
        PROVE  Listed(u)' = Draft(u)' /\ PublishInv(u)'
    BY <1>3, <1>4, <2>3
  <2> QED
    BY <1>5, <2>1, <2>2, <2>3 DEF AloneInv
<1>6. CASE alone' = None
  BY <1>6, HubAssumption DEF AloneInv
<1> QED
  BY <1>2, <1>5, <1>6

LEMMA AloneStep ==
    ASSUME HubInv, AloneInv, NEW s \in Sessions, Step(s)
    PROVE  AloneInv'
<1>1. pc[s] # "idle"
  BY DEF Step, Flush, FlushRejected, FlushTimeout, PushReturns, Render, OpenTmp, WriteTmp, Replace,
         BringUp, Strip, SyncConf, ApplyFails, Dispatch, Commit, Rollback
<1>2. alone' \in {alone, None}
  BY DEF Step, Flush, FlushRejected, FlushTimeout, PushReturns, Render, OpenTmp, WriteTmp, Replace,
         BringUp, Strip, SyncConf, ApplyFails, Dispatch, Commit, Rollback, Stop
<1>3. CASE alone' = None
  BY <1>3, HubAssumption DEF AloneInv
<1>4. CASE alone' = alone /\ alone # None
  <2>0. alone \in Sessions
    BY <1>4 DEF HubInv, TypeOK
  <2>1. alone = s /\ PublishInv(s) /\ Listed(s) = Draft(s) /\ \A t \in Sessions \ {s} : pc[t] = "idle"
    BY <1>1, <1>4, <2>0 DEF AloneInv
  <2>2. ~(FlushRejected(s) \/ FlushTimeout(s) \/ Commit(s) \/ Rollback(s))
    BY <1>4, <2>1 DEF FlushRejected, FlushTimeout, Commit, Rollback, Stop
  <2>3. /\ pc' = [pc EXCEPT ![s] = pc'[s]] /\ pc'[s] # "idle" /\ UNCHANGED rows
        /\ job'[s] = job[s] \/ (job[s].op = "create" /\ job'[s].op = "create")
    BY <2>2 DEF HubInv, TypeOK, Step, Flush, PushReturns, Render, OpenTmp, WriteTmp, Replace, BringUp,
                Strip, SyncConf, ApplyFails, Dispatch, Goto
  <2>4. PublishInv(s)'
    BY <2>1, PublishOwn
  <2>5. Listed(s)' = Draft(s)'
    <3>1. CASE job'[s] = job[s]
      <4>1. Draft(s)' = Draft(s)
        BY <2>3, <3>1, SameDraft
      <4>2. Listed(s)' = Listed(s)
        BY <3>1, <4>1 DEF Listed
      <4> QED
        BY <2>1, <4>1, <4>2
    <3>2. CASE job'[s].op = "create"
      BY <3>2 DEF Listed, Edits
    <3> QED
      BY <2>3, <3>1, <3>2
  <2>6. \A t \in Sessions \ {s} : pc'[t] = "idle"
    BY <2>1, <2>3 DEF HubInv, TypeOK
  <2> QED
    BY <1>4, <2>1, <2>3, <2>4, <2>5, <2>6 DEF AloneInv
<1> QED
  BY <1>2, <1>3, <1>4

LEMMA AloneStop ==
    ASSUME HubInv, AloneInv, NEW S \in SUBSET Sessions, Stop(S), UNCHANGED <<rows, tmp, file>>,
           UNCHANGED device \/ S = Sessions
    PROVE  AloneInv'
<1> SUFFICES ASSUME NEW s \in Sessions, alone' = s
             PROVE  /\ pc'[s] # "idle"
                    /\ \A t \in Sessions \ {s} : pc'[t] = "idle"
                    /\ Listed(s)' = Draft(s)'
                    /\ PublishInv(s)'
  BY DEF AloneInv
<1>1. alone = s /\ s \notin S
  BY HubAssumption DEF Stop
<1>2. UNCHANGED device
  BY <1>1
<1>3. /\ pc'[s] = pc[s] /\ job'[s] = job[s] /\ text'[s] = text[s] /\ fd'[s] = fd[s]
      /\ \A t \in Sessions : pc'[t] \in {pc[t], "idle"}
  BY <1>1 DEF Stop
<1>4. /\ Draft(s)' = Draft(s) /\ Listed(s)' = Listed(s)
      /\ Rendered(Draft(s))' = Rendered(Draft(s))
  BY <1>3, SameDraft DEF Listed
<1> QED
  BY <1>1, <1>2, <1>3, <1>4 DEF AloneInv, PublishInv

LEMMA AloneNext ==
    ASSUME HubInv, AloneInv, [Next]_vars
    PROVE  AloneInv'
<1>1. ASSUME NEW s \in Sessions, KillCommand(s) PROVE AloneInv'
  <2>1. {s} \in SUBSET Sessions
    OBVIOUS
  <2> QED
    BY <1>1, <2>1, AloneStop DEF KillCommand
<1>2. CASE KillPanel
  BY <1>2, AloneStop DEF KillPanel, Sessions
<1>3. CASE Reboot
  BY <1>3, AloneStop DEF Reboot
<1>4. CASE UNCHANGED vars
  <2>1. \A s \in Sessions : /\ Draft(s)' = Draft(s) /\ Listed(s)' = Listed(s)
                            /\ Rendered(Draft(s))' = Rendered(Draft(s))
    BY <1>4, SameDraft DEF vars, Listed
  <2> QED
    BY <1>4, <2>1 DEF vars, AloneInv, PublishInv
<1> QED
  BY <1>1, <1>2, <1>3, <1>4, AloneStart, AloneStep DEF Next

(* A session that nobody else was at work beside since it began, and that  *)
(* nothing failed in, leaves wg0.conf and the device as the table it is    *)
(* about to commit - whatever kills, reboots, failed syncs and torn        *)
(* temporary files came before it, for every operation and any number of   *)
(* sessions.                                                               *)
THEOREM WhoIsAloneRepairs == Spec => []AloneRepairs
<1>1. Init => AloneInv
  BY HubAssumption DEF Init, AloneInv
<1>2. HubInv /\ AloneInv /\ [Next]_vars => AloneInv'
  BY AloneNext
<1>3. HubInv /\ AloneInv => AloneRepairs
  <2>1. HubInv => alone \in Sessions \cup {None}
    BY DEF HubInv, TypeOK
  <2> QED
    BY <2>1 DEF AloneInv, AloneRepairs, PublishInv
<1> QED
  BY <1>1, <1>2, <1>3, HubInvariant, PTL DEF Spec

-----------------------------------------------------------------------------
(* Without faults.  File and device are level with the table, or with the  *)
(* draft of the session at work.                                           *)

Orderly == OneAtWork /\ Faults = {}

Level == file = Rendered(rows) /\ device \in {Down, Rendered(rows)}

FollowInv(s) ==
    /\ pc[s] \notin {"raised", "rollback"}
    /\ pc[s] \in {"await", "render", "open", "write", "replace"} => Level
    /\ pc[s] \in {"strip", "apply"} => device \in {Down, Rendered(rows)}
    /\ pc[s] \in {"exit", "commit"} /\ job[s].op = "push" => Level

Quiet == \A s \in Sessions : pc[s] \in Waiting

WorkInv ==
    /\ FreshInv
    /\ \A s \in Sessions : PublishInv(s) /\ FollowInv(s)
    /\ Quiet => Level

(* While a session has the table as it is, Level says the same.            *)
LEMMA SameLevel ==
    ASSUME UNCHANGED <<rows, file, device>>
    PROVE  (Level' <=> Level) /\ Rendered(rows)' = Rendered(rows)
  BY DEF Level, Rendered, Live

(* A step of the session at work, short of its commit.                     *)
LEMMA FollowBody ==
    ASSUME HubInv, WorkInv, OneAtWork, NEW s \in Sessions, pc[s] \notin Waiting,
           NEW l \in Labels \ (Waiting \cup {"raised", "rollback"}), Goto(s, l),
           UNCHANGED <<rows, job>>,
           l \in {"await", "render", "open", "write", "replace"} => Level',
           l \in {"strip", "apply"} => device' \in {Down, Rendered(rows)},
           l \in {"exit", "commit"} /\ job[s].op = "push" => Level'
    PROVE  (\A t \in Sessions : FollowInv(t)') /\ (Quiet' => Level')
<1>1. pc' = [pc EXCEPT ![s] = l] /\ pc \in [Sessions -> Labels]
  BY DEF HubInv, TypeOK, Goto
<1>2. Rendered(rows)' = Rendered(rows)
  BY DEF Rendered, Live
<1>3. FollowInv(s)'
  BY <1>1, <1>2 DEF FollowInv
<1>4. ASSUME NEW t \in Sessions \ {s} PROVE FollowInv(t)'
  <2>1. pc'[t] \in Waiting
    BY <1>1, OthersWait DEF WorkInv
  <2> QED
    BY <2>1 DEF FollowInv, Waiting
<1>5. ~Quiet'
  BY <1>1 DEF Quiet
<1> QED
  BY <1>3, <1>4, <1>5

(* A step of a session before its flush.                                   *)
LEMMA FollowRest ==
    ASSUME HubInv, WorkInv, NEW s \in Sessions, pc[s] \in Waiting,
           UNCHANGED <<rows, tmp, file, device>>,
           NEW l \in Labels \ {"raised", "rollback"}, pc' = [pc EXCEPT ![s] = l],
           \A t \in Sessions \ {s} : job'[t] = job[t],
           l \in Waiting \/ (Level /\ l \in {"await", "render"})
    PROVE  (\A t \in Sessions : FollowInv(t)') /\ (Quiet' => Level')
<1>1. pc \in [Sessions -> Labels]
  BY DEF HubInv, TypeOK
<1>2. (Level' <=> Level) /\ Rendered(rows)' = Rendered(rows)
  BY SameLevel
<1>3. FollowInv(s)'
  BY <1>1, <1>2 DEF FollowInv, Waiting
<1>4. ASSUME NEW t \in Sessions \ {s} PROVE FollowInv(t)'
  <2>1. FollowInv(t) /\ pc'[t] = pc[t]
    BY <1>1 DEF WorkInv
  <2> QED
    BY <1>2, <2>1 DEF FollowInv
<1>5. Quiet' => Quiet
  BY <1>1 DEF Quiet
<1> QED
  BY <1>2, <1>3, <1>4, <1>5 DEF WorkInv

LEMMA FollowStart ==
    ASSUME HubInv, WorkInv, OneAtWork, NEW s \in Sessions, Start(s)
    PROVE  (\A t \in Sessions : FollowInv(t)') /\ (Quiet' => Level')
<1>1. pc[s] = "idle"
  BY DEF Start, BeginCreate, BeginToggle, BeginRotate, BeginEdit, BeginRemove, BeginSync, BeginPush,
         Begin
<1>2. ASSUME NEW op, NEW i, NEW r, NEW label \in {"flush", "render"}, Begin(s, op, i, r, label),
             op = "sync" <=> label = "render"
      PROVE  (\A t \in Sessions : FollowInv(t)') /\ (Quiet' => Level')
  <2>1. /\ pc' = [pc EXCEPT ![s] = label] /\ UNCHANGED <<rows, tmp, file, device>>
        /\ \A t \in Sessions \ {s} : job'[t] = job[t]
        /\ op \in Ops
    BY <1>2 DEF Begin, Goto, HubInv, TypeOK
  <2>2. label = "render" => Level
    <3>1. op = "sync" => Single
      BY <2>1 DEF OneAtWork, LockedOps
    <3>2. Single => Quiet
      BY <1>1 DEF Single, Quiet, Waiting
    <3> QED
      BY <1>2, <3>1, <3>2 DEF WorkInv
  <2>3. label \in Labels \ {"raised", "rollback"} /\ (label \in Waiting \/ label = "render")
    BY DEF Labels, Body, Waiting
  <2>4. pc[s] \in Waiting
    BY <1>1 DEF Waiting
  <2> QED
    BY <2>1, <2>2, <2>3, <2>4, FollowRest
<1>3. PICK op \in AllOps : \E i, r : \E label \in {"flush", "render"} :
          Begin(s, op, i, r, label) /\ (op = "sync" <=> label = "render")
  BY DEF Start, BeginCreate, BeginToggle, BeginRotate, BeginEdit, BeginRemove, BeginSync, BeginPush,
         AllOps, Edits
<1> QED
  BY <1>2, <1>3

LEMMA FollowStep ==
    ASSUME HubInv, WorkInv, Orderly, NEW s \in Sessions, Step(s)
    PROVE  (\A t \in Sessions : FollowInv(t)') /\ (Quiet' => Level')
<1> DEFINE d == Rendered(Draft(s))
<1>1. /\ SessionInv(s) /\ PublishInv(s) /\ FollowInv(s) /\ OneAtWork /\ Faults = {}
      /\ pc \in [Sessions -> Labels]
      /\ job[s].op \in {"push", "edit", "sync"} => Draft(s) = rows
  BY DEF HubInv, TypeOK, WorkInv, Orderly, Draft
<1>2. CASE Flush(s)
  <2>1. /\ pc[s] = "flush" /\ writer = None /\ UNCHANGED <<rows, tmp, file, device>>
        /\ pc' = [pc EXCEPT ![s] = IF job[s].op = "push" THEN "await" ELSE "render"]
        /\ (\E i : job' = [job EXCEPT ![s].id = i]) \/ UNCHANGED job
    BY <1>2 DEF Flush, Writable, Goto
  <2>2. \A t \in Sessions \ {s} : job'[t] = job[t]
    BY <2>1 DEF HubInv, TypeOK
  <2>3. Quiet
    <3>1. CASE Single
      BY <2>1, <3>1 DEF Single, Quiet, Waiting
    <3>2. CASE Ops \subseteq LockedOps
      <4>1. \A t \in Sessions : SessionInv(t) /\ t # None /\ job[t].op # "sync"
        BY <3>2, HubAssumption DEF HubInv, WorkInv, FreshInv, LockedOps
      <4> QED
        BY <2>1, <4>1 DEF Quiet, SessionInv
    <3> QED
      BY <1>1, <3>1, <3>2 DEF OneAtWork
  <2>4. Level
    BY <2>3 DEF WorkInv
  <2>5. pc[s] \in Waiting
    BY <2>1 DEF Waiting
  <2>6. PICK l \in {"await", "render"} : pc' = [pc EXCEPT ![s] = l]
    BY <2>1
  <2>7. l \in Labels \ {"raised", "rollback"}
    BY DEF Labels, Body
  <2> QED
    BY <2>1, <2>2, <2>4, <2>5, <2>6, <2>7, FollowRest
<1>3. CASE FlushRejected(s) \/ FlushTimeout(s)
  <2>1. pc[s] = "flush" /\ Stop({s}) /\ UNCHANGED <<rows, tmp, file, device>>
    BY <1>3 DEF FlushRejected, FlushTimeout
  <2>2. /\ pc' = [pc EXCEPT ![s] = "idle"]
        /\ \A t \in Sessions \ {s} : job'[t] = job[t]
    BY <1>1, <2>1 DEF Stop
  <2>3. pc[s] \in Waiting /\ "idle" \in Waiting /\ "idle" \in Labels \ {"raised", "rollback"}
    BY <2>1 DEF Waiting, Labels
  <2> QED
    BY <2>1, <2>2, <2>3, FollowRest
<1>4. CASE PushReturns(s)
  <2>1. /\ pc[s] = "await" /\ Goto(s, "exit") /\ UNCHANGED <<rows, job, file, device>> /\ Level
    BY <1>1, <1>4 DEF PushReturns, FollowInv
  <2> QED
    BY <1>1, <2>1, SameLevel, FollowBody DEF Labels, Waiting
<1>5. CASE Render(s)
  <2>1. /\ pc[s] = "render" /\ Goto(s, "open") /\ UNCHANGED <<rows, job, file, device>> /\ Level
    BY <1>1, <1>5 DEF Render, FollowInv
  <2> QED
    BY <1>1, <2>1, SameLevel, FollowBody DEF Labels, Body, Waiting
<1>6. CASE OpenTmp(s) \/ WriteTmp(s)
  <2>1. /\ pc[s] \in {"open", "write"} /\ (Goto(s, "write") \/ Goto(s, "replace"))
        /\ UNCHANGED <<rows, job, file, device>> /\ Level
    BY <1>1, <1>6 DEF OpenTmp, WriteTmp, FollowInv, PublishInv
  <2>2. PICK l \in {"write", "replace"} : Goto(s, l)
    BY <2>1
  <2> QED
    BY <1>1, <2>1, <2>2, SameLevel, FollowBody DEF Labels, Body, Waiting
<1>7. CASE Replace(s)
  <2>1. pc[s] = "replace" /\ tmp = d /\ Level /\ UNCHANGED <<rows, job, device>>
    BY <1>1, <1>7 DEF Replace, FollowInv, PublishInv
  <2>2. tmp # None
    BY <2>1, DraftUnique, RenderedType, HubAssumption DEF Waiting
  <2>3. Goto(s, "strip")
    BY <1>7, <2>2 DEF Replace
  <2>4. device' \in {Down, Rendered(rows)}
    BY <2>1 DEF Level
  <2> QED
    BY <1>1, <2>1, <2>3, <2>4, FollowBody DEF Labels, Body, Waiting
<1>8. CASE Strip(s)
  <2>1. /\ pc[s] = "strip" /\ Goto(s, "apply") /\ UNCHANGED <<rows, job>>
        /\ device' \in {Down, Rendered(rows)}
    BY <1>1, <1>8 DEF Strip, FollowInv
  <2> QED
    BY <1>1, <2>1, FollowBody DEF Labels, Body, Waiting
<1>9. CASE BringUp(s) \/ SyncConf(s)
  <2>1. /\ pc[s] \in {"strip", "apply"} /\ Goto(s, "exit") /\ UNCHANGED <<rows, job>>
        /\ file' = d /\ file = d /\ device' \in {Peers(d), d}
    BY <1>1, <1>9 DEF BringUp, SyncConf, PublishInv
  <2>3. Peers(d) = d
    <3>1. d \in Text
      BY <2>1, DraftUnique, RenderedType DEF Waiting
    <3> QED
      BY <3>1, HubAssumption DEF Peers
  <2>2. job[s].op = "push" => Level'
    <3>1. Rendered(rows)' = Rendered(rows)
      BY <2>1 DEF Rendered, Live
    <3> QED
      BY <1>1, <2>1, <2>3, <3>1 DEF Level
  <2> QED
    BY <1>1, <2>1, <2>2, FollowBody DEF Labels, Waiting
<1>10. CASE ApplyFails(s)
  <2>1. /\ pc[s] \in {"strip", "apply"} /\ file = d
        /\ pc[s] = "apply" => text[s] = d
        /\ Torn = IF pc[s] = "strip" THEN file ELSE text[s]
    BY <1>1, <1>10 DEF ApplyFails, PublishInv
  <2>2. d \in Text
    BY <2>1, DraftUnique, RenderedType DEF Waiting
  <2> QED
    BY <2>1, <2>2, HubAssumption
<1>11. CASE Dispatch(s)
  <2>1. /\ pc[s] = "exit" /\ Goto(s, "commit") /\ UNCHANGED <<rows, job, file, device>>
        /\ job[s].op = "push" => Level
    BY <1>1, <1>11 DEF Dispatch, FollowInv
  <2> QED
    BY <1>1, <2>1, SameLevel, FollowBody DEF Labels, Waiting
<1>12. CASE Commit(s)
  <2>1. pc[s] = "commit" /\ rows' = Draft(s) /\ Stop({s}) /\ UNCHANGED <<file, device>>
    BY <1>12 DEF Commit
  <2>2. file = d /\ device \in {Down, d}
    BY <1>1, <2>1 DEF FollowInv, PublishInv, Level
  <2>3. Level'
    BY <2>1, <2>2 DEF Level, Rendered, Live
  <2>4. ASSUME NEW t \in Sessions PROVE pc'[t] \in Waiting
    <3>1. t = s \/ pc[t] \in Waiting
      BY <1>1, <2>1, OthersWait DEF Waiting, WorkInv
    <3> QED
      BY <2>1, <3>1 DEF Stop, Waiting
  <2> QED
    BY <2>3, <2>4 DEF FollowInv, Waiting
<1>13. CASE Rollback(s)
  BY <1>1, <1>13 DEF Rollback, FollowInv
<1> QED
  BY <1>2, <1>3, <1>4, <1>5, <1>6, <1>7, <1>8, <1>9, <1>10, <1>11, <1>12, <1>13 DEF Step

LEMMA WorkInvariant ==
    ASSUME Orderly
    PROVE  Spec => [](HubInv /\ WorkInv)
<1>0. OneAtWork /\ NoStaleRows
  BY DEF Orderly, OneAtWork, NoStaleRows, LockedOps, Edits
<1>1. Init => WorkInv
  <2> SUFFICES ASSUME Init PROVE WorkInv
    OBVIOUS
  <2>1. Rendered(rows) = {}
    BY DEF Init, Rendered, Live
  <2>2. FreshInv
    BY DEF Init, FreshInv, NoJob, Listed, Edits
  <2>3. Level /\ \A s \in Sessions : pc[s] = "idle"
    BY <2>1 DEF Init, Level
  <2> QED
    BY <2>2, <2>3 DEF WorkInv, PublishInv, FollowInv
<1>2. HubInv /\ WorkInv /\ [Next]_vars => WorkInv'
  <2> SUFFICES ASSUME HubInv, WorkInv, [Next]_vars PROVE WorkInv'
    OBVIOUS
  <2>1. FreshInv' /\ \A s \in Sessions : PublishInv(s)'
    BY <1>0, FreshStep, PublishNext DEF WorkInv
  <2>2. CASE UNCHANGED vars
    <3>1. (Level' <=> Level) /\ Rendered(rows)' = Rendered(rows)
      BY <2>2, SameLevel DEF vars
    <3>2. \A s \in Sessions : FollowInv(s)'
      BY <2>2, <3>1 DEF vars, FollowInv, WorkInv
    <3> QED
      BY <2>1, <2>2, <3>1, <3>2 DEF vars, WorkInv, Quiet
  <2>3. ASSUME NEW s \in Sessions, Start(s) \/ Step(s)
        PROVE  (\A t \in Sessions : FollowInv(t)') /\ (Quiet' => Level')
    BY <1>0, <2>3, FollowStart, FollowStep
  <2>4. UNCHANGED vars \/ \E s \in Sessions : Start(s) \/ Step(s)
    BY DEF Next, KillCommand, KillPanel, Reboot, Orderly
  <2> QED
    BY <2>1, <2>2, <2>3, <2>4 DEF WorkInv
<1> QED
  BY <1>1, <1>2, HubInvariant, PTL DEF Spec

(* Without a lock holder whoever is at work has the table itself in hand.  *)
LEMMA AgreesInv ==
    ASSUME HubInv, WorkInv
    PROVE  /\ OneChangeAhead
           /\ writer = None => device \in {Down, Rendered(rows)}
<1>1. Rendered(rows) \in Expected
  BY DEF Expected
<1>2. CASE Quiet
  BY <1>1, <1>2 DEF WorkInv, Level, OneChangeAhead
<1>3. CASE ~Quiet
  <2>1. PICK s \in Sessions : pc[s] \notin Waiting
    BY <1>3 DEF Quiet
  <2>2. PublishInv(s) /\ FollowInv(s) /\ SessionInv(s) /\ s # None /\ pc[s] \in Labels
    BY HubAssumption DEF HubInv, TypeOK, WorkInv
  <2>3. writer = s \/ Draft(s) = rows
    BY <2>1, <2>2 DEF SessionInv, Draft
  <2>4. Rendered(Draft(s)) \in Expected
    BY <2>2, <2>3 DEF Expected
  <2>5. writer = None => Draft(s) = rows
    BY <2>2, <2>3
  <2> QED
    BY <1>1, <2>1, <2>2, <2>4, <2>5
       DEF PublishInv, FollowInv, Level, OneChangeAhead, Labels, Body, Waiting
<1> QED
  BY <1>2, <1>3

(* When nothing fails and one session at a time is at work, wg0.conf and   *)
(* the device are never more than its change away from the table.          *)
THEOREM ChangesAgree ==
    ASSUME Orderly
    PROVE  Spec => []OneChangeAhead
<1>1. HubInv /\ WorkInv => OneChangeAhead
  BY AgreesInv
<1> QED
  BY <1>1, WorkInvariant, PTL

-----------------------------------------------------------------------------
(* The promise of the module.                                              *)

\* What the promise calls served.
Served == IF writer = None /\ device # Down THEN device ELSE Rendered(rows)

ServedInv == writer = None => device \in {Down, Rendered(rows)}

LEMMA ServedIsRendered ==
    ASSUME ServedInv
    PROVE  Served = Rendered(rows) /\ Rendered(rows) = Promise!Enabled(rows)
  BY DEF ServedInv, Served, Rendered, Live, Promise!Enabled

LEMMA NextServedIsRendered ==
    ASSUME ServedInv'
    PROVE  Served' = Rendered(rows)' /\ Rendered(rows)' = Promise!Enabled(rows')
  BY DEF ServedInv, Served, Rendered, Live, Promise!Enabled

(* A row that meets no other one is put.                                   *)
LEMMA PutPromised ==
    ASSUME ServedInv', rows \in [Ids -> Row \cup {None}], NEW i \in Ids, NEW p \in Row,
           rows' = [rows EXCEPT ![i] = p],
           \A k \in Live(rows) \ {i} : rows[k].addr # p.addr /\ rows[k].key # p.key
    PROVE  Promise!Next
<1>1. Served' = Promise!Enabled(rows')
  BY NextServedIsRendered
<1>2. ~Promise!Collides(rows, i, p)
  BY DEF Promise!Collides, Live
<1>3. Promise!Put(i, p)
  BY <1>1, <1>2 DEF Promise!Put, Served
<1> QED
  BY <1>3 DEF Promise!Next, Promise!Peer, Row

(* A commit is a step of the promise, every other step a stutter.          *)
LEMMA CommitPromised ==
    ASSUME HubInv, ServedInv', NEW s \in Sessions, Commit(s)
    PROVE  Promise!Next \/ UNCHANGED rows
<1> DEFINE j == job[s]
<1>1. /\ pc[s] = "commit" /\ rows' = Draft(s) /\ SessionInv(s) /\ UniqueIn(rows)
      /\ rows \in [Ids -> Row \cup {None}]
  BY DEF Commit, HubInv, TypeOK, UniquePeers
<1>2. CASE j.op = "create"
  <2>1. j.id \in Ids /\ j.row \in Row /\ rows' = [rows EXCEPT ![j.id] = j.row]
    BY <1>1, <1>2 DEF SessionInv, Draft
  <2>2. \A k \in Live(rows) \ {j.id} : rows[k].addr # j.row.addr /\ rows[k].key # j.row.key
    BY <1>1, <1>2 DEF SessionInv, Collides, AddressTaken, KeyRegistered, Waiting
  <2> HIDE DEF j
  <2> QED
    BY <1>1, <2>1, <2>2, PutPromised
<1>3. CASE j.op = "toggle"
  <2>1. /\ j.id \in Ids /\ rows[j.id] \in Row /\ j.id \in Live(rows) /\ j.row \in Row
        /\ rows' = [rows EXCEPT ![j.id].on = j.row.on]
    BY <1>1, <1>3 DEF SessionInv, Draft, Edits, Live, Waiting
  <2> DEFINE p == [rows[j.id] EXCEPT !.on = j.row.on]
  <2>2. p \in Row /\ p.addr = rows[j.id].addr /\ p.key = rows[j.id].key
    BY <2>1 DEF Row
  <2>3. rows' = [rows EXCEPT ![j.id] = p]
    BY <1>1, <2>1
  <2>4. \A k \in Live(rows) \ {j.id} : rows[k].addr # p.addr /\ rows[k].key # p.key
    BY <1>1, <2>1, <2>2 DEF UniqueIn
  <2> QED
    BY <1>1, <2>1, <2>2, <2>3, <2>4, PutPromised
<1>4. CASE j.op = "rotate"
  <2>1. /\ j.id \in Ids /\ rows[j.id] \in Row /\ j.id \in Live(rows) /\ j.row \in Row
        /\ rows' = [rows EXCEPT ![j.id].key = j.row.key]
    BY <1>1, <1>4 DEF SessionInv, Draft, Edits, Live, Waiting
  <2> DEFINE p == [rows[j.id] EXCEPT !.key = j.row.key]
  <2>2. p \in Row /\ p.addr = rows[j.id].addr /\ p.key = j.row.key
    BY <2>1 DEF Row
  <2>3. rows' = [rows EXCEPT ![j.id] = p]
    BY <1>1, <2>1
  <2>4. \A k \in Live(rows) \ {j.id} : rows[k].key # p.key
    BY <1>1, <1>4, <2>2 DEF SessionInv, Collides, Waiting
  <2>5. \A k \in Live(rows) \ {j.id} : rows[k].addr # p.addr
    BY <1>1, <2>1, <2>2 DEF UniqueIn
  <2>6. \A k \in Live(rows) \ {j.id} : rows[k].addr # p.addr /\ rows[k].key # p.key
    BY <2>4, <2>5
  <2> HIDE DEF p
  <2> QED
    BY <1>1, <2>1, <2>2, <2>3, <2>6, PutPromised
<1>5. CASE j.op = "remove"
  <2>1. j.id \in Ids /\ rows' = [rows EXCEPT ![j.id] = None]
    BY <1>1, <1>5 DEF SessionInv, Draft
  <2>2. Served' = Promise!Enabled(rows')
    BY NextServedIsRendered
  <2>3. Promise!Remove(j.id)
    BY <2>1, <2>2 DEF Promise!Remove, Served
  <2> QED
    BY <2>1, <2>3 DEF Promise!Next
<1>6. CASE j.op \notin {"create", "toggle", "rotate", "remove"}
  BY <1>1, <1>6 DEF Draft
<1> QED
  BY <1>2, <1>3, <1>4, <1>5, <1>6

(* Under the same conditions the hub implements HubPromise: whoever looks  *)
(* at the table and, while nobody holds the lock, at the device, sees      *)
(* peers that are put, edited and removed in single steps and served at    *)
(* once.                                                                   *)
THEOREM HubKeepsPromise ==
    ASSUME Orderly
    PROVE  Spec => PromiseSpec
<1>1. HubInv /\ WorkInv => ServedInv
  BY AgreesInv DEF ServedInv
<1>2. Init => Promise!Init
  <2> SUFFICES ASSUME Init PROVE Promise!Init
    OBVIOUS
  <2>1. Rendered(rows) = {} /\ rows = [i \in Ids |-> None]
    BY DEF Init, Rendered, Live
  <2>2. Served = {}
    BY <2>1 DEF Init, Served
  <2> QED
    BY <2>1, <2>2 DEF Promise!Init, Served
<1>3. HubInv /\ ServedInv /\ ServedInv' /\ [Next]_vars => [Promise!Next]_<<rows, Served>>
  <2> SUFFICES ASSUME HubInv, ServedInv, ServedInv', [Next]_vars
               PROVE  Promise!Next \/ UNCHANGED <<rows, Served>>
    OBVIOUS
  <2>1. CASE UNCHANGED rows
    <3>1. Rendered(rows)' = Rendered(rows)
      BY <2>1 DEF Rendered, Live
    <3> QED
      BY <2>1, <3>1, ServedIsRendered, NextServedIsRendered
  <2>2. CASE \E s \in Sessions : Commit(s)
    BY <2>1, <2>2, CommitPromised
  <2>3. UNCHANGED rows \/ \E s \in Sessions : Commit(s)
    BY DEF Next, Start, Step, BeginCreate, BeginToggle, BeginRotate, BeginEdit, BeginRemove, BeginSync,
           BeginPush, Begin, Flush, FlushRejected, FlushTimeout, PushReturns, Render, OpenTmp, WriteTmp, Replace,
           BringUp, Strip, SyncConf, ApplyFails, Dispatch, Rollback, KillCommand, KillPanel, Reboot, vars
  <2> QED
    BY <2>1, <2>2, <2>3
<1> QED
  BY <1>1, <1>2, <1>3, WorkInvariant, PTL DEF Spec, PromiseSpec, Promise!Spec, Served
=============================================================================
