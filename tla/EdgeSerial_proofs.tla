-------------------------- MODULE EdgeSerial_proofs --------------------------
(***************************************************************************)
(* Theorems about Edge when its sessions follow one another: an operator   *)
(* who runs one command at a time.  What a session has read of NPM is then *)
(* still so when it acts, and what remains to fear is a failure half-way.  *)
(***************************************************************************)
EXTENDS Edge_proofs

Serial == \A s, t \in Sessions : s = t \/ pc[s] = "idle" \/ pc[t] = "idle"

\* Only s may be doing anything, now and after its step.
Alone(s) == \A t \in Sessions \ {s} : pc[t] = "idle" /\ pc'[t] = "idle"

-----------------------------------------------------------------------------
(* One session at a time.                                                  *)

(* The step of a session begins it or goes on with it, and moves no other.  *)
LEMMA EndMoves ==
    ASSUME TypeInv, NEW s \in Sessions, NEW good, End(s, good)
    PROVE  \A t \in Sessions \ {s} : pc'[t] = pc[t]
  BY DEF End, Goto, TypeInv, TypeOK

LEMMA InstallMoves ==
    ASSUME TypeInv, NEW s \in Sessions, Install(s)
    PROVE  /\ pc[s] # "idle" \/ Free(s)
           /\ \A t \in Sessions \ {s} : pc'[t] = pc[t]
<1> USE DEF Goto, TypeInv, TypeOK
<1>1. CASE BeginInstall(s)
  BY <1>1 DEF BeginInstall
<1>2. CASE \/ Check(s) \/ Supersede(s) \/ Post(s) \/ Upload(s) \/ UploadRefused(s) \/ Repoint(s)
           \/ Repointed(s) \/ Sweep(s) \/ Drop(s) \/ Swept(s)
  BY <1>2 DEF Check, Supersede, Post, Upload, UploadRefused, Repoint, Repointed, Sweep, Drop, Swept
<1>3. CASE Move(s) \/ MoveRefused(s) \/ Previous(s) \/ Obtain(s)
  BY <1>3 DEF Move, MoveRefused, Previous, Obtain
<1>4. CASE Settled(s) \/ Discard(s) \/ Moved(s) \/ Issue(s)
  BY <1>4, EndMoves DEF Settled, Discard, Moved, Issue, Rollback
<1> QED
  BY <1>1, <1>2, <1>3, <1>4 DEF Install

LEMMA PushMoves ==
    ASSUME TypeInv, NEW s \in Sessions, Push(s)
    PROVE  /\ pc[s] # "idle" \/ Free(s)
           /\ \A t \in Sessions \ {s} : pc'[t] = pc[t]
<1> USE DEF Goto, TypeInv, TypeOK
<1>1. CASE BeginHost(s) \/ BeginResync(s)
  BY <1>1 DEF BeginHost, BeginResync
<1>2. CASE \/ NextHost(s) \/ Insert(s) \/ Flush(s) \/ Unchanged(s) \/ Remove(s) \/ Find(s)
           \/ Lookup(s) \/ Put(s) \/ Create(s) \/ Accept(s) \/ Reject(s) \/ Book(s) \/ Erase(s)
  BY <1>2 DEF NextHost, Insert, Flush, Unchanged, Remove, Find, Lookup, Put, Create, Accept,
              Reject, Book, Erase
<1>3. CASE Attach(s) \/ LastHost(s) \/ WriteRefused(s) \/ Undo(s)
  BY <1>3, EndMoves DEF Attach, LastHost, WriteRefused, Undo, Rollback, PushFails
<1> QED
  BY <1>1, <1>2, <1>3 DEF Push

LEMMA FinishMoves ==
    ASSUME TypeInv, NEW s \in Sessions, Finish(s)
    PROVE  pc[s] # "idle" /\ \A t \in Sessions \ {s} : pc'[t] = pc[t]
<1>1. CASE Commit(s) \/ Rejected(s) \/ Refused(s)
  BY <1>1, EndMoves DEF Commit, Rejected, NoSuchRow, Locked, Refused, Rollback
<1>2. CASE Done(s)
  BY <1>2 DEF Done, Goto, TypeInv, TypeOK
<1>3. CASE RequestFails(s)
  <2>1. pc[s] # "idle"
    BY <1>3 DEF RequestFails, Rotating, Pushes
  <2> QED
    BY <1>3, <2>1, EndMoves DEF RequestFails, Rollback, PushFails, Goto, TypeInv, TypeOK
<1> QED
  BY <1>1, <1>2, <1>3 DEF Finish

(* With no overlap, the session that acts is alone.                        *)
LEMMA ActsAlone ==
    ASSUME ~Overlap, TypeInv, Serial, NEW s \in Sessions, Install(s) \/ Push(s) \/ Finish(s)
    PROVE  Alone(s)
<1>1. /\ pc[s] # "idle" \/ Free(s)
      /\ \A t \in Sessions \ {s} : pc'[t] = pc[t]
  BY InstallMoves, PushMoves, FinishMoves
<1> QED
  BY <1>1 DEF Free, Serial, Alone

LEMMA SerialNext ==
    ASSUME ~Overlap, TypeInv, Serial, [Next]_vars
    PROVE  Serial'
<1>1. ASSUME NEW s \in Sessions, Install(s) \/ Push(s) \/ Finish(s) PROVE Serial'
  BY <1>1, ActsAlone DEF Serial, Alone
<1>2. ASSUME NEW S \in SUBSET Sessions, Kill(S) PROVE Serial'
  BY <1>2 DEF Kill, Serial
<1>3. CASE Reset \/ UNCHANGED vars
  BY <1>3 DEF Reset, vars, Serial
<1> QED
  BY <1>1, <1>2, <1>3 DEF Next, Sessions

(* Sessions follow one another when the operator runs one at a time.       *)
LEMMA SerialHolds ==
    ASSUME ~Overlap
    PROVE  Spec => []Serial
<1>1. Init => Serial
  BY DEF Init, Serial
<1>2. TypeInv /\ Serial /\ [Next]_vars => Serial'
  BY SerialNext
<1> QED
  BY <1>1, <1>2, TypesHold, PTL DEF Spec

-----------------------------------------------------------------------------
(* Pushing hosts: what a session has looked up in NPM is there when it   *)
(* writes, verifies and books.                                           *)

InstallOps == {"install", "provision"}
PushingOps == {"create", "update", "attach", "resync"}

\* A host that is pushed has been looked up; it has been written.
Seen    == {"lookup", "write", "verify", "undo", "book"}
Written == {"verify", "undo", "book"}

\* The operation that a session at a label is at.
OpInv(s) ==
    /\ pc[s] \in Rotating \cup {"settled"} => job[s].op \in InstallOps
    /\ pc[s] \in InPush => job[s].op \in PushingOps
    /\ pc[s] = "next" => job[s].op \in {"attach", "resync"}
    /\ pc[s] \in {"attach", "done"} => job[s].op = "attach"
    /\ pc[s] = "flush" => job[s].op \in {"create", "update", "delete"}
    /\ pc[s] = "erase" => job[s].op = "delete"

SeenInv(s) ==
    /\ pc[s] \in {"erase", "flush"} => push[s].todo = {}
    /\ pc[s] \in InPush => push[s].d \notin push[s].todo
    /\ pc[s] \in Seen =>
          /\ push[s].cert = record.id
          /\ push[s].before # None => push[s].before \in ProxyOf(push[s].d)
    /\ pc[s] = "write" /\ push[s].target # None => push[s].target \in ProxyOf(push[s].d)
    /\ pc[s] \in Written =>
          /\ push[s].target \in ProxyOf(push[s].d)
          /\ proxies[push[s].target].cert = record.id
    /\ pc[s] = "book" /\ "unverified" \notin Faults => Servable(push[s].target)
    /\ pc[s] = "commit" /\ job[s].op \in {"attach", "resync"} => push[s].todo = {}

\* The domains that a loop over the hosts has still to push.
Left(s) == push[s].todo \cup IF pc[s] \in InPush THEN {push[s].d} ELSE {}

\* NPM serves d with the recorded certificate, and the row will name the host.
Published(s, d) ==
    \E h \in ProxyOf(d) : Servable(h) /\ proxies[h].cert = record.id /\ Draft(s)[d].npm = h

ResyncInv(s) ==
    pc[s] # "idle" /\ job[s].op = "resync" /\ ~job[s].failed /\ "unverified" \notin Faults =>
        \A d \in Live(hosts) \ Left(s) : Published(s, d)

PusherInv(s) == OpInv(s) /\ SeenInv(s) /\ ResyncInv(s)

PushesInv == Below /\ \A s \in Sessions : PusherInv(s)

\* The rows that a session loaded are those of the table, it has changed none
\* that it has still to push, and the one it pushes only by a flush.
LoadedInv(s) ==
    /\ \A d \in Domains : push[s].seen[d] # None => hosts[d] = push[s].seen[d]
    /\ \A d \in push[s].todo : mine[s][d] = Same
    /\ pc[s] \in PushLabels /\ job[s].op # "create" =>
           mine[s][push[s].d] \in {Same, hosts[push[s].d]}

LoadInv == RowInv /\ \A s \in Sessions : LoadedInv(s)

\* A session that is not pushing: idle, between two steps of `provision`, or
\* installing a certificate.
NotPushing(s) ==
    \/ pc[s] = "idle"
    \/ pc[s] \in {"attach", "done"} /\ job[s].op = "attach"
    \/ pc[s] \in Rotating \cup {"settled", "commit"} /\ job[s].op \in InstallOps

LEMMA NotPushingHolds ==
    ASSUME NEW s \in Sessions, NotPushing(s)
    PROVE  PusherInv(s)
  BY DEF NotPushing, PusherInv, OpInv, SeenInv, ResyncInv, InPush, Seen, Written, Rotating,
         InstallOps

LEMMA NotPushingNext ==
    ASSUME NEW s \in Sessions, NotPushing(s)'
    PROVE  PusherInv(s)'
  BY DEF NotPushing, PusherInv, OpInv, SeenInv, ResyncInv, InPush, Seen, Written, Rotating,
         InstallOps

(* The other sessions are idle, and keep nothing.                          *)
LEMMA PusherAlone ==
    ASSUME NEW s \in Sessions, Alone(s), Below', PusherInv(s)'
    PROVE  PushesInv'
<1>1. ASSUME NEW t \in Sessions \ {s} PROVE NotPushing(t)'
  BY DEF Alone, NotPushing
<1>2. \A t \in Sessions \ {s} : PusherInv(t)'
  BY <1>1, NotPushingNext
<1> QED
  BY <1>2 DEF PushesInv

(* Where a session ends.                                                   *)
LEMMA EndOps ==
    ASSUME TypeInv, NEW s \in Sessions, NEW good, End(s, good)
    PROVE  NotPushing(s)'
<1>1. CASE job[s].op = "provision"
  BY <1>1 DEF End, Goto, TypeInv, TypeOK, NotPushing
<1>2. CASE job[s].op = "attach"
  BY <1>2 DEF End, Goto, TypeInv, TypeOK, NotPushing, Job
<1>3. CASE job[s].op \notin {"provision", "attach"}
  BY <1>3 DEF End, Goto, TypeInv, TypeOK, NotPushing
<1> QED
  BY <1>1, <1>2, <1>3

(* An installation goes on, or ends.                                       *)
LEMMA InstallLabels ==
    ASSUME TypeInv, NEW s \in Sessions, OpInv(s), Install(s)
    PROVE  NotPushing(s)'
<1> USE DEF Goto, db, npm, local
<1>0. TypeOK
  BY DEF TypeInv
<1>1. CASE BeginInstall(s)
  <2>1. PICK op \in {"install", "provision"} : job' = [job EXCEPT ![s].op = op]
    BY <1>1 DEF BeginInstall
  <2>2. pc'[s] \in {"issue", "obtain", "check", "settled", "supersede"}
    BY <1>0, <1>1 DEF BeginInstall, TypeOK
  <2> QED
    BY <1>0, <2>1, <2>2 DEF NotPushing, InstallOps, Rotating, TypeOK, Job
<1>2. CASE \/ Check(s) \/ Supersede(s) \/ Post(s) \/ Upload(s) \/ UploadRefused(s)
           \/ Repoint(s) \/ Repointed(s) \/ Sweep(s) \/ Drop(s) \/ Swept(s) \/ Move(s)
           \/ Previous(s) \/ Obtain(s)
  <2>1. pc[s] \in Rotating /\ job' = job
    BY <1>2 DEF Check, Supersede, Post, Upload, UploadRefused, Repoint, Repointed, Sweep,
                Drop, Swept, Move, Previous, Obtain, Rotating
  <2>2. pc'[s] \in Rotating \cup {"settled", "commit"}
    BY <1>0, <1>2 DEF Check, Supersede, Post, Upload, UploadRefused, Repoint, Repointed, Sweep,
                      Drop, Swept, Move, Previous, Obtain, Rotating, TypeOK
  <2> QED
    BY <1>0, <2>1, <2>2 DEF OpInv, NotPushing
<1>3. CASE MoveRefused(s)
  BY <1>0, <1>3 DEF MoveRefused, OpInv, NotPushing, TypeOK, Rotating, Job
<1>4. CASE Moved(s)
  <2>1. CASE Rollback(s)
    BY <2>1, EndOps DEF Rollback
  <2>2. CASE Goto(s, rot[s].then) /\ UNCHANGED <<db, npm, local>>
    <3>1. rot[s].then \in {"repoint", "commit"} /\ pc[s] = "move"
      BY <1>0, <1>4 DEF Moved, TypeInv, SessionInv, TypeOK, Rotation
    <3> QED
      BY <1>0, <2>2, <3>1 DEF OpInv, NotPushing, TypeOK, Rotating
  <2> QED
    BY <1>4, <2>1, <2>2 DEF Moved
<1>5. CASE Settled(s) \/ Discard(s)
  BY <1>5, EndOps DEF Settled, Discard
<1>6. CASE Issue(s)
  <2>1. CASE Goto(s, "previous") /\ UNCHANGED <<writer, job, push, mine>>
    BY <1>0, <1>6, <2>1 DEF Issue, OpInv, NotPushing, TypeOK, Rotating
  <2>2. CASE End(s, FALSE)
    BY <2>2, EndOps
  <2> QED
    BY <1>6, <2>1, <2>2 DEF Issue
<1> QED
  BY <1>1, <1>2, <1>3, <1>4, <1>5, <1>6 DEF Install

(* The steps that install a certificate.                                   *)
LEMMA InstallPushes ==
    ASSUME TypeInv, PushesInv, NEW s \in Sessions, Install(s)
    PROVE  Below' /\ PusherInv(s)'
<1> USE DEF Goto, db, npm, local
<1>0. TypeOK /\ OpInv(s)
  BY DEF TypeInv, PushesInv, PusherInv
<1>1. /\ nextHost' = nextHost
      /\ \A h \in HostIds : proxies'[h] # None => proxies[h] # None
  <2>1. CASE Move(s)
    BY <1>0, <2>1, EdgeAssumption DEF Move, TypeOK, Live
  <2>2. CASE ~Move(s)
    BY <2>2 DEF Install, BeginInstall, Check, Settled, Supersede, Post, Upload, UploadRefused,
                Discard, Repoint, Repointed, MoveRefused, Moved, Sweep, Drop, Swept, Previous,
                Obtain, Issue, Rollback
  <2> QED
    BY <2>1, <2>2
<1>2. Below'
  BY <1>1, EdgeAssumption DEF PushesInv, Below
<1> QED
  BY <1>0, <1>2, InstallLabels, NotPushingNext

(* A push that fails: a loop over the hosts remembers it.                  *)
LEMMA PushFailsPushes ==
    ASSUME TypeInv, NEW s \in Sessions, PusherInv(s), PushFails(s)
    PROVE  PusherInv(s)'
<1>0. TypeOK
  BY DEF TypeInv
<1>1. CASE /\ job[s].op \in {"create", "update"}
           /\ Goto(s, "commit") /\ UNCHANGED <<writer, local>>
  BY <1>0, <1>1 DEF PusherInv, OpInv, SeenInv, ResyncInv, Goto, local, TypeOK, InPush, Seen,
                    Written, Rotating
<1>2. CASE End(s, FALSE)
  BY <1>2, EndOps, NotPushingNext
<1>3. CASE /\ job[s].op \in {"attach", "resync"}
           /\ Goto(s, "next") /\ job' = [job EXCEPT ![s].failed = TRUE]
  <2>1. pc'[s] = "next" /\ job'[s].op = job[s].op /\ job'[s].failed
    BY <1>0, <1>3 DEF Goto, TypeOK, Job
  <2> QED
    BY <1>3, <2>1 DEF PusherInv, OpInv, SeenInv, ResyncInv, InPush, Seen, Written, Rotating
<1> QED
  BY <1>1, <1>2, <1>3 DEF PushFails

(* What was published stays so while another domain is pushed.              *)
LEMMA PublishedKept ==
    ASSUME NEW s \in Sessions, NEW d \in Domains, Published(s, d),
           UNCHANGED <<hosts, record, certs>>, mine'[s][d] = mine[s][d],
           \A h \in ProxyOf(d) : h \in DOMAIN proxies' /\ proxies'[h] = proxies[h]
    PROVE  Published(s, d)'
<1>1. PICK h \in ProxyOf(d) :
         Servable(h) /\ proxies[h].cert = record.id /\ Draft(s)[d].npm = h
  BY DEF Published
<1>2. h \in ProxyOf(d)' /\ proxies'[h] = proxies[h]
  BY <1>1 DEF ProxyOf, Live
<1>3. Servable(h)'
  BY <1>1, <1>2 DEF Servable, Complete, Live
<1>4. Draft(s)'[d] = Draft(s)[d]
  BY DEF Draft
<1> QED
  BY <1>1, <1>2, <1>3, <1>4 DEF Published

(* A session that has loaded nothing, or has let it go.                     *)
LEMMA NothingLoaded ==
    ASSUME NEW s \in Sessions, LockInv(s), pc[s] \in {"idle", "attach", "done"}
    PROVE  LoadedInv(s)
<1>1. push[s] = NoPush /\ Untouched(s)
  BY DEF LockInv
<1> QED
  BY <1>1 DEF LoadedInv, NoPush, Untouched, PushLabels

LEMMA NothingLoadedNext ==
    ASSUME NEW s \in Sessions, LockInv(s)', pc'[s] \in {"idle", "attach", "done"}
    PROVE  LoadedInv(s)'
<1>1. push'[s] = NoPush /\ Untouched(s)'
  BY DEF LockInv
<1> QED
  BY <1>1 DEF LoadedInv, NoPush, Untouched, PushLabels

(* A step that loads no row and changes none.                              *)
LEMMA QuietLoaded ==
    ASSUME NEW s \in Sessions, LoadedInv(s), hosts' = hosts, mine'[s] = mine[s],
           push'[s].seen = push[s].seen, push'[s].todo \subseteq push[s].todo,
           pc'[s] \in PushLabels => /\ pc[s] \in PushLabels
                                    /\ push'[s].d = push[s].d /\ job'[s].op = job[s].op
    PROVE  LoadedInv(s)'
  BY DEF LoadedInv

(* The row a session works on is, in its transaction, the one it loaded or *)
(* inserted.                                                               *)
LEMMA DraftLoaded ==
    ASSUME TypeInv, LoadInv, NEW s \in Sessions, pc[s] \in InPush
    PROVE  /\ push[s].d \in Domains /\ Draft(s)[push[s].d] = Loaded(s)
           /\ Loaded(s) \in HostRow /\ Reached(s) = {push[s].d}
<1>1. /\ TypeOK /\ push[s].d \in Domains /\ WorkInv(s) /\ LoadedInv(s) /\ RowInv
      /\ None # Same /\ pc[s] \in PushLabels
  BY EdgeAssumption DEF TypeInv, SessionInv, PushLabels, InPush, LoadInv, RowInv, SessionRows
<1>2. CASE job[s].op = "create"
  <2>1. Loaded(s) = mine[s][push[s].d] /\ mine[s][push[s].d] \notin {None, Same}
    BY <1>1, <1>2 DEF WorkInv, Loaded
  <2> QED
    BY <1>1, <2>1, ReachesItsRow DEF Draft, TypeOK
<1>3. CASE job[s].op # "create"
  <2>1. Loaded(s) = hosts[push[s].d] /\ hosts[push[s].d] # None
    BY <1>1, <1>3 DEF WorkInv, LoadedInv, Loaded
  <2>2. mine[s][push[s].d] \in {Same, hosts[push[s].d]}
    BY <1>1, <1>3 DEF LoadedInv
  <2> QED
    BY <1>1, <2>1, <2>2, ReachesItsRow DEF Draft, TypeOK
<1> QED
  BY <1>2, <1>3

(* A booking leaves the row with the host that was pushed and the          *)
(* certificate it was pushed with, and no other row changes.               *)
LEMMA Booking ==
    ASSUME TypeInv, LoadInv, NEW s \in Sessions, Book(s)
    PROVE  /\ \A t \in Sessions, d \in Domains :
                 t # s \/ d # push[s].d => mine'[t][d] = mine[t][d]
           /\ mine'[s][push[s].d] = mine[s][push[s].d] \/ mine'[s][push[s].d].cert = push[s].cert
           /\ Draft(s)'[push[s].d].npm = push[s].target
           /\ Draft(s)'[push[s].d].cert = push[s].cert
<1> DEFINE d == push[s].d
<1>1. /\ TypeOK /\ pc[s] = "book" /\ hosts' = hosts /\ Same \notin HostRow
  BY EdgeAssumption DEF Book, TypeInv
<1>2. /\ d \in Domains /\ Draft(s)[d] = Loaded(s) /\ Loaded(s) \in HostRow /\ Reached(s) = {d}
  BY <1>1, DraftLoaded DEF InPush
<1>3. /\ Booked(s, d) \in HostRow
      /\ Booked(s, d).npm = push[s].target /\ Booked(s, d).cert = push[s].cert
  <2>1. d \in Reached(s)
    BY <1>2
  <2> QED
    BY <1>1, <1>2, <2>1, BookedTypes
<1> HIDE DEF d
<1>4. CASE mine' = [mine EXCEPT ![s] = [e \in Domains |-> IF e \in Reached(s) THEN Booked(s, e)
                                                         ELSE mine[s][e]]]
  <2>1. /\ mine'[s] = [e \in Domains |-> IF e = d THEN Booked(s, e) ELSE mine[s][e]]
        /\ \A t \in Sessions \ {s} : mine'[t] = mine[t]
    BY <1>1, <1>2, <1>4 DEF TypeOK
  <2>2. /\ mine'[s][d] = Booked(s, d)
        /\ \A e \in Domains \ {d} : mine'[s][e] = mine[s][e]
    BY <1>2, <2>1
  <2>3. Draft(s)'[d] = Booked(s, d)
    BY <1>1, <1>2, <1>3, <2>2 DEF Draft
  <2> QED
    BY <1>3, <2>1, <2>2, <2>3 DEF d
<1>5. CASE ~Unbooked(s) /\ mine' = mine
  <2>1. Draft(s)'[d] = Draft(s)[d]
    BY <1>1, <1>2, <1>5 DEF Draft
  <2> QED
    BY <1>2, <1>5, <2>1 DEF d, Unbooked
<1>6. \/ mine' = [mine EXCEPT ![s] = [e \in Domains |-> IF e \in Reached(s) THEN Booked(s, e)
                                                        ELSE mine[s][e]]]
      \/ ~Unbooked(s) /\ mine' = mine
  BY <1>1 DEF Book, TypeOK
<1> QED
  BY <1>4, <1>5, <1>6

(* What the steps that push hosts load and change.                         *)
LEMMA PushLoads ==
    ASSUME TypeInv, LoadInv, NEW s \in Sessions, PusherInv(s), LockInv(s)', Push(s)
    PROVE  LoadedInv(s)'
<1> USE DEF Goto, db, npm, local
<1>0. TypeOK /\ SeenInv(s) /\ LockInv(s) /\ WorkInv(s) /\ LoadedInv(s) /\ RowInv
  BY DEF TypeInv, PusherInv, LoadInv, RowInv, SessionRows
<1>a. ASSUME NEW good, End(s, good) PROVE LoadedInv(s)'
  <2>1. pc'[s] \in {"idle", "attach", "done"}
    BY <1>0, <1>a DEF End, TypeOK
  <2> QED
    BY <2>1, NothingLoadedNext
<1>1. CASE BeginHost(s)
  <2>1. PICK d \in Domains, op \in Ops \cap {"create", "update", "delete"} :
          push' = [push EXCEPT ![s] = [NoPush EXCEPT !.d = d, !.seen[d] = hosts[d],
                       !.target = IF op = "delete" THEN hosts[d].npm ELSE None]]
    BY <1>1 DEF BeginHost
  <2>2. /\ push'[s].d = d /\ push'[s].todo = {}
        /\ \A e \in Domains : push'[s].seen[e] = IF e = d THEN hosts[d] ELSE None
    BY <1>0, <2>1 DEF TypeOK, NoPush
  <2>3. mine' = mine /\ hosts' = hosts /\ Untouched(s)
    BY <1>0, <1>1 DEF BeginHost, Free, LockInv
  <2> QED
    BY <2>2, <2>3 DEF LoadedInv, Untouched
<1>2. CASE BeginResync(s) \/ (Attach(s) /\ ~Rollback(s))
  <2>1. PICK ds \in {Live(hosts), Unattached} :
          push' = [push EXCEPT ![s] = [NoPush EXCEPT !.todo = ds, !.seen = hosts]]
    BY <1>2 DEF BeginResync, Attach
  <2>2. push'[s].seen = hosts /\ push'[s].todo \subseteq Domains
    BY <1>0, <2>1 DEF TypeOK, NoPush, Live, Unattached
  <2>3. mine' = mine /\ hosts' = hosts /\ Untouched(s) /\ pc'[s] = "next"
    BY <1>0, <1>2 DEF BeginResync, Attach, Free, LockInv, TypeOK
  <2> QED
    BY <2>2, <2>3 DEF LoadedInv, Untouched, PushLabels
<1>3. CASE NextHost(s)
  <2>1. PICK d \in push[s].todo :
          push' = [push EXCEPT ![s] = [@ EXCEPT !.todo = push[s].todo \ {d}, !.d = d]]
    BY <1>3 DEF NextHost
  <2>2. /\ push'[s].todo = push[s].todo \ {d} /\ push'[s].d = d
        /\ push'[s].seen = push[s].seen
    BY <1>0, <2>1 DEF TypeOK, Pushing
  <2>3. mine' = mine /\ hosts' = hosts
    BY <1>3 DEF NextHost
  <2> QED
    BY <1>0, <2>2, <2>3 DEF LoadedInv
<1>4. CASE LastHost(s) \/ Attach(s) \/ WriteRefused(s) \/ Undo(s)
  <2>1. CASE \E good : End(s, good)
    BY <1>a, <2>1
  <2>2. CASE Attach(s) /\ ~(\E good : End(s, good))
    <3>1. ~Rollback(s)
      BY <2>2 DEF Rollback
    <3> QED
      BY <1>2, <2>2, <3>1
  <2>3. CASE ~Attach(s) /\ ~(\E good : End(s, good))
    <3>1. UNCHANGED <<hosts, mine, push>> /\ pc'[s] \in {"commit", "next"}
      BY <1>0, <1>4, <2>3 DEF LastHost, WriteRefused, Undo, PushFails, Rollback, TypeOK
    <3> QED
      BY <1>0, <3>1, QuietLoaded DEF PushLabels
  <2> QED
    BY <2>1, <2>2, <2>3
<1>5. CASE Insert(s) \/ Remove(s)
  <2>1. pc[s] = "flush" /\ hosts' = hosts /\ push' = push /\ job' = job
    BY <1>5 DEF Insert, Remove
  <2>2. push[s].todo = {}
    BY <1>0, <2>1 DEF SeenInv
  <2>3. pc'[s] \in PushLabels => job'[s].op = "create"
    BY <1>0, <1>5 DEF Insert, Remove, TypeOK, PushLabels
  <2> QED
    BY <1>0, <2>1, <2>2, <2>3 DEF LoadedInv
<1>6. CASE Flush(s)
  <2>1. /\ pc[s] = "flush" /\ hosts' = hosts /\ push' = push /\ job[s].op # "create"
        /\ mine' = [mine EXCEPT ![s] =
                       [d \in Domains |-> IF d \in Reached(s) THEN hosts[d] ELSE @[d]]]
    BY <1>6 DEF Flush
  <2>2. push[s].todo = {} /\ Reached(s) = {push[s].d}
    BY <1>0, <2>1, ReachesItsRow DEF SeenInv
  <2>3. push[s].d \in Domains
    BY <2>1 DEF TypeInv, SessionInv, PushLabels
  <2>4. mine'[s][push[s].d] = hosts[push[s].d]
    BY <1>0, <2>1, <2>2, <2>3 DEF TypeOK
  <2> QED
    BY <1>0, <2>1, <2>2, <2>4 DEF LoadedInv
<1>7. CASE Book(s)
  <2>1. /\ pc[s] = "book" /\ hosts' = hosts /\ push' = push
        /\ pc'[s] \in {"commit", "next"}
    BY <1>0, <1>7 DEF Book, TypeOK
  <2>2. push[s].d \notin push[s].todo /\ push[s].todo \subseteq Domains
    BY <1>0, <2>1 DEF SeenInv, InPush, TypeOK, Pushing
  <2>3. \A d \in push[s].todo : mine'[s][d] = mine[s][d]
    BY <1>7, <2>2, Booking
  <2> QED
    BY <1>0, <2>1, <2>3 DEF LoadedInv, PushLabels
<1>8. CASE \/ Unchanged(s) \/ Find(s) \/ Lookup(s) \/ Put(s) \/ Create(s) \/ Accept(s) \/ Reject(s)
           \/ Erase(s)
  <2>1. /\ hosts' = hosts /\ mine' = mine /\ job' = job /\ pc[s] \in PushLabels
    BY <1>8 DEF Unchanged, Find, Lookup, Put, Create, Accept, Reject, Erase, PushLabels
  <2>2. \/ push' = push
        \/ \E h : push' = [push EXCEPT ![s].target = h]
        \/ \E h, c : push' = [push EXCEPT ![s] = [@ EXCEPT !.cert = record.id, !.before = h,
                                                           !.snapshot = c]]
    BY <1>8 DEF Unchanged, Find, Lookup, Put, Create, Accept, Reject, Erase
  <2>3. push'[s].todo = push[s].todo /\ push'[s].d = push[s].d /\ push'[s].seen = push[s].seen
    <3>1. push \in [Sessions -> Pushing] /\ push[s] \in Pushing
      BY <1>0 DEF TypeOK
    <3>2. ASSUME NEW h, push' = [push EXCEPT ![s].target = h]
          PROVE  push'[s].todo = push[s].todo /\ push'[s].d = push[s].d
                 /\ push'[s].seen = push[s].seen
      BY <3>1, <3>2 DEF Pushing
    <3>3. ASSUME NEW h, NEW c, push' = [push EXCEPT ![s] = [@ EXCEPT !.cert = record.id,
                                                           !.before = h, !.snapshot = c]]
          PROVE  push'[s].todo = push[s].todo /\ push'[s].d = push[s].d
                 /\ push'[s].seen = push[s].seen
      BY <3>1, <3>3 DEF Pushing
    <3> QED
      BY <2>2, <3>2, <3>3
  <2> QED
    BY <1>0, <2>1, <2>3, QuietLoaded
<1> QED
  BY <1>1, <1>2, <1>3, <1>4, <1>5, <1>6, <1>7, <1>8 DEF Push

(* An installation and the end of a session load nothing.                  *)
LEMMA OthersLoad ==
    ASSUME TypeInv, LoadInv, NEW s \in Sessions, LockInv(s)', Install(s) \/ Finish(s),
           OpInv(s)
    PROVE  LoadedInv(s)'
<1> USE DEF Goto, db, npm, local
<1>0. TypeOK /\ LoadedInv(s)
  BY DEF TypeInv, LoadInv
<1>1. CASE \E good : End(s, good)
  <2>1. pc'[s] \in {"idle", "attach", "done"}
    BY <1>0, <1>1 DEF End, TypeOK
  <2> QED
    BY <2>1, NothingLoadedNext
<1>2. CASE Install(s) /\ ~(\E good : End(s, good))
  <2>1. hosts' = hosts /\ mine' = mine /\ push' = push
    BY <1>2 DEF Install, BeginInstall, Check, Settled, Supersede, Post, Upload, UploadRefused,
                Discard, Repoint, Repointed, Move, MoveRefused, Moved, Sweep, Drop, Swept, Previous,
                Obtain, Issue, Rollback
  <2>2. NotPushing(s)'
    BY <1>2, InstallLabels
  <2>3. pc'[s] \notin PushLabels
    BY <2>2 DEF NotPushing, PushLabels, Rotating
  <2> QED
    BY <1>0, <2>1, <2>3, QuietLoaded
<1>3. CASE Finish(s) /\ ~(\E good : End(s, good))
  <2>1. CASE Done(s)
    <3>1. pc'[s] = "idle"
      BY <1>0, <2>1 DEF Done, TypeOK
    <3> QED
      BY <3>1, NothingLoadedNext
  <2>2. CASE ~Done(s)
    <3>1. PushFails(s) /\ hosts' = hosts
      BY <1>3, <2>2 DEF Finish, Commit, Rejected, RequestFails, Refused, Rollback, PushFails
    <3>2. UNCHANGED <<mine, push>> /\ pc'[s] \in {"commit", "next"}
      BY <1>0, <1>3, <3>1 DEF PushFails, TypeOK
    <3> QED
      BY <1>0, <3>1, <3>2, QuietLoaded DEF PushLabels
  <2> QED
    BY <2>1, <2>2
<1> QED
  BY <1>1, <1>2, <1>3

(* What the sessions have loaded, at the start and after every step.        *)
LEMMA LoadInit ==
    ASSUME RowInv, \A s \in Sessions : pc[s] = "idle"
    PROVE  LoadInv
  BY NothingLoaded DEF LoadInv, RowInv, SessionRows

LEMMA LoadNext ==
    ASSUME ~Overlap, TypeInv, Serial, LoadInv, PushesInv, [Next]_vars
    PROVE  LoadInv'
<1>1. RowInv' /\ \A s \in Sessions : LockInv(s)' /\ LoadedInv(s) /\ PusherInv(s) /\ OpInv(s)
  <2>1. RowInv'
    BY RowsNext DEF NoDeleteBeside, LoadInv
  <2> QED
    BY <2>1 DEF RowInv, SessionRows, LoadInv, PushesInv, PusherInv
<1>2. ASSUME NEW s \in Sessions, Install(s) \/ Push(s) \/ Finish(s) PROVE LoadInv'
  <2>1. LoadedInv(s)'
    BY <1>1, <1>2, PushLoads, OthersLoad
  <2>2. ASSUME NEW t \in Sessions \ {s} PROVE LoadedInv(t)'
    <3>1. pc'[t] = "idle"
      BY <1>2, ActsAlone DEF Alone
    <3> QED
      BY <1>1, <3>1, NothingLoadedNext
  <2> QED
    BY <1>1, <2>1, <2>2 DEF LoadInv
<1>3. ASSUME NEW S \in SUBSET Sessions, Kill(S) PROVE LoadInv'
  <2>1. ASSUME NEW t \in Sessions PROVE LoadedInv(t)'
    <3>1. CASE t \in S
      <4>1. pc'[t] = "idle"
        BY <1>3, <3>1 DEF Kill
      <4> QED
        BY <1>1, <4>1, NothingLoadedNext
    <3>2. CASE t \notin S
      <4>1. /\ pc'[t] = pc[t] /\ job'[t] = job[t] /\ push'[t] = push[t] /\ mine'[t] = mine[t]
            /\ hosts' = hosts
        BY <1>3, <3>2 DEF Kill, Close
      <4> QED
        BY <1>1, <4>1 DEF LoadedInv
    <3> QED
      BY <3>1, <3>2
  <2> QED
    BY <1>1, <2>1 DEF LoadInv
<1>4. CASE Reset \/ UNCHANGED vars
  <2>1. UNCHANGED <<hosts, pc, job, push, mine>>
    BY <1>4 DEF Reset, vars, db, local
  <2>2. ASSUME NEW t \in Sessions PROVE LoadedInv(t)'
    BY <1>1, <2>1 DEF LoadedInv
  <2> QED
    BY <1>1, <2>2 DEF LoadInv
<1> QED
  BY <1>2, <1>3, <1>4 DEF Next, Sessions

(* The steps that push a host.                                             *)
LEMMA PushPushes ==
    ASSUME TypeInv, TypeInv', LoadInv, PushesInv, NEW s \in Sessions, Alone(s), Push(s)
    PROVE  Below' /\ PusherInv(s)'
<1> USE DEF Goto, db, npm, local
<1>0. /\ TypeOK /\ TypeOK' /\ SessionInv(s) /\ Below
      /\ PusherInv(s) /\ OpInv(s) /\ SeenInv(s) /\ ResyncInv(s)
  BY DEF TypeInv, PushesInv, PusherInv
<1> DEFINE Same1 == UNCHANGED <<proxies, nextHost>>
           Loop  == \A d \in Live(hosts)' \ Left(s)' : d \in Live(hosts) \ Left(s)
<1>a. Same1 => Below'
  BY <1>0 DEF Below
<1>b. ASSUME UNCHANGED <<hosts, record, npm, mine, job>>, pc[s] # "idle", Left(s) \subseteq Left(s)'
      PROVE  ResyncInv(s)'
  <2>1. SUFFICES ASSUME ResyncInv(s), pc'[s] # "idle", job[s].op = "resync", ~job[s].failed,
                        "unverified" \notin Faults, NEW d \in Live(hosts) \ Left(s)
                 PROVE  Published(s, d)'
    BY <1>0, <1>b DEF ResyncInv, Live
  <2>2. Published(s, d) /\ d \in Domains
    BY <1>0, <1>b, <2>1 DEF ResyncInv, Live, TypeOK
  <2>3. \A h \in ProxyOf(d) : h \in DOMAIN proxies' /\ proxies'[h] = proxies[h]
    BY <1>b DEF ProxyOf, Live
  <2> QED
    BY <1>b, <2>2, <2>3, PublishedKept
<1>1. CASE BeginHost(s)
  <2>1. PICK d \in Domains, op \in {"create", "update", "delete"} :
          /\ job' = [job EXCEPT ![s].op = op]
          /\ push' = [push EXCEPT ![s] = [NoPush EXCEPT !.d = d, !.seen[d] = hosts[d],
                         !.target = IF op = "delete" THEN hosts[d].npm ELSE None]]
          /\ Goto(s, IF op = "delete" /\ hosts[d].npm # None THEN "erase" ELSE "flush")
    BY <1>1 DEF BeginHost
  <2>2. job'[s].op = op /\ pc'[s] = IF op = "delete" /\ hosts[d].npm # None THEN "erase" ELSE "flush"
    BY <1>0, <2>1 DEF TypeOK, Job
  <2>3. push'[s].todo = {}
    BY <1>0, <2>1 DEF TypeOK, NoPush
  <2>4. Same1
    BY <1>1 DEF BeginHost
  <2> QED
    BY <1>a, <2>2, <2>3, <2>4 DEF PusherInv, OpInv, SeenInv, ResyncInv, InPush, Seen, Written,
                                  Rotating
<1>2. CASE BeginResync(s)
  <2>1. job'[s].op = "resync" /\ pc'[s] = "next" /\ push'[s].todo = Live(hosts) /\ hosts' = hosts
    BY <1>0, <1>2 DEF BeginResync, TypeOK, Job, NoPush
  <2>2. Live(hosts)' \ Left(s)' = {}
    BY <2>1 DEF Left, Live
  <2>3. Same1
    BY <1>2 DEF BeginResync
  <2> QED
    BY <1>a, <2>1, <2>2, <2>3 DEF PusherInv, OpInv, SeenInv, ResyncInv, InPush, Seen, Written,
                                  Rotating
<1>3. CASE Attach(s)
  <2>1. CASE Rollback(s)
    BY <1>a, <2>1, EndOps, NotPushingNext DEF Rollback
  <2>2. CASE Goto(s, "next") /\ UNCHANGED <<npm, job>>
    BY <1>0, <1>3, <1>a, <2>2 DEF Attach, TypeOK, PusherInv, OpInv, SeenInv, ResyncInv, InPush,
                                  Seen, Written, Rotating
  <2> QED
    BY <1>3, <2>1, <2>2 DEF Attach
<1>4. CASE NextHost(s)
  <2>1. PICK d \in push[s].todo :
          push' = [push EXCEPT ![s] = [@ EXCEPT !.todo = push[s].todo \ {d}, !.d = d]]
    BY <1>4 DEF NextHost
  <2>2. push'[s].todo = push[s].todo \ {d} /\ push'[s].d = d
    BY <1>0, <2>1 DEF TypeOK, Pushing
  <2>3. pc[s] = "next" /\ pc'[s] = "find" /\ UNCHANGED <<hosts, record, npm, mine, job>>
    BY <1>0, <1>4 DEF NextHost, TypeOK
  <2>4. Left(s) \subseteq Left(s)'
    BY <2>2, <2>3 DEF Left, InPush
  <2>5. OpInv(s)' /\ SeenInv(s)'
    BY <1>0, <2>2, <2>3 DEF OpInv, SeenInv, InPush, Seen, Written, Rotating, PushingOps
  <2> QED
    BY <1>a, <1>b, <2>3, <2>4, <2>5 DEF PusherInv
<1>5. CASE LastHost(s)
  <2>1. CASE Rollback(s)
    BY <1>a, <2>1, EndOps, NotPushingNext DEF Rollback
  <2>2. CASE Goto(s, "commit") /\ UNCHANGED <<db, npm, local>>
    <3>1. pc[s] = "next" /\ pc'[s] = "commit" /\ Left(s) \subseteq Left(s)'
      BY <1>0, <1>5, <2>2 DEF LastHost, Left, TypeOK, InPush
    <3>2. OpInv(s)' /\ SeenInv(s)'
      BY <1>5, <2>2, <3>1 DEF LastHost, OpInv, SeenInv, InPush, Seen, Written, Rotating
    <3> QED
      BY <1>a, <1>b, <2>2, <3>1, <3>2 DEF PusherInv
  <2> QED
    BY <1>5, <2>1, <2>2 DEF LastHost
<1>6. CASE Insert(s) \/ Flush(s) \/ Unchanged(s) \/ Remove(s)
  <2>1. /\ pc[s] = "flush" /\ job' = job /\ push' = push /\ Same1
        /\ pc'[s] = IF job[s].op = "delete" THEN "commit" ELSE "find"
    BY <1>0, <1>6 DEF Insert, Flush, Unchanged, Remove, TypeOK
  <2> QED
    BY <1>0, <1>a, <2>1 DEF PusherInv, OpInv, SeenInv, ResyncInv, InPush, Seen, Written,
                            Rotating, PushingOps
<1>7. CASE Find(s)
  <2>1. PICK h \in HostIds \cup {None} :
          /\ Found(push[s].d, h)
          /\ push' = [push EXCEPT ![s] = [@ EXCEPT !.cert = record.id, !.before = h,
                         !.snapshot = IF h = None THEN None ELSE proxies[h].cert]]
    BY <1>7 DEF Find
  <2>2. /\ push'[s].cert = record.id /\ push'[s].before = h
        /\ push'[s].todo = push[s].todo /\ push'[s].d = push[s].d
    BY <1>0, <2>1 DEF TypeOK, Pushing
  <2>3. /\ pc[s] = "find" /\ pc'[s] = "lookup" /\ UNCHANGED <<hosts, record, npm, mine, job>>
    BY <1>0, <1>7 DEF Find, TypeOK
  <2>4. h # None => h \in ProxyOf(push[s].d)'
    BY <2>1, <2>2, <2>3 DEF Found, ProxyOf, Live
  <2>5. Left(s) \subseteq Left(s)'
    BY <2>2, <2>3 DEF Left, InPush
  <2>6. OpInv(s)' /\ SeenInv(s)'
    BY <1>0, <2>2, <2>3, <2>4 DEF OpInv, SeenInv, InPush, Seen, Written, Rotating
  <2> QED
    BY <1>a, <1>b, <2>3, <2>5, <2>6 DEF PusherInv
<1>8. CASE Lookup(s)
  <2>1. PICK h \in HostIds \cup {None} :
          Found(push[s].d, h) /\ push' = [push EXCEPT ![s].target = h]
    BY <1>8 DEF Lookup
  <2>2. /\ push'[s].cert = push[s].cert /\ push'[s].before = push[s].before
        /\ push'[s].todo = push[s].todo /\ push'[s].d = push[s].d /\ push'[s].target = h
    BY <1>0, <2>1 DEF TypeOK, Pushing
  <2>3. /\ pc[s] = "lookup" /\ pc'[s] = "write" /\ UNCHANGED <<hosts, record, npm, mine, job>>
    BY <1>0, <1>8 DEF Lookup, TypeOK
  <2>4. /\ h # None => h \in ProxyOf(push[s].d)'
        /\ ProxyOf(push[s].d)' = ProxyOf(push[s].d)
    BY <2>1, <2>2, <2>3 DEF Found, ProxyOf, Live
  <2>5. Left(s) \subseteq Left(s)'
    BY <2>2, <2>3 DEF Left, InPush
  <2>6. OpInv(s)' /\ SeenInv(s)'
    BY <1>0, <2>2, <2>3, <2>4 DEF OpInv, SeenInv, InPush, Seen, Written, Rotating
  <2> QED
    BY <1>a, <1>b, <2>3, <2>5, <2>6 DEF PusherInv
<1>9. CASE Put(s) \/ Create(s)
  <2> DEFINE k == IF push[s].target = None THEN nextHost ELSE push[s].target
  <2>1. /\ pc[s] = "write" /\ pc'[s] = "verify"
        /\ UNCHANGED <<hosts, record, certs, mine, job>>
    BY <1>0, <1>9 DEF Put, Create, TypeOK
  <2>2. push[s].d \in Domains /\ push[s].d \notin push[s].todo /\ push[s].cert = record.id
    BY <1>0, <2>1 DEF SeenInv, SessionInv, InPush, Seen, PushLabels
  <2>3. /\ push'[s].cert = push[s].cert /\ push'[s].before = push[s].before
        /\ push'[s].todo = push[s].todo /\ push'[s].d = push[s].d /\ push'[s].target = k
    BY <1>0, <1>9, EdgeAssumption DEF Put, Create, TypeOK, Pushing, Live
  <2>4. /\ k \in HostIds /\ proxies'[k] = [domain |-> push[s].d, cert |-> record.id]
        /\ \A h \in HostIds \ {k} : proxies'[h] = proxies[h]
        /\ \A h \in HostIds : proxies[h] # None => proxies'[h] # None /\ proxies'[h].domain = proxies[h].domain
        /\ proxies[k] # None => proxies[k].domain = push[s].d
        /\ nextHost' \in Nat /\ nextHost' >= nextHost /\ (proxies[k] # None \/ nextHost' > k)
    <3>1. CASE Put(s)
      <4>1. /\ push[s].target \in Live(proxies) /\ nextHost' = nextHost
            /\ proxies' = [proxies EXCEPT ![push[s].target].cert = push[s].cert]
        BY <3>1 DEF Put
      <4>2. push[s].target # None /\ k = push[s].target /\ k \in HostIds
        BY <1>0, <4>1, EdgeAssumption DEF Live, TypeOK
      <4>3. push[s].target \in ProxyOf(push[s].d)
        BY <1>0, <2>1, <4>2 DEF SeenInv
      <4>4. proxies[k] \in Proxy /\ proxies[k].domain = push[s].d
        BY <1>0, <4>2, <4>3 DEF ProxyOf, Live, TypeOK
      <4>5. proxies'[k] = [proxies[k] EXCEPT !.cert = record.id]
            /\ \A h \in HostIds \ {k} : proxies'[h] = proxies[h]
        BY <1>0, <2>2, <4>1, <4>2 DEF TypeOK
      <4>6. proxies'[k] = [domain |-> push[s].d, cert |-> record.id]
        BY <4>4, <4>5 DEF Proxy
      <4>7. proxies'[k] # None
        BY <1>0, <2>2, <4>6, EdgeAssumption DEF TypeOK
      <4>8. nextHost' \in Nat /\ nextHost' >= nextHost
        BY <1>0, <4>1, EdgeAssumption DEF TypeOK
      <4>9. proxies[k] # None
        BY <4>1, <4>2 DEF Live
      <4> HIDE DEF k
      <4> QED
        BY <4>2, <4>4, <4>5, <4>6, <4>7, <4>8, <4>9
    <3>2. CASE Create(s)
      <4>1. /\ push[s].target = None /\ nextHost \in HostIds /\ nextHost' = nextHost + 1
            /\ proxies' = [proxies EXCEPT ![nextHost] = [domain |-> push[s].d, cert |-> push[s].cert]]
        BY <3>2 DEF Create
      <4>2. proxies[nextHost] = None
        BY <1>0, <4>1 DEF Below, HostIds
      <4> QED
        BY <1>0, <2>2, <4>1, <4>2, EdgeAssumption DEF TypeOK, HostIds
    <3> QED
      BY <1>9, <3>1, <3>2
  <2> HIDE DEF k
  <2>5. Below'
    <3>1. nextHost \in Nat /\ HostIds \subseteq Nat
      BY <1>0, EdgeAssumption DEF TypeOK, HostIds
    <3>2. ASSUME NEW h \in HostIds, proxies'[h] # None PROVE h < nextHost'
      <4>1. CASE h = k
        BY <1>0, <2>4, <3>1, <4>1 DEF Below
      <4>2. CASE h # k
        BY <1>0, <2>4, <3>1, <3>2, <4>2 DEF Below
      <4> QED
        BY <4>1, <4>2
    <3> QED
      BY <3>2 DEF Below
  <2>6. /\ k \in ProxyOf(push[s].d)'
        /\ push[s].before # None => push[s].before \in ProxyOf(push[s].d)'
    <3>1. proxies'[k] # None
      BY <1>0, <2>2, <2>4, EdgeAssumption DEF TypeOK
    <3>2. push[s].before # None => push[s].before \in ProxyOf(push[s].d)
      BY <1>0, <2>1 DEF SeenInv, Seen
    <3> QED
      BY <1>0, <2>3, <2>4, <3>1, <3>2 DEF ProxyOf, Live, TypeOK
  <2>7. SeenInv(s)' /\ OpInv(s)'
    BY <1>0, <2>1, <2>2, <2>3, <2>4, <2>6 DEF SeenInv, OpInv, InPush, Seen, Written, Rotating
  <2>8. ResyncInv(s)'
    <3>1. SUFFICES ASSUME job[s].op = "resync", ~job[s].failed, "unverified" \notin Faults,
                          NEW d \in Live(hosts) \ Left(s)'
                   PROVE  Published(s, d)'
      BY <2>1 DEF ResyncInv, Live
    <3>2. d \in Domains /\ d # push[s].d /\ d \notin push[s].todo
      BY <1>0, <2>1, <2>3, <3>1 DEF Left, InPush, Live, TypeOK
    <3>3. Published(s, d)
      BY <1>0, <2>1, <3>1, <3>2 DEF ResyncInv, Left, InPush
    <3>4. \A h \in ProxyOf(d) : h \in DOMAIN proxies' /\ proxies'[h] = proxies[h]
      BY <1>0, <2>4, <3>2 DEF ProxyOf, Live, TypeOK
    <3> QED
      BY <2>1, <3>2, <3>3, <3>4, PublishedKept
  <2> QED
    BY <2>5, <2>7, <2>8 DEF PusherInv
<1>10. CASE WriteRefused(s)
  BY <1>0, <1>a, <1>10, PushFailsPushes DEF WriteRefused
<1>11. CASE Accept(s) \/ Reject(s)
  <2>1. /\ pc[s] = "verify" /\ pc'[s] \in {"book", "undo"}
        /\ UNCHANGED <<hosts, record, npm, mine, job, push>>
    BY <1>0, <1>11 DEF Accept, Reject, TypeOK
  <2>2. push[s].target \in ProxyOf(push[s].d)
    BY <1>0, <2>1 DEF SeenInv, Written
  <2>3. pc'[s] = "book" /\ "unverified" \notin Faults => Servable(push[s].target)
    BY <1>0, <1>11, <2>2 DEF Accept, Reject, TypeOK, ProxyOf, Live
  <2>4. /\ ProxyOf(push[s].d)' = ProxyOf(push[s].d)
        /\ Servable(push[s].target)' = Servable(push[s].target)
    BY <2>1 DEF ProxyOf, Live, Servable, Complete
  <2>5. Left(s) \subseteq Left(s)'
    BY <2>1 DEF Left, InPush
  <2>6. OpInv(s)' /\ SeenInv(s)'
    BY <1>0, <2>1, <2>3, <2>4 DEF OpInv, SeenInv, InPush, Seen, Written, Rotating
  <2> QED
    BY <1>a, <1>b, <2>1, <2>5, <2>6 DEF PusherInv
<1>12. CASE Undo(s)
  <2>1. /\ nextHost' = nextHost
        /\ \A h \in HostIds : proxies'[h] # None => proxies[h] # None
    BY <1>0, <1>12 DEF Undo, TypeOK
  <2>2. Below'
    BY <1>0, <2>1 DEF Below
  <2> QED
    BY <1>0, <1>12, <2>2, PushFailsPushes DEF Undo
<1>13. CASE Book(s)
  <2>1. /\ pc[s] = "book" /\ job' = job /\ push' = push
        /\ UNCHANGED <<hosts, record, npm>>
        /\ pc'[s] = IF job[s].op \in {"create", "update"} THEN "commit" ELSE "next"
    BY <1>0, <1>13 DEF Book, TypeOK
  <2>2. /\ push[s].d \in Domains /\ push[s].target \in ProxyOf(push[s].d)
        /\ proxies[push[s].target].cert = record.id
        /\ "unverified" \notin Faults => Servable(push[s].target)
    BY <1>0, <2>1 DEF SeenInv, SessionInv, Written, PushLabels
  <2>3. OpInv(s)' /\ SeenInv(s)'
    BY <1>0, <2>1 DEF OpInv, SeenInv, InPush, Seen, Written, Rotating, PushingOps
  <2>4. ResyncInv(s)'
    <3>1. SUFFICES ASSUME job[s].op = "resync", ~job[s].failed, "unverified" \notin Faults,
                          NEW d \in Live(hosts) \ push[s].todo
                   PROVE  Published(s, d)'
      BY <2>1 DEF ResyncInv, Live, Left, InPush
    <3>2. CASE d = push[s].d
      <4>1. Draft(s)'[d].npm = push[s].target
        BY <1>13, <3>2, Booking
      <4>2. push[s].target \in ProxyOf(d)' /\ Servable(push[s].target)'
        BY <2>1, <2>2, <3>1, <3>2 DEF ProxyOf, Live, Servable, Complete
      <4> QED
        BY <2>1, <2>2, <4>1, <4>2 DEF Published
    <3>3. CASE d # push[s].d
      <4>1. d \in Domains /\ Published(s, d)
        BY <1>0, <2>1, <3>1, <3>3 DEF ResyncInv, Left, InPush, Live, TypeOK
      <4>2. mine'[s][d] = mine[s][d]
        BY <1>13, <3>3, <4>1, Booking
      <4>3. \A h \in ProxyOf(d) : h \in DOMAIN proxies' /\ proxies'[h] = proxies[h]
        BY <2>1 DEF ProxyOf, Live
      <4> QED
        BY <2>1, <4>1, <4>2, <4>3, PublishedKept
    <3> QED
      BY <3>2, <3>3
  <2> QED
    BY <1>a, <2>1, <2>3, <2>4 DEF PusherInv
<1>14. CASE Erase(s)
  <2>1. /\ nextHost' = nextHost /\ pc[s] = "erase" /\ pc'[s] = "flush" /\ job' = job /\ push' = push
        /\ \A h \in HostIds : proxies'[h] # None => proxies[h] # None
    BY <1>0, <1>14 DEF Erase, TypeOK
  <2>2. Below'
    BY <1>0, <2>1 DEF Below
  <2> QED
    BY <1>0, <2>1, <2>2 DEF PusherInv, OpInv, SeenInv, ResyncInv, InPush, Seen, Written, Rotating
<1> QED
  BY <1>1, <1>2, <1>3, <1>4, <1>5, <1>6, <1>7, <1>8, <1>9, <1>10, <1>11, <1>12, <1>13,
     <1>14 DEF Push

(* The end of a session, by commit, rollback or a request that fails.      *)
LEMMA FinishPushes ==
    ASSUME TypeInv, PushesInv, NEW s \in Sessions, Finish(s)
    PROVE  Below' /\ PusherInv(s)'
<1> USE DEF db, npm, local
<1>0. TypeOK /\ Below /\ PusherInv(s)
  BY DEF TypeInv, PushesInv
<1>1. Below'
  BY <1>0 DEF Finish, Commit, Done, Rejected, RequestFails, Refused, Rollback, Below
<1>2. CASE Commit(s) \/ Rejected(s) \/ Refused(s)
  BY <1>1, <1>2, EndOps, NotPushingNext DEF Commit, Rejected, Refused, Rollback
<1>3. CASE Done(s)
  <2>1. NotPushing(s)'
    BY <1>0, <1>3 DEF Done, Goto, NotPushing, TypeOK
  <2> QED
    BY <1>1, <2>1, NotPushingNext
<1>4. CASE RequestFails(s)
  BY <1>0, <1>1, <1>4, EndOps, NotPushingNext, PushFailsPushes DEF RequestFails, Rollback
<1> QED
  BY <1>1, <1>2, <1>3, <1>4 DEF Finish

(* A killed process: the sessions that go on are not touched.              *)
LEMMA KillPushes ==
    ASSUME TypeInv, PushesInv, NEW S \in SUBSET Sessions, Kill(S)
    PROVE  PushesInv'
<1>1. UNCHANGED <<hosts, record, certs, proxies, nextHost>>
  BY DEF Kill, npm
<1>2. ASSUME NEW t \in S PROVE PusherInv(t)'
  <2>1. NotPushing(t)'
    BY DEF Kill, NotPushing
  <2> QED
    BY <2>1, NotPushingNext
<1>3. ASSUME NEW t \in Sessions \ S PROVE PusherInv(t)'
  <2>1. /\ pc'[t] = pc[t] /\ job'[t] = job[t] /\ push'[t] = push[t] /\ mine'[t] = mine[t]
    BY DEF Kill, Close
  <2>2. PusherInv(t)
    BY DEF PushesInv
  <2>3. OpInv(t)' /\ SeenInv(t)'
    BY <1>1, <2>1, <2>2 DEF PusherInv, OpInv, SeenInv, ProxyOf, Live, Servable, Complete
  <2>4. ResyncInv(t)'
    BY <1>1, <2>1, <2>2 DEF PusherInv, ResyncInv, Left, Published, Draft, ProxyOf, Live, Servable,
                            Complete
  <2> QED
    BY <2>3, <2>4 DEF PusherInv
<1> QED
  BY <1>1, <1>2, <1>3 DEF PushesInv, Below

(* NPM is reset while no session runs.                                     *)
LEMMA ResetPushes == Reset => PushesInv'
<1> SUFFICES ASSUME Reset PROVE PushesInv'
  OBVIOUS
<1>1. ASSUME NEW t \in Sessions PROVE NotPushing(t)'
  BY DEF Reset, NotPushing
<1>2. Below'
  BY DEF Reset, Below
<1> QED
  BY <1>1, <1>2, NotPushingNext DEF PushesInv

LEMMA PushesNext ==
    ASSUME ~Overlap, TypeInv, TypeInv', Serial, LoadInv, PushesInv, [Next]_vars
    PROVE  PushesInv'
<1>1. ASSUME NEW s \in Sessions, Install(s) \/ Push(s) \/ Finish(s) PROVE PushesInv'
  BY <1>1, ActsAlone, PusherAlone, InstallPushes, PushPushes, FinishPushes
<1>2. ASSUME NEW S \in SUBSET Sessions, Kill(S) PROVE PushesInv'
  BY <1>2, KillPushes
<1>3. CASE Reset
  BY <1>3, ResetPushes
<1>4. CASE UNCHANGED vars
  BY <1>4 DEF vars, db, npm, local, PushesInv, Below, PusherInv, OpInv, SeenInv, ResyncInv, Left,
              Published, Draft, ProxyOf, Live, Servable, Complete
<1> QED
  BY <1>1, <1>2, <1>3, <1>4 DEF Next, Sessions

(* What a session has seen of NPM when it pushes holds while it pushes.     *)
LEMMA PushesHold ==
    ASSUME ~Overlap
    PROVE  Spec => [](LoadInv /\ PushesInv)
<1>1. Init => PushesInv
  <2>1. SUFFICES ASSUME Init PROVE PushesInv
    OBVIOUS
  <2>2. ASSUME NEW t \in Sessions PROVE NotPushing(t)
    BY <2>1 DEF Init, NotPushing
  <2> QED
    BY <2>1, <2>2, NotPushingHolds DEF PushesInv, Below, Init
<1>2. Init => LoadInv
  BY RowsInit, LoadInit DEF Init
<1>3. TypeInv /\ TypeInv' /\ Serial /\ LoadInv /\ PushesInv /\ [Next]_vars
      => (LoadInv /\ PushesInv)'
  BY LoadNext, PushesNext
<1> QED
  BY <1>1, <1>2, <1>3, TypesHold, SerialHolds, PTL DEF Spec

(* A resync that reports no failure has put every host of the table back   *)
(* into NPM with the recorded certificate, whatever NPM lost before it, as *)
(* long as nginx is asked about each push.                                 *)
THEOREM ResyncRestoresNpm ==
    ASSUME ~Overlap, "unverified" \notin Faults
    PROVE  Spec => []ResyncRepublishes
<1>0. PushesInv => ResyncRepublishes
  <2>1. SUFFICES ASSUME PushesInv, NEW s \in Sessions, pc[s] = "commit", job[s].op = "resync",
                        ~job[s].failed, NEW d \in Live(hosts)
                 PROVE  Published(s, d)
    BY DEF ResyncRepublishes, Published
  <2>2. SeenInv(s) /\ ResyncInv(s)
    BY <2>1 DEF PushesInv, PusherInv
  <2>3. Left(s) = {}
    BY <2>1, <2>2 DEF SeenInv, Left, InPush
  <2> QED
    BY <2>1, <2>2, <2>3 DEF ResyncInv
<1> QED
  BY <1>0, PushesHold, PTL

-----------------------------------------------------------------------------
(* Installing a certificate: the new record is complete before a host is   *)
(* moved to it, and an old one has no user when it goes.                   *)

\* Superseded records are being given up.
Retiring(s) ==
    \/ pc[s] \in {"repoint", "sweep", "drop"}
    \/ pc[s] = "move" /\ rot[s].then = "repoint"

\* The hosts go, or have gone, to the new certificate.
Switching(s) ==
    \/ pc[s] \in {"repoint", "move", "sweep", "drop", "previous"}
    \/ pc[s] = "commit" /\ job[s].op \in InstallOps

RotatorInv(s) ==
    /\ pc[s] \in {"check", "supersede", "post"} => rot[s].m # "acme"
    /\ pc[s] = "post" => \A c \in rot[s].superseded : c < nextCert
    /\ pc[s] \in {"upload", "discard"} =>
          ~Complete(rot[s].new) /\ rot[s].new \notin rot[s].superseded
    /\ Retiring(s) => rot[s].new \notin rot[s].superseded /\ rot[s].old \subseteq rot[s].superseded
    /\ Switching(s) => Complete(rot[s].new)
    /\ pc[s] = "drop" => rot[s].victim # rot[s].new /\ Users(rot[s].victim) = {}

\* NPM's numbers are not used yet; what it obtains itself has its files.
FreshCerts == \A c \in CertIds : c >= nextCert => certs[c] = None
AcmeFiles  == \A c \in Live(certs) : certs[c].of = "acme" => certs[c].files

RotationInv == FreshCerts /\ AcmeFiles /\ \A s \in Sessions : RotatorInv(s)

NotInstalling(s) ==
    /\ pc[s] \notin Rotating \cup {"settled"}
    /\ pc[s] = "commit" => job[s].op \notin InstallOps

LEMMA NotInstallingHolds ==
    ASSUME NEW s \in Sessions, NotInstalling(s)
    PROVE  RotatorInv(s)
  BY DEF NotInstalling, RotatorInv, Retiring, Switching, Rotating

LEMMA NotInstallingNext ==
    ASSUME NEW s \in Sessions, NotInstalling(s)'
    PROVE  RotatorInv(s)'
  BY DEF NotInstalling, RotatorInv, Retiring, Switching, Rotating

(* The other sessions are idle.                                            *)
LEMMA RotatorAlone ==
    ASSUME NEW s \in Sessions, Alone(s), FreshCerts', AcmeFiles', RotatorInv(s)'
    PROVE  RotationInv'
<1>1. ASSUME NEW t \in Sessions \ {s} PROVE NotInstalling(t)'
  BY DEF Alone, NotInstalling, Rotating
<1>2. \A t \in Sessions \ {s} : RotatorInv(t)'
  BY <1>1, NotInstallingNext
<1> QED
  BY <1>2 DEF RotationInv

LEMMA EndElsewhere ==
    ASSUME TypeInv, NEW s \in Sessions, NEW good, End(s, good)
    PROVE  NotInstalling(s)' /\ pc'[s] \in {"idle", "attach", "done"}
  BY DEF End, Goto, TypeInv, TypeOK, NotInstalling, Rotating

(* A session that pushes hosts leaves the certificates alone.              *)
LEMMA PushElsewhere ==
    ASSUME TypeInv, NEW s \in Sessions, OpInv(s), Push(s)
    PROVE  NotInstalling(s)' /\ UNCHANGED <<certs, nextCert>>
<1> USE DEF Goto, db, npm, local
<1>0. TypeOK
  BY DEF TypeInv
<1>1. CASE \/ BeginHost(s) \/ BeginResync(s) \/ NextHost(s) \/ Unchanged(s) \/ Find(s)
           \/ Lookup(s) \/ Put(s) \/ Create(s) \/ Accept(s) \/ Reject(s) \/ Erase(s)
  <2>1. pc'[s] \in {"erase", "flush", "next", "find", "lookup", "write", "verify", "book", "undo"}
    BY <1>0, <1>1 DEF BeginHost, BeginResync, NextHost, Unchanged, Find, Lookup, Put, Create,
                      Accept, Reject, Erase, TypeOK
  <2>2. UNCHANGED <<certs, nextCert>>
    BY <1>1 DEF BeginHost, BeginResync, NextHost, Unchanged, Find, Lookup, Put, Create,
                Accept, Reject, Erase
  <2> QED
    BY <2>1, <2>2 DEF NotInstalling, Rotating
<1>2. CASE Insert(s) \/ Flush(s) \/ Remove(s) \/ Book(s)
  <2>1. /\ job' = job /\ UNCHANGED <<certs, nextCert>> /\ pc'[s] \in {"commit", "find", "next"}
        /\ job[s].op \notin InstallOps
    BY <1>0, <1>2 DEF Insert, Flush, Remove, Book, OpInv, InPush, TypeOK, InstallOps, PushingOps
  <2> QED
    BY <2>1 DEF NotInstalling, Rotating
<1>3. CASE Attach(s) \/ LastHost(s)
  <2>1. CASE Rollback(s)
    BY <2>1, EndElsewhere DEF Rollback
  <2>2. CASE ~Rollback(s)
    BY <1>0, <1>3, <2>2 DEF Attach, LastHost, OpInv, TypeOK, NotInstalling, Rotating, InstallOps
  <2> QED
    BY <2>1, <2>2
<1>4. CASE WriteRefused(s) \/ Undo(s)
  <2>1. PushFails(s) /\ UNCHANGED <<certs, nextCert>>
    BY <1>4 DEF WriteRefused, Undo
  <2>2. CASE End(s, FALSE)
    BY <2>1, <2>2, EndElsewhere
  <2>3. CASE ~End(s, FALSE)
    BY <1>0, <2>1, <2>3 DEF PushFails, TypeOK, NotInstalling, Rotating, InstallOps
  <2> QED
    BY <2>2, <2>3
<1> QED
  BY <1>1, <1>2, <1>3, <1>4 DEF Push

(* The end of a session does, too.                                         *)
LEMMA FinishElsewhere ==
    ASSUME TypeInv, NEW s \in Sessions, OpInv(s), Finish(s)
    PROVE  NotInstalling(s)' /\ UNCHANGED npm
<1>0. TypeOK
  BY DEF TypeInv
<1>1. CASE Commit(s) \/ Rejected(s) \/ Refused(s)
  BY <1>1, EndElsewhere DEF Commit, Rejected, Refused, Rollback
<1>2. CASE Done(s)
  BY <1>0, <1>2 DEF Done, Goto, NotInstalling, TypeOK, Rotating
<1>3. CASE RequestFails(s)
  <2>1. CASE End(s, FALSE)
    BY <1>3, <2>1, EndElsewhere DEF RequestFails, Rollback
  <2>2. CASE ~End(s, FALSE)
    BY <1>0, <1>3, <2>2 DEF RequestFails, Rollback, PushFails, TypeOK, Goto, NotInstalling,
                            Rotating, InstallOps, local
  <2> QED
    BY <2>1, <2>2
<1> QED
  BY <1>1, <1>2, <1>3 DEF Finish

(* The steps that install a certificate.                                   *)
LEMMA InstallRotates ==
    ASSUME TypeInv, TypeInv', RotationInv, NEW s \in Sessions, OpInv(s), Install(s)
    PROVE  FreshCerts' /\ AcmeFiles' /\ RotatorInv(s)'
<1> USE DEF Goto, db, npm, local
<1>0. /\ TypeOK /\ TypeOK' /\ SessionInv(s) /\ FreshCerts /\ AcmeFiles /\ RotatorInv(s)
      /\ rot[s] \in Rotation /\ nextCert \in Nat /\ CertIds \subseteq Nat
  <2>1. TypeOK /\ TypeOK' /\ SessionInv(s) /\ FreshCerts /\ AcmeFiles /\ RotatorInv(s)
    BY DEF TypeInv, RotationInv
  <2> QED
    BY <2>1, EdgeAssumption DEF TypeOK, CertIds
<1>a. certs' = certs /\ nextCert' = nextCert => FreshCerts' /\ AcmeFiles'
  BY <1>0 DEF FreshCerts, AcmeFiles, Live
<1>b. \A c : certs' = certs => Complete(c)' = Complete(c)
  BY DEF Complete, Live
<1>1. CASE BeginInstall(s)
  <2>1. PICK m \in Sources, op \in {"install", "provision"}, force \in BOOLEAN,
             l \in {"issue", "obtain", "check", "settled", "supersede"} :
          /\ rot' = [rot EXCEPT ![s] = [NoRotation EXCEPT !.m = m, !.prev = record.id,
                                                          !.of = record.of]]
          /\ Goto(s, l)
          /\ l = "issue" \/ l = "obtain" <=> m = "acme"
          /\ UNCHANGED <<db, npm, push, mine>>
    BY <1>1 DEF BeginInstall, Supplied
  <2>2. rot'[s].m = m /\ pc'[s] = l
    BY <1>0, <2>1 DEF TypeOK, NoRotation
  <2> QED
    BY <1>a, <2>1, <2>2 DEF RotatorInv, Retiring, Switching
<1>2. CASE Check(s)
  <2>1. pc[s] = "check" /\ pc'[s] \in {"settled", "supersede"} /\ rot' = rot
    BY <1>0, <1>2 DEF Check, TypeOK
  <2> QED
    BY <1>0, <1>2, <1>a, <2>1 DEF Check, RotatorInv, Retiring, Switching
<1>3. CASE Settled(s)
  BY <1>3, <1>a, EndElsewhere, NotInstallingNext DEF Settled
<1>4. CASE Supersede(s)
  <2>1. /\ pc[s] = "supersede" /\ pc'[s] = "post" /\ rot'[s].m = rot[s].m
        /\ rot'[s].superseded = Labelled(rot[s].m)
    BY <1>0, <1>4 DEF Supersede, TypeOK, Rotation
  <2>2. ASSUME NEW c \in Labelled(rot[s].m) PROVE c < nextCert
    <3>1. c \in CertIds /\ certs[c] # None
      BY <1>0 DEF Labelled, Live, TypeOK
    <3>2. c \in Nat /\ nextCert \in Nat
      BY <1>0, <3>1, EdgeAssumption DEF TypeOK, CertIds
    <3>3. ~(c >= nextCert)
      BY <1>0, <3>1 DEF FreshCerts
    <3> QED
      BY <3>2, <3>3
  <2> QED
    BY <1>0, <1>4, <1>a, <2>1, <2>2 DEF Supersede, RotatorInv, Retiring, Switching
<1>5. CASE Post(s)
  <2>1. /\ pc[s] = "post" /\ pc'[s] = "upload" /\ nextCert \in CertIds /\ nextCert' = nextCert + 1
        /\ certs' = [certs EXCEPT ![nextCert] = [of |-> rot[s].m, files |-> FALSE]]
        /\ rot'[s].new = nextCert /\ rot'[s].superseded = rot[s].superseded
    BY <1>0, <1>5 DEF Post, TypeOK, Rotation
  <2>2. rot[s].m # "acme" /\ nextCert \notin rot[s].superseded
    BY <1>0, <2>1 DEF RotatorInv
  <2>3. FreshCerts'
    <3>1. SUFFICES ASSUME NEW c \in CertIds, c >= nextCert'
                   PROVE  certs'[c] = None
      BY DEF FreshCerts
    <3>2. c \in Nat /\ nextCert \in Nat
      BY <2>1, EdgeAssumption DEF CertIds
    <3>3. c >= nextCert /\ c # nextCert
      BY <2>1, <3>1, <3>2
    <3>4. certs'[c] = certs[c]
      BY <2>1, <3>3
    <3> QED
      BY <1>0, <3>1, <3>3, <3>4 DEF FreshCerts
  <2>4. AcmeFiles'
    BY <1>0, <2>1, <2>2 DEF AcmeFiles, Live, TypeOK
  <2>5. ~Complete(rot[s].new)'
    <3>1. certs'[nextCert] = [of |-> rot[s].m, files |-> FALSE]
      BY <1>0, <2>1 DEF TypeOK
    <3> QED
      BY <2>1, <3>1 DEF Complete
  <2> QED
    BY <2>1, <2>2, <2>3, <2>4, <2>5 DEF RotatorInv, Retiring, Switching
<1>6. CASE Upload(s)
  <2>1. /\ pc[s] = "upload" /\ pc'[s] = "repoint" /\ nextCert' = nextCert
        /\ rot[s].new \in Live(certs)
        /\ certs' = [certs EXCEPT ![rot[s].new].files = TRUE]
        /\ rot'[s].new = rot[s].new /\ rot'[s].superseded = rot[s].superseded
        /\ rot'[s].old = rot[s].superseded
    BY <1>0, <1>6 DEF Upload, TypeOK, Rotation
  <2>2. /\ rot[s].new \in CertIds /\ certs[rot[s].new] \in Certificate
        /\ rot[s].new \notin rot[s].superseded
    BY <1>0, <2>1 DEF Live, TypeOK, RotatorInv
  <2>3. /\ certs'[rot[s].new] = [of |-> certs[rot[s].new].of, files |-> TRUE]
        /\ \A c \in CertIds \ {rot[s].new} : certs'[c] = certs[c]
    BY <1>0, <2>1, <2>2 DEF TypeOK, Certificate
  <2>4. certs'[rot[s].new] # None
    BY <1>0, <2>2, <2>3, EdgeAssumption DEF Certificate
  <2>5. FreshCerts'
    BY <1>0, <2>1, <2>3 DEF FreshCerts, Live
  <2>6. AcmeFiles'
    <3>1. ASSUME NEW c \in Live(certs)', certs'[c].of = "acme" PROVE certs'[c].files
      <4>1. c \in CertIds
        BY <1>0, <3>1 DEF Live, TypeOK
      <4>2. CASE c = rot[s].new
        BY <2>3, <4>2
      <4>3. CASE c # rot[s].new
        BY <1>0, <2>3, <3>1, <4>1, <4>3 DEF AcmeFiles, Live, TypeOK
      <4> QED
        BY <4>2, <4>3
    <3> QED
      BY <3>1 DEF AcmeFiles
  <2>7. Complete(rot[s].new)'
    BY <1>0, <2>1, <2>2, <2>3, <2>4 DEF Complete, Live, TypeOK
  <2> QED
    BY <2>1, <2>2, <2>5, <2>6, <2>7 DEF RotatorInv, Retiring, Switching, Complete
<1>7. CASE UploadRefused(s)
  <2>1. pc[s] = "upload" /\ pc'[s] = "discard" /\ rot' = rot /\ UNCHANGED npm
    BY <1>0, <1>7 DEF UploadRefused, TypeOK
  <2> QED
    BY <1>0, <1>a, <1>b, <2>1 DEF RotatorInv, Retiring, Switching, Complete
<1>8. CASE Discard(s)
  <2>1. FreshCerts' /\ AcmeFiles'
    BY <1>0, <1>8 DEF Discard, FreshCerts, AcmeFiles, Live, TypeOK
  <2> QED
    BY <1>8, <2>1, EndElsewhere, NotInstallingNext DEF Discard
<1>9. CASE Repoint(s)
  <2>1. PICK c \in rot[s].old :
          rot' = [rot EXCEPT ![s] = [@ EXCEPT !.old = rot[s].old \ {c}, !.users = Users(c),
                                              !.then = "repoint"]]
    BY <1>9 DEF Repoint
  <2>2. /\ rot'[s].new = rot[s].new /\ rot'[s].superseded = rot[s].superseded
        /\ rot'[s].old \subseteq rot[s].old
    BY <1>0, <2>1 DEF TypeOK, Rotation
  <2>3. pc[s] = "repoint" /\ pc'[s] = "move" /\ UNCHANGED npm
    BY <1>0, <1>9 DEF Repoint, TypeOK
  <2> QED
    BY <1>0, <1>a, <2>2, <2>3 DEF RotatorInv, Retiring, Switching, Complete, Live
<1>10. CASE Repointed(s)
  <2>1. /\ pc[s] = "repoint" /\ pc'[s] = "sweep" /\ UNCHANGED npm
        /\ rot'[s].new = rot[s].new /\ rot'[s].superseded = rot[s].superseded
        /\ rot'[s].old = rot[s].superseded
    BY <1>0, <1>10 DEF Repointed, TypeOK, Rotation
  <2> QED
    BY <1>0, <1>a, <2>1 DEF RotatorInv, Retiring, Switching, Complete, Live
<1>11. CASE Move(s) \/ MoveRefused(s)
  <2>1. /\ pc[s] = "move" /\ pc' = pc /\ UNCHANGED <<certs, nextCert>>
        /\ rot'[s].new = rot[s].new /\ rot'[s].superseded = rot[s].superseded
        /\ rot'[s].old = rot[s].old /\ rot'[s].then = rot[s].then
    <3>1. PICK h : rot' = [rot EXCEPT ![s].users = @ \ {h}]
      BY <1>11 DEF Move, MoveRefused
    <3>2. pc[s] = "move" /\ pc' = pc /\ UNCHANGED <<certs, nextCert>>
      BY <1>11 DEF Move, MoveRefused
    <3> QED
      BY <1>0, <3>1, <3>2 DEF TypeOK, Rotation
  <2> QED
    BY <1>0, <1>a, <2>1 DEF RotatorInv, Retiring, Switching, Complete, Live
<1>12. CASE Moved(s)
  <2>1. CASE Rollback(s)
    BY <1>a, <2>1, EndElsewhere, NotInstallingNext DEF Rollback
  <2>2. CASE Goto(s, rot[s].then) /\ UNCHANGED <<db, npm, local>>
    <3>1. /\ pc[s] = "move" /\ rot[s].then \in {"repoint", "commit"} /\ pc'[s] = rot[s].then
          /\ rot' = rot /\ UNCHANGED npm
      BY <1>0, <1>12, <2>2 DEF Moved, SessionInv, Rotation, TypeOK
    <3> QED
      BY <1>0, <1>a, <3>1 DEF RotatorInv, Retiring, Switching, Complete, Live
  <2> QED
    BY <1>12, <2>1, <2>2 DEF Moved
<1>13. CASE Sweep(s)
  <2>1. PICK c \in rot[s].old :
          /\ rot' = [rot EXCEPT ![s] = [@ EXCEPT !.old = rot[s].old \ {c}, !.victim = c]]
          /\ Goto(s, IF Users(c) = {} THEN "drop" ELSE "sweep")
    BY <1>13 DEF Sweep
  <2>2. /\ rot'[s].new = rot[s].new /\ rot'[s].superseded = rot[s].superseded
        /\ rot'[s].old \subseteq rot[s].old /\ rot'[s].victim = c
    BY <1>0, <2>1 DEF TypeOK, Rotation
  <2>3. /\ pc[s] = "sweep" /\ pc'[s] = IF Users(c) = {} THEN "drop" ELSE "sweep"
        /\ UNCHANGED npm
    BY <1>0, <1>13, <2>1 DEF Sweep, TypeOK
  <2>4. c # rot[s].new /\ Users(c)' = Users(c)
    BY <1>0, <2>1, <2>3 DEF RotatorInv, Retiring, Users, Live
  <2> QED
    BY <1>0, <1>a, <2>2, <2>3, <2>4 DEF RotatorInv, Retiring, Switching, Complete, Live
<1>14. CASE Drop(s)
  <2>1. /\ pc[s] = "drop" /\ pc'[s] = "sweep" /\ nextCert' = nextCert /\ rot' = rot
        /\ rot[s].victim \in CertIds
        /\ certs' = [certs EXCEPT ![rot[s].victim] = None]
    BY <1>0, <1>14 DEF Drop, TypeOK, Live
  <2>2. FreshCerts' /\ AcmeFiles'
    BY <1>0, <2>1 DEF FreshCerts, AcmeFiles, Live, TypeOK
  <2>3. Complete(rot[s].new)'
    BY <1>0, <2>1 DEF RotatorInv, Switching, Complete, Live, TypeOK
  <2> QED
    BY <1>0, <2>1, <2>2, <2>3 DEF RotatorInv, Retiring, Switching, Complete
<1>15. CASE Swept(s)
  <2>1. pc[s] = "sweep" /\ pc'[s] = "previous" /\ rot' = rot /\ UNCHANGED npm
    BY <1>0, <1>15 DEF Swept, TypeOK
  <2> QED
    BY <1>0, <1>a, <2>1 DEF RotatorInv, Retiring, Switching, Complete, Live
<1>16. CASE Previous(s)
  <2>1. /\ pc[s] = "previous" /\ pc'[s] \in {"move", "commit"} /\ UNCHANGED npm
        /\ rot'[s].new = rot[s].new /\ (pc'[s] = "move" => rot'[s].then = "commit")
    <3>1. CASE rot' = [rot EXCEPT ![s] = [@ EXCEPT !.users = Users(rot[s].prev),
                                                   !.then = "commit"]]
               /\ Goto(s, "move")
      BY <1>0, <1>16, <3>1 DEF Previous, TypeOK, Rotation
    <3>2. CASE Goto(s, "commit") /\ UNCHANGED rot
      BY <1>0, <1>16, <3>2 DEF Previous, TypeOK
    <3> QED
      BY <1>16, <3>1, <3>2 DEF Previous
  <2> QED
    BY <1>0, <1>a, <2>1 DEF RotatorInv, Retiring, Switching, Complete, Live
<1>17. CASE Obtain(s)
  <2>1. CASE \E c \in Labelled("acme") :
                rot' = [rot EXCEPT ![s].new = c] /\ Goto(s, "previous")
    <3>1. PICK c \in Labelled("acme") :
             rot' = [rot EXCEPT ![s].new = c] /\ Goto(s, "previous")
      BY <2>1
    <3>2. Complete(c)
      BY <1>0, <3>1 DEF Labelled, Label, AcmeFiles, Complete
    <3>3. rot'[s].new = c /\ pc'[s] = "previous" /\ UNCHANGED npm
      BY <1>0, <1>17, <3>1 DEF Obtain, TypeOK, Rotation
    <3> QED
      BY <1>a, <1>b, <3>2, <3>3 DEF RotatorInv, Retiring, Switching, Complete
  <2>2. CASE Goto(s, "issue")
    BY <1>0, <1>17, <1>a, <2>2 DEF Obtain, TypeOK, RotatorInv, Retiring, Switching
  <2> QED
    BY <1>17, <2>1, <2>2 DEF Obtain
<1>18. CASE Issue(s)
  <2>1. /\ nextCert \in CertIds /\ nextCert' = nextCert + 1
        /\ certs' = [certs EXCEPT ![nextCert] = [of |-> "acme", files |-> TRUE]]
    BY <1>18 DEF Issue
  <2>2. FreshCerts'
    BY <1>0, <2>1 DEF FreshCerts, TypeOK
  <2>3. AcmeFiles'
    BY <1>0, <2>1 DEF AcmeFiles, Live, TypeOK
  <2>4. CASE End(s, FALSE)
    BY <2>2, <2>3, <2>4, EndElsewhere, NotInstallingNext
  <2>5. CASE rot' = [rot EXCEPT ![s].new = nextCert] /\ Goto(s, "previous")
    <3>1. rot'[s].new = nextCert /\ pc'[s] = "previous"
      BY <1>0, <2>5 DEF TypeOK, Rotation
    <3>2. certs'[nextCert] = [of |-> "acme", files |-> TRUE] /\ certs'[nextCert] # None
      BY <1>0, <2>1, EdgeAssumption DEF TypeOK, Materials
    <3>3. Complete(rot[s].new)'
      BY <1>0, <2>1, <3>1, <3>2 DEF Complete, Live, TypeOK
    <3> QED
      BY <2>2, <2>3, <3>1, <3>3 DEF RotatorInv, Retiring, Switching, Complete
  <2> QED
    BY <1>18, <2>4, <2>5 DEF Issue
<1> QED
  BY <1>1, <1>2, <1>3, <1>4, <1>5, <1>6, <1>7, <1>8, <1>9, <1>10, <1>11, <1>12, <1>13,
     <1>14, <1>15, <1>16, <1>17, <1>18 DEF Install

LEMMA RotationNext ==
    ASSUME ~Overlap, "reset" \notin Faults, TypeInv, TypeInv', Serial, PushesInv, RotationInv,
           [Next]_vars
    PROVE  RotationInv'
<1>0. FreshCerts /\ AcmeFiles /\ \A s \in Sessions : OpInv(s)
  BY DEF PushesInv, PusherInv, RotationInv
<1>1. UNCHANGED <<certs, nextCert>> => FreshCerts' /\ AcmeFiles'
  BY <1>0 DEF FreshCerts, AcmeFiles, Live
<1>2. ASSUME NEW s \in Sessions, Install(s) PROVE RotationInv'
  BY <1>0, <1>2, ActsAlone, InstallRotates, RotatorAlone
<1>3. ASSUME NEW s \in Sessions, Push(s) PROVE RotationInv'
  BY <1>0, <1>1, <1>3, ActsAlone, PushElsewhere, NotInstallingNext, RotatorAlone
<1>4. ASSUME NEW s \in Sessions, Finish(s) PROVE RotationInv'
  BY <1>0, <1>1, <1>4, ActsAlone, FinishElsewhere, NotInstallingNext, RotatorAlone DEF npm
<1>5. ASSUME NEW S \in SUBSET Sessions, Kill(S) PROVE RotationInv'
  <2>1. UNCHANGED <<certs, proxies, nextCert>>
    BY <1>5 DEF Kill, npm
  <2>2. ASSUME NEW t \in S PROVE RotatorInv(t)'
    <3>1. NotInstalling(t)'
      BY <1>5 DEF Kill, NotInstalling, Rotating
    <3> QED
      BY <3>1, NotInstallingNext
  <2>3. ASSUME NEW t \in Sessions \ S PROVE RotatorInv(t)'
    <3>1. pc'[t] = pc[t] /\ job'[t] = job[t] /\ rot'[t] = rot[t] /\ RotatorInv(t)
      BY <1>5 DEF Kill, RotationInv
    <3> QED
      BY <2>1, <3>1 DEF RotatorInv, Retiring, Switching, Complete, Users, Live
  <2> QED
    BY <1>1, <2>1, <2>2, <2>3 DEF RotationInv
<1>6. CASE UNCHANGED vars
  BY <1>1, <1>6 DEF vars, db, npm, local, RotationInv, RotatorInv, Retiring, Switching, Complete,
                    Users, Live
<1> QED
  BY <1>2, <1>3, <1>4, <1>5, <1>6 DEF Next, Sessions, Reset

LEMMA RotationHolds ==
    ASSUME ~Overlap, "reset" \notin Faults
    PROVE  Spec => []RotationInv
<1>1. Init => RotationInv
  BY NotInstallingHolds DEF Init, RotationInv, FreshCerts, AcmeFiles, Live, NotInstalling, Rotating
<1>2. /\ TypeInv /\ TypeInv' /\ Serial /\ PushesInv /\ RotationInv /\ [Next]_vars
      => RotationInv'
  BY RotationNext
<1> QED
  BY <1>1, <1>2, TypesHold, SerialHolds, PushesHold, PTL DEF Spec

(* What an installation does to the certificates: those that a host uses *)
(* stay complete, and a new one is of the material it installs.          *)
LEMMA InstallCertificates ==
    ASSUME TypeInv, TypeInv', RotationInv, NEW s \in Sessions, Install(s)
    PROVE  /\ nextCert' >= nextCert
           /\ \A c \in CertIds : Complete(c) /\ Users(c) # {} => Complete(c)'
           /\ \A c \in CertIds : certs'[c] # None =>
                 \/ /\ certs[c] # None /\ certs'[c].of = certs[c].of
                    /\ certs[c].files => certs'[c].files
                 \/ c = nextCert /\ pc[s] = "post" /\ certs'[c].of = rot[s].m
                 \/ c = nextCert /\ pc[s] = "issue" /\ certs'[c].of = "acme"
<1> USE DEF Goto, db, npm, local
<1>0. /\ TypeOK /\ TypeOK' /\ FreshCerts /\ RotatorInv(s)
      /\ nextCert \in Nat /\ CertIds \subseteq Nat
  <2>1. TypeOK /\ TypeOK' /\ FreshCerts /\ RotatorInv(s)
    BY DEF TypeInv, RotationInv
  <2> QED
    BY <2>1, EdgeAssumption DEF TypeOK, CertIds
<1>1. CASE Post(s) \/ Issue(s)
  <2>1. PICK r \in {[of |-> rot[s].m, files |-> FALSE], [of |-> "acme", files |-> TRUE]} :
          /\ nextCert \in CertIds /\ nextCert' = nextCert + 1
          /\ certs' = [certs EXCEPT ![nextCert] = r]
          /\ \/ pc[s] = "post" /\ r.of = rot[s].m
             \/ pc[s] = "issue" /\ r.of = "acme"
    BY <1>1 DEF Post, Issue
  <2>2. certs[nextCert] = None
    BY <1>0, <2>1 DEF FreshCerts
  <2>3. \A c \in CertIds \ {nextCert} : certs'[c] = certs[c]
    BY <1>0, <2>1 DEF TypeOK
  <2>4. certs'[nextCert] = r
    BY <1>0, <2>1 DEF TypeOK
  <2>5. \A c \in CertIds : Complete(c) => Complete(c)'
    BY <1>0, <2>1, <2>2, <2>3 DEF Complete, Live, TypeOK
  <2>6. nextCert' >= nextCert
    BY <1>0, <2>1
  <2> QED
    BY <2>1, <2>3, <2>4, <2>5, <2>6
<1>2. CASE Upload(s)
  <2>1. /\ rot[s].new \in Live(certs) /\ nextCert' = nextCert
        /\ certs' = [certs EXCEPT ![rot[s].new].files = TRUE]
    BY <1>2 DEF Upload
  <2>2. rot[s].new \in CertIds /\ certs[rot[s].new] \in Certificate
    BY <1>0, <2>1 DEF Live, TypeOK
  <2>3. /\ certs'[rot[s].new] = [of |-> certs[rot[s].new].of, files |-> TRUE]
        /\ \A c \in CertIds \ {rot[s].new} : certs'[c] = certs[c]
    BY <1>0, <2>1, <2>2 DEF TypeOK, Certificate
  <2>4. certs'[rot[s].new] # None
    BY <2>2, <2>3, EdgeAssumption DEF Certificate
  <2>5. ASSUME NEW c \in CertIds, Complete(c) PROVE Complete(c)'
    <3>1. CASE c = rot[s].new
      BY <1>0, <2>3, <2>4, <3>1 DEF Complete, Live, TypeOK
    <3>2. CASE c # rot[s].new
      BY <1>0, <2>3, <2>5, <3>2 DEF Complete, Live, TypeOK
    <3> QED
      BY <3>1, <3>2
  <2>6. ASSUME NEW c \in CertIds, certs'[c] # None
        PROVE  certs[c] # None /\ certs'[c].of = certs[c].of /\ (certs[c].files => certs'[c].files)
    <3>1. CASE c = rot[s].new
      BY <2>1, <2>3, <3>1 DEF Live
    <3>2. CASE c # rot[s].new
      BY <2>3, <2>6, <3>2
    <3> QED
      BY <3>1, <3>2
  <2>7. nextCert' >= nextCert
    BY <1>0, <2>1
  <2> QED
    BY <2>5, <2>6, <2>7
<1>3. CASE Discard(s) \/ Drop(s)
  <2>1. PICK v \in {rot[s].new, rot[s].victim} :
          /\ ~Complete(v) \/ Users(v) = {}
          /\ \A c \in CertIds : certs'[c] = IF c = v THEN None ELSE certs[c]
          /\ nextCert' = nextCert
    BY <1>0, <1>3 DEF Discard, Drop, RotatorInv, TypeOK
  <2>2. \A c \in CertIds : Complete(c) /\ Users(c) # {} => Complete(c)'
    BY <1>0, <2>1 DEF Complete, Live, TypeOK
  <2>3. nextCert' >= nextCert
    BY <1>0, <2>1
  <2> QED
    BY <2>1, <2>2, <2>3
<1>4. CASE ~(Post(s) \/ Issue(s) \/ Upload(s) \/ Discard(s) \/ Drop(s))
  <2>1. UNCHANGED <<certs, nextCert>>
    BY <1>4 DEF Install, BeginInstall, Check, Settled, Supersede, UploadRefused, Repoint, Repointed,
                Move, MoveRefused, Moved, Sweep, Swept, Previous, Obtain, Rollback
  <2>2. \A c \in CertIds : Complete(c) => Complete(c)'
    BY <2>1 DEF Complete, Live
  <2>3. nextCert' >= nextCert
    BY <1>0, <2>1
  <2> QED
    BY <2>1, <2>2, <2>3
<1> QED
  BY <1>1, <1>2, <1>3, <1>4

(* What it does to the hosts: a host that moves, moves to a complete one.   *)
LEMMA InstallHosts ==
    ASSUME TypeInv, TypeInv', RotationInv, NEW s \in Sessions, Install(s)
    PROVE  /\ nextHost' = nextHost
           /\ \A h \in HostIds :
                 \/ proxies'[h] = proxies[h]
                 \/ /\ proxies[h] # None /\ proxies'[h] # None
                    /\ proxies'[h].domain = proxies[h].domain
                    /\ proxies'[h].cert \in CertIds /\ Complete(rot[s].new)
                    /\ proxies'[h].cert = rot[s].new /\ certs' = certs
<1> USE DEF Goto, db, npm, local
<1>0. TypeOK /\ RotatorInv(s)
  BY DEF TypeInv, RotationInv
<1>1. CASE Move(s)
  <2>1. PICK h \in Live(proxies) : proxies' = [proxies EXCEPT ![h].cert = rot[s].new]
    BY <1>1 DEF Move
  <2>2. certs' = certs /\ Complete(rot[s].new) /\ nextHost' = nextHost
    BY <1>0, <1>1 DEF Move, RotatorInv, Switching
  <2>3. h \in HostIds /\ proxies[h] \in Proxy /\ proxies[h] # None
    BY <1>0, <2>1 DEF Live, TypeOK
  <2>4. /\ proxies'[h] = [domain |-> proxies[h].domain, cert |-> rot[s].new]
        /\ \A k \in HostIds \ {h} : proxies'[k] = proxies[k]
    BY <1>0, <2>1, <2>3 DEF TypeOK, Proxy
  <2>5. rot[s].new \in CertIds
    BY <1>0, <2>2 DEF Complete, Live, TypeOK
  <2>6. proxies'[h] # None
    <3>1. proxies[h].domain \in Domains
      BY <2>3 DEF Proxy
    <3> QED
      BY <2>4, <2>5, <3>1, EdgeAssumption
  <2> QED
    BY <2>2, <2>3, <2>4, <2>5, <2>6
<1>2. CASE ~Move(s)
  BY <1>2 DEF Install, BeginInstall, Check, Settled, Supersede, Post, Upload, UploadRefused,
              Discard, Repoint, Repointed, MoveRefused, Moved, Sweep, Drop, Swept, Previous,
              Obtain, Issue, Rollback
<1> QED
  BY <1>1, <1>2

(* No step of an installation takes a certificate from a host.             *)
LEMMA InstallKeepsServing ==
    ASSUME TypeInv, TypeInv', RotationInv, NEW s \in Sessions, Install(s)
    PROVE  Served \subseteq Served'
<1>0. TypeOK /\ TypeOK'
  BY DEF TypeInv
<1>1. SUFFICES ASSUME NEW h \in Live(proxies), Servable(h)
               PROVE  h \in Served'
  BY DEF Served
<1>2. h \in HostIds /\ proxies[h] # None
  BY <1>0, <1>1 DEF Live, TypeOK
<1>3. CASE proxies'[h] = proxies[h]
  <2>1. h \in Live(proxies)'
    BY <1>0, <1>2, <1>3 DEF Live, TypeOK
  <2>2. CASE proxies[h].cert = None
    BY <1>3, <2>1, <2>2 DEF Served, Servable
  <2>3. CASE proxies[h].cert # None
    <3>1. /\ Complete(proxies[h].cert) /\ proxies[h].cert \in CertIds
          /\ h \in Users(proxies[h].cert)
      BY <1>0, <1>1, <2>3 DEF Servable, Complete, Live, TypeOK, Users
    <3>2. ASSUME NEW c \in CertIds, c = proxies[h].cert PROVE Complete(c)'
      BY <3>1, <3>2, InstallCertificates
    <3>3. PICK c \in CertIds : c = proxies[h].cert /\ c = proxies'[h].cert /\ Complete(c)'
      BY <1>3, <3>1, <3>2
    <3> QED
      BY <2>1, <3>3 DEF Served, Servable, Complete
  <2> QED
    BY <2>2, <2>3
<1>4. CASE proxies'[h] # proxies[h]
  <2>1. /\ proxies'[h] # None /\ proxies'[h].cert = rot[s].new /\ Complete(rot[s].new)
        /\ certs' = certs
    BY <1>2, <1>4, InstallHosts
  <2>2. h \in Live(proxies)'
    BY <1>0, <1>2, <2>1 DEF Live, TypeOK
  <2> QED
    BY <2>1, <2>2 DEF Served, Servable, Complete, Live
<1> QED
  BY <1>3, <1>4

(* A host that is pushed, put back or deleted is the only one to lose its *)
(* certificate.                                                           *)
LEMMA OthersKeepServing ==
    ASSUME TypeInv, NEW s \in Sessions, Push(s) \/ Finish(s)
    PROVE  \/ UNCHANGED <<certs, proxies>>
           \/ pc[s] \in {"write", "undo", "erase"} /\ pc'[s] # pc[s]
<1> USE DEF Goto, db, npm, local
<1>0. TypeOK
  BY DEF TypeInv
<1>1. CASE Put(s) \/ Create(s) \/ Erase(s)
  BY <1>0, <1>1 DEF Put, Create, Erase, TypeOK
<1>2. CASE Undo(s)
  <2>1. CASE End(s, FALSE)
    BY <1>2, <2>1, EndElsewhere DEF Undo
  <2>2. CASE ~End(s, FALSE)
    BY <1>0, <1>2, <2>2 DEF Undo, PushFails, TypeOK
  <2> QED
    BY <2>1, <2>2
<1>3. CASE Push(s) /\ ~(Put(s) \/ Create(s) \/ Erase(s) \/ Undo(s))
  BY <1>3 DEF Push, BeginHost, BeginResync, Attach, NextHost, LastHost, Insert, Flush,
              Unchanged, Remove, Find, Lookup, WriteRefused, Accept, Reject, Book, Rollback
<1>4. CASE Finish(s)
  BY <1>4 DEF Finish, Commit, Done, Rejected, RequestFails, Refused, Rollback
<1> QED
  BY <1>1, <1>2, <1>3, <1>4

(* As long as commands follow one another and NPM keeps its data, no step *)
(* of an installation makes a host unservable, whatever fails in it: the  *)
(* upload, a move, the sweep, the process.                                *)
THEOREM RotationNeverDarkens ==
    ASSUME ~Overlap, "reset" \notin Faults
    PROVE  Spec => RotationKeepsServing
<1>1. ASSUME TypeInv, TypeInv', RotationInv, [Next]_vars
      PROVE  [Served \subseteq Served'
              \/ \E s \in Sessions : pc[s] \in {"write", "undo", "erase"} /\ pc'[s] # pc[s]]_vars
  <2>0. ASSUME certs' = certs, proxies' = proxies PROVE Served \subseteq Served'
    BY <2>0 DEF Served, Servable, Complete, Live
  <2>1. ASSUME NEW s \in Sessions, Install(s) PROVE Served \subseteq Served'
    BY <1>1, <2>1, InstallKeepsServing
  <2>2. ASSUME NEW s \in Sessions, Push(s) \/ Finish(s)
        PROVE  \/ Served \subseteq Served'
               \/ pc[s] \in {"write", "undo", "erase"} /\ pc'[s] # pc[s]
    <3>1. \/ UNCHANGED <<certs, proxies>>
          \/ pc[s] \in {"write", "undo", "erase"} /\ pc'[s] # pc[s]
      BY <1>1, <2>2, OthersKeepServing
    <3>2. CASE UNCHANGED <<certs, proxies>>
      BY <2>0, <3>2
    <3> QED
      BY <3>1, <3>2
  <2>3. ASSUME NEW S \in SUBSET Sessions, Kill(S) PROVE Served \subseteq Served'
    BY <2>0, <2>3 DEF Kill, npm
  <2> QED
    BY <1>1, <2>1, <2>2, <2>3 DEF Next, Sessions, Reset
<1> QED
  BY <1>1, TypesHold, RotationHolds, PTL DEF Spec, RotationKeepsServing

-----------------------------------------------------------------------------
(* `edgekit provision` converges: what the table, the record and NPM say of *)
(* each other between and during the commands.                              *)

(* What a push does to the hosts of NPM: it writes the one it has looked up *)
(* or creates one, puts one back, deletes one.                              *)
LEMMA PushHosts ==
    ASSUME TypeInv, NEW s \in Sessions, SeenInv(s), Push(s)
    PROVE  \A h \in HostIds : proxies'[h] # None =>
              \/ /\ proxies[h] # None /\ proxies'[h].domain = proxies[h].domain
                 /\ proxies'[h].cert = proxies[h].cert
              \/ /\ pc[s] = "write" /\ proxies'[h].domain = push[s].d
                 /\ proxies'[h].cert = record.id
                 /\ \/ proxies[h] # None /\ proxies[h].domain = push[s].d
                    \/ ProxyOf(push[s].d) = {} /\ \A k \in HostIds \ {h} : proxies'[k] = proxies[k]
              \/ /\ pc[s] = "undo" /\ h = push[s].before
                 /\ proxies[h] # None /\ proxies'[h].domain = proxies[h].domain
                 /\ proxies'[h].cert = push[s].snapshot
<1> USE DEF Goto, db, npm, local
<1>0. TypeOK
  BY DEF TypeInv
<1>1. CASE Put(s)
  <2>1. /\ pc[s] = "write" /\ push[s].target \in Live(proxies)
        /\ proxies' = [proxies EXCEPT ![push[s].target].cert = push[s].cert]
    BY <1>1 DEF Put
  <2>2. /\ push[s].cert = record.id /\ push[s].target \in HostIds
        /\ proxies[push[s].target].domain = push[s].d /\ proxies[push[s].target] \in Proxy
        /\ proxies[push[s].target] # None
    BY <1>0, <2>1, EdgeAssumption DEF SeenInv, Seen, ProxyOf, Live, TypeOK
  <2>3. /\ proxies'[push[s].target].domain = push[s].d
        /\ proxies'[push[s].target].cert = record.id
        /\ \A h \in HostIds \ {push[s].target} : proxies'[h] = proxies[h]
    BY <1>0, <2>1, <2>2 DEF TypeOK, Proxy
  <2> QED
    BY <2>1, <2>2, <2>3
<1>2. CASE Create(s)
  <2>1. /\ pc[s] = "write" /\ ProxyOf(push[s].d) = {} /\ nextHost \in HostIds
        /\ proxies' = [proxies EXCEPT ![nextHost] = [domain |-> push[s].d, cert |-> push[s].cert]]
        /\ push[s].cert = record.id
    BY <1>2 DEF Create, SeenInv, Seen
  <2>2. /\ proxies'[nextHost] = [domain |-> push[s].d, cert |-> record.id]
        /\ \A h \in HostIds \ {nextHost} : proxies'[h] = proxies[h]
    BY <1>0, <2>1 DEF TypeOK
  <2> QED
    BY <2>1, <2>2
<1>3. CASE Undo(s)
  <2>1. pc[s] = "undo"
    BY <1>3 DEF Undo
  <2>2. \A h \in HostIds : proxies'[h] # None =>
           \/ proxies'[h] = proxies[h]
           \/ /\ h = push[s].before /\ proxies[h] # None
              /\ proxies'[h] = [proxies[h] EXCEPT !.cert = push[s].snapshot]
    BY <1>3 DEF Undo
  <2>3. \A h \in HostIds : proxies[h] # None => proxies[h] \in Proxy
    BY <1>0 DEF TypeOK
  <2> QED
    BY <2>1, <2>2, <2>3 DEF Proxy
<1>4. CASE Erase(s)
  BY <1>0, <1>4 DEF Erase, TypeOK
<1>5. CASE ~(Put(s) \/ Create(s) \/ Undo(s) \/ Erase(s))
  <2>1. proxies' = proxies
    BY <1>5 DEF Push, BeginHost, BeginResync, Attach, NextHost, LastHost, Insert, Flush,
                Unchanged, Remove, Find, Lookup, WriteRefused, Accept, Reject, Book, Rollback
  <2> QED
    BY <2>1
<1> QED
  BY <1>1, <1>2, <1>3, <1>4, <1>5

\* NPM has one host for a domain.
OneHost == \A h, k \in HostIds :
    proxies[h] # None /\ proxies[k] # None /\ proxies[h].domain = proxies[k].domain => h = k

LEMMA OneHostNext ==
    ASSUME ~Overlap, "reset" \notin Faults, TypeInv, TypeInv', Serial, PushesInv, RotationInv,
           OneHost, [Next]_vars
    PROVE  OneHost'
<1>0. TypeOK /\ \A s \in Sessions : SeenInv(s)
  BY DEF TypeInv, PushesInv, PusherInv
<1>a. ASSUME \A h \in HostIds : proxies'[h] # None =>
                 proxies[h] # None /\ proxies'[h].domain = proxies[h].domain
      PROVE  OneHost'
  BY <1>a DEF OneHost
<1>1. ASSUME NEW s \in Sessions, Install(s) PROVE OneHost'
  BY <1>1, <1>a, InstallHosts
<1>2. ASSUME NEW s \in Sessions, Push(s) PROVE OneHost'
  <2>1. ASSUME NEW h \in HostIds, NEW k \in HostIds, proxies'[h] # None, proxies'[k] # None,
               proxies'[h].domain = proxies'[k].domain, h # k
        PROVE  FALSE
    <3>1. CASE /\ proxies[h] # None /\ proxies'[h].domain = proxies[h].domain
               /\ proxies[k] # None /\ proxies'[k].domain = proxies[k].domain
      BY <2>1, <3>1 DEF OneHost
    <3>2. CASE ~(proxies[h] # None /\ proxies'[h].domain = proxies[h].domain)
      <4>1. /\ proxies'[h].domain = push[s].d /\ ProxyOf(push[s].d) = {}
            /\ proxies'[k] = proxies[k]
        BY <1>0, <1>2, <2>1, <3>2, PushHosts
      <4> QED
        BY <1>0, <2>1, <4>1 DEF ProxyOf, Live, TypeOK
    <3>3. CASE ~(proxies[k] # None /\ proxies'[k].domain = proxies[k].domain)
      <4>1. /\ proxies'[k].domain = push[s].d /\ ProxyOf(push[s].d) = {}
            /\ proxies'[h] = proxies[h]
        BY <1>0, <1>2, <2>1, <3>3, PushHosts
      <4> QED
        BY <1>0, <2>1, <4>1 DEF ProxyOf, Live, TypeOK
    <3> QED
      BY <3>1, <3>2, <3>3
  <2> QED
    BY <2>1 DEF OneHost
<1>3. ASSUME NEW s \in Sessions, Finish(s) PROVE OneHost'
  <2>1. proxies' = proxies
    BY <1>3 DEF Finish, Commit, Done, Rejected, RequestFails, Refused, Rollback, npm
  <2> QED
    BY <1>a, <2>1
<1>4. ASSUME NEW S \in SUBSET Sessions, Kill(S) PROVE OneHost'
  BY <1>4 DEF Kill, npm, OneHost
<1>5. CASE UNCHANGED vars
  BY <1>5 DEF vars, npm, OneHost
<1> QED
  BY <1>1, <1>2, <1>3, <1>4, <1>5 DEF Next, Sessions, Reset

\* The certificates are of what the configuration asks for.
OfSource == \A c \in CertIds : certs[c] # None => certs[c].of \in Sources

\* A host names a complete certificate, or the recorded one, even when it is gone.
Dangling == \A h \in HostIds : proxies[h] # None =>
    proxies[h].cert \in {None, record.id} \/ Complete(proxies[h].cert)

\* The recorded certificate is complete, or gone.
Recorded ==
    record.id # None =>
        record.id < nextCert /\ (certs[record.id] # None => certs[record.id].files)

\* A row that names a certificate belongs to a host that has one.
Bare(r) == r \in {None, Same} \/ r.cert = None

BareRows(d) == Bare(hosts[d]) /\ \A t \in Sessions : Bare(mine[t][d])

Dressed(d) == record.id # None /\ \A h \in ProxyOf(d) : proxies[h].cert # None

Rows == \A d \in Domains : BareRows(d) \/ Dressed(d)

\* An installation moves the users of the recorded certificate before it
\* records its own.
SwitchInv(s) ==
    /\ ~NotInstalling(s) => rot[s].m \in Sources
    /\ pc[s] \in {"obtain", "issue"} => rot[s].m = "acme"
    /\ pc[s] \in Rotating => rot[s].prev = record.id
    /\ pc[s] = "settled" => record.id \in Live(certs)
    /\ pc[s] = "move" /\ rot[s].then = "commit" =>
          rot[s].new # record.id /\ (~job[s].failed => Users(record.id) \subseteq rot[s].users)
    /\ pc[s] = "commit" /\ job[s].op \in InstallOps =>
          record.id \in {None, rot[s].new} \/ Users(record.id) = {}

\* What a push puts back was good enough before it.
UndoInv(s) ==
    pc[s] \in {"lookup", "write", "verify", "undo"} /\ push[s].before # None =>
        /\ push[s].snapshot = None => BareRows(push[s].d)
        /\ push[s].snapshot \in {None, record.id} \/ Complete(push[s].snapshot)

\* The attach step leaves no row behind that names another certificate.
Attached(s) == \A d \in Domains \ Left(s) : Draft(s)[d] # None => Draft(s)[d].cert = record.id

AttachInv(s) ==
    pc[s] # "idle" /\ job[s].op = "attach" =>
        /\ rot[s].m \in Sources
        /\ job[s].ok => Complete(record.id)
        /\ pc[s] = "attach" => \A d \in Domains : mine[s][d] = Same
        /\ pc[s] \in InPush \cup {"next", "commit"} =>
              record.id # None /\ (~job[s].failed => Attached(s))
        /\ pc[s] = "commit" => ~job[s].failed
        /\ pc[s] = "done" /\ job[s].ok => \A d \in Domains : hosts[d] # None => Dressed(d)

ProvisionerInv(s) == SwitchInv(s) /\ UndoInv(s) /\ AttachInv(s)

ProvisionInv ==
    /\ OneHost /\ OfSource /\ Dangling /\ Recorded /\ Rows
    /\ \A s \in Sessions : ProvisionerInv(s)

LEMMA IdleProvisioner ==
    ASSUME NEW s \in Sessions, pc[s] = "idle"
    PROVE  ProvisionerInv(s)
  BY DEF ProvisionerInv, SwitchInv, UndoInv, AttachInv, NotInstalling, Rotating

LEMMA IdleProvisionerNext ==
    ASSUME NEW s \in Sessions, pc'[s] = "idle"
    PROVE  ProvisionerInv(s)'
  BY DEF ProvisionerInv, SwitchInv, UndoInv, AttachInv, NotInstalling, Rotating

LEMMA ProvisionerAlone ==
    ASSUME NEW s \in Sessions, Alone(s), OneHost', OfSource', Dangling', Recorded', Rows',
           ProvisionerInv(s)'
    PROVE  ProvisionInv'
<1>1. ASSUME NEW t \in Sessions \ {s} PROVE ProvisionerInv(t)'
  BY IdleProvisionerNext DEF Alone
<1>2. \A t \in Sessions \ {s} : ProvisionerInv(t)'
  BY <1>1
<1> QED
  BY <1>2 DEF ProvisionInv

(* A session that provisions knows what the configuration asks for.         *)
LEMMA Material ==
    ASSUME TypeInv, NEW s \in Sessions, OpInv(s), ProvisionerInv(s), pc[s] # "idle",
           job[s].op \in {"provision", "attach"}
    PROVE  rot[s].m \in Sources
<1>1. pc[s] \in Labels
  BY DEF TypeInv, TypeOK
<1>2. CASE job[s].op = "attach"
  BY <1>2 DEF ProvisionerInv, AttachInv
<1>3. CASE job[s].op = "provision"
  <2>1. ~NotInstalling(s)
    BY <1>1, <1>3, LabelSet DEF OpInv, NotInstalling, Rotating, InPush, PushingOps, InstallOps
  <2> QED
    BY <2>1 DEF ProvisionerInv, SwitchInv
<1> QED
  BY <1>2, <1>3

(* What is left of the certificates and the record when a session ends.     *)
LEMMA EndProvisions ==
    ASSUME TypeInv, NEW s \in Sessions, NEW good \in BOOLEAN, End(s, good),
           job[s].op \in {"provision", "attach"} => rot[s].m \in Sources,
           good /\ job[s].op = "provision" => Complete(record.id)',
           good /\ job[s].op = "attach" /\ job[s].ok =>
              Complete(record.id)' /\ \A d \in Domains : hosts'[d] # None => Dressed(d)'
    PROVE  ProvisionerInv(s)'
<1>0. TypeOK
  BY DEF TypeInv
<1>1. CASE job[s].op = "provision"
  <2>1. /\ pc'[s] = "attach" /\ job'[s].op = "attach" /\ job'[s].ok = good
        /\ rot'[s].m = rot[s].m
    BY <1>0, <1>1 DEF End, Goto, TypeOK, NoRotation
  <2>2. \A d \in Domains : mine'[s][d] = Same
    BY <1>0 DEF End, Close, TypeOK
  <2> QED
    BY <1>1, <2>1, <2>2 DEF ProvisionerInv, SwitchInv, UndoInv, AttachInv, NotInstalling, Rotating,
                           InPush
<1>2. CASE job[s].op = "attach"
  <2>1. pc'[s] = "done" /\ rot'[s].m = rot[s].m
    BY <1>0, <1>2 DEF End, Goto, TypeOK
  <2>2. job'[s].ok => good /\ job[s].ok
    <3>1. job' = [job EXCEPT ![s].ok = job[s].ok /\ good]
      BY <1>2 DEF End
    <3>2. s \in DOMAIN job /\ "ok" \in DOMAIN job[s]
      BY <1>0 DEF TypeOK, Job
    <3> QED
      BY <3>1, <3>2, Zenon
  <2> QED
    BY <1>2, <2>1, <2>2 DEF ProvisionerInv, SwitchInv, UndoInv, AttachInv, NotInstalling, Rotating,
                           InPush
<1>3. CASE job[s].op \notin {"provision", "attach"}
  <2>1. pc'[s] = "idle"
    BY <1>0, <1>3 DEF End, Goto, TypeOK
  <2> QED
    BY <2>1, IdleProvisionerNext
<1> QED
  BY <1>1, <1>2, <1>3

(* What a step must leave alone for the rows to stay in order, ...          *)
LEMMA RowsKept ==
    ASSUME TypeOK, TypeOK', Rows, hosts' = hosts, record' = record,
           \A t \in Sessions, d \in Domains :
              mine'[t][d] \in {mine[t][d], hosts[d]} \/ Bare(mine'[t][d]),
           \A h \in HostIds : proxies'[h] # None =>
              \/ record.id = None
              \/ proxies'[h].cert # None
              \/ BareRows(proxies'[h].domain)
              \/ /\ proxies[h] # None /\ proxies'[h].domain = proxies[h].domain
                 /\ proxies[h].cert = None
    PROVE  Rows'
<1>1. SUFFICES ASSUME NEW d \in Domains PROVE BareRows(d)' \/ Dressed(d)'
  BY DEF Rows
<1>2. CASE BareRows(d)
  BY <1>2 DEF BareRows, Bare
<1>3. CASE ~BareRows(d)
  <2>1. Dressed(d)
    BY <1>3 DEF Rows
  <2>2. ASSUME NEW h \in ProxyOf(d)' PROVE proxies'[h].cert # None
    <3>1. h \in HostIds /\ proxies'[h] # None /\ proxies'[h].domain = d
      BY DEF ProxyOf, Live, TypeOK
    <3>2. ~(proxies[h] # None /\ proxies'[h].domain = proxies[h].domain /\ proxies[h].cert = None)
      BY <2>1, <3>1 DEF Dressed, ProxyOf, Live, TypeOK
    <3> QED
      BY <1>3, <2>1, <3>1, <3>2 DEF Dressed
  <2> QED
    BY <2>1, <2>2 DEF Dressed
<1> QED
  BY <1>2, <1>3

(* ... for the hosts to keep a certificate, ...                            *)
LEMMA DanglingKept ==
    ASSUME TypeOK, TypeOK', Dangling, record' = record,
           \A c \in CertIds : Complete(c) /\ Users(c) # {} => Complete(c)',
           \A h \in HostIds : proxies'[h] # None =>
              \/ proxies'[h].cert \in {None, record.id}
              \/ \E c \in CertIds : proxies'[h].cert = c /\ Complete(c)'
              \/ proxies[h] # None /\ proxies'[h].cert = proxies[h].cert
    PROVE  Dangling'
<1>1. SUFFICES ASSUME NEW h \in HostIds, proxies'[h] # None
               PROVE  proxies'[h].cert \in {None, record.id} \/ Complete(proxies[h].cert)'
  BY DEF Dangling
<1>2. CASE \E c \in CertIds : proxies'[h].cert = c /\ Complete(c)'
  BY <1>2 DEF Complete
<1>3. CASE proxies[h] # None /\ proxies'[h].cert = proxies[h].cert
  <2>1. proxies[h].cert \in {None, record.id} \/ Complete(proxies[h].cert)
    BY <1>3 DEF Dangling
  <2>2. CASE Complete(proxies[h].cert)
    <3>1. PICK c \in CertIds : c = proxies[h].cert /\ Complete(c) /\ h \in Users(c)
      BY <1>3, <2>2 DEF Complete, Live, TypeOK, Users
    <3>2. Complete(c)'
      BY <3>1
    <3> QED
      BY <1>3, <3>1, <3>2 DEF Complete
  <2> QED
    BY <1>3, <2>1, <2>2
<1> QED
  BY <1>1, <1>2, <1>3

(* ... and for the recorded certificate to be one.                         *)
LEMMA RecordedKept ==
    ASSUME TypeOK, TypeOK', Recorded, record' = record, nextCert' >= nextCert,
           \A c \in CertIds : certs'[c] # None =>
              \/ c = nextCert
              \/ certs[c] # None /\ (certs[c].files => certs'[c].files)
    PROVE  Recorded'
<1>1. SUFFICES ASSUME record.id # None
               PROVE  /\ record.id < nextCert'
                      /\ certs'[record.id] # None => certs'[record.id].files
  BY DEF Recorded
<1>2. record.id \in CertIds /\ CertIds \subseteq Nat /\ nextCert \in Nat /\ nextCert' \in Nat
  BY <1>1, EdgeAssumption DEF TypeOK, CertIds
<1>3. record.id < nextCert /\ (certs[record.id] # None => certs[record.id].files)
  BY <1>1 DEF Recorded
<1>4. record.id # nextCert /\ record.id < nextCert'
  <2>1. \A i, n, k \in Nat : i < n /\ k >= n => i # n /\ i < k
    OBVIOUS
  <2>2. record.id \in Nat
    BY <1>2
  <2> QED
    BY <1>2, <1>3, <2>1, <2>2, Zenon
<1>5. certs'[record.id] # None => certs'[record.id].files
  BY <1>2, <1>3, <1>4
<1> QED
  BY <1>4, <1>5

(* The steps that install a certificate keep the tables.                   *)
LEMMA InstallTables ==
    ASSUME TypeInv, NEW s \in Sessions, Install(s)
    PROVE  /\ hosts' = hosts /\ record' = record
           /\ \A t \in Sessions, d \in Domains : mine'[t][d] \in {mine[t][d], Same}
<1>1. hosts' = hosts /\ record' = record
  BY DEF Install, BeginInstall, Check, Settled, Supersede, Post, Upload, UploadRefused, Discard,
         Repoint, Repointed, Move, MoveRefused, Moved, Sweep, Drop, Swept, Previous, Obtain, Issue,
         Rollback, db
<1>2. mine' = mine \/ \E good : End(s, good)
  BY DEF Install, BeginInstall, Check, Settled, Supersede, Post, Upload, UploadRefused, Discard,
         Repoint, Repointed, Move, MoveRefused, Moved, Sweep, Drop, Swept, Previous, Obtain, Issue,
         Rollback, local
<1> QED
  BY <1>1, <1>2 DEF End, Close, TypeInv, TypeOK

(* The steps that install a certificate: from the record that it replaces *)
(* all hosts have moved away by the time it commits.                      *)
LEMMA InstallSwitches ==
    ASSUME TypeInv, ProvisionInv, "issued" \notin Sources, NEW s \in Sessions, OpInv(s), Install(s)
    PROVE  \/ /\ pc[s] \in Rotating \cup {"settled"}
              /\ \E good \in BOOLEAN : End(s, good) /\ (good => Complete(record.id)')
           \/ SwitchInv(s)' /\ pc'[s] \in Rotating \cup {"settled", "commit"}
<1> USE DEF Goto, db, npm, local
<1>0. /\ TypeOK /\ SessionInv(s) /\ SwitchInv(s) /\ rot[s] \in Rotation
      /\ Recorded
  BY DEF TypeInv, TypeOK, ProvisionInv, ProvisionerInv
<1>a. ASSUME pc[s] \in Rotating, pc'[s] \in Rotating \ {"obtain", "issue", "move"},
             rot'[s].m = rot[s].m, rot'[s].prev = rot[s].prev, record' = record
      PROVE  SwitchInv(s)'
  <2>1. rot[s].m \in Sources /\ rot[s].prev = record.id
    BY <1>0, <1>a DEF SwitchInv, NotInstalling
  <2> QED
    BY <1>a, <2>1 DEF SwitchInv, NotInstalling, Rotating
<1>1. CASE BeginInstall(s)
  <2>1. PICK m \in Sources, op \in {"install", "provision"}, force \in BOOLEAN,
             l \in {"issue", "obtain", "check", "settled", "supersede"} :
          /\ rot' = [rot EXCEPT ![s] = [NoRotation EXCEPT !.m = m, !.prev = record.id,
                                                          !.of = record.of]]
          /\ Goto(s, l)
          /\ l = "issue" \/ l = "obtain" => m = "acme"
          /\ l = "settled" => m = "issued"
          /\ UNCHANGED <<db, npm, push, mine>>
    BY <1>1 DEF BeginInstall, Supplied
  <2>2. rot'[s].m = m /\ rot'[s].prev = record.id /\ pc'[s] = l
    BY <1>0, <2>1 DEF TypeOK, NoRotation
  <2>3. l # "settled"
    BY <2>1
  <2> QED
    BY <2>1, <2>2, <2>3 DEF SwitchInv, NotInstalling, Rotating
<1>2. CASE Check(s)
  <2>1. /\ pc[s] = "check" /\ rot' = rot /\ UNCHANGED <<record, certs>>
        /\ \/ pc'[s] = "settled" /\ rot[s].prev \in Live(certs)
           \/ pc'[s] = "supersede"
    BY <1>0, <1>2 DEF Check, TypeOK
  <2>2. rot[s].m \in Sources /\ rot[s].prev = record.id
    BY <1>0, <2>1 DEF SwitchInv, NotInstalling, Rotating
  <2> QED
    BY <2>1, <2>2 DEF SwitchInv, NotInstalling, Rotating, Live
<1>3. CASE Settled(s)
  <2>1. Complete(record.id)'
    <3>1. pc[s] = "settled" /\ UNCHANGED <<record, certs>>
      BY <1>3 DEF Settled
    <3>2. record.id \in Live(certs) /\ record.id # None
      BY <1>0, <3>1, EdgeAssumption DEF SwitchInv, Live, TypeOK
    <3> QED
      BY <1>0, <3>1, <3>2 DEF Recorded, Complete, Live
  <2> QED
    BY <1>3, <2>1 DEF Settled
<1>4. CASE Discard(s)
  BY <1>4 DEF Discard, Rotating
<1>5. CASE \/ Supersede(s) \/ Post(s) \/ Upload(s) \/ UploadRefused(s) \/ Repointed(s) \/ Sweep(s)
           \/ Drop(s) \/ Swept(s)
  <2>1. /\ pc[s] \in Rotating /\ record' = record
        /\ pc'[s] \in {"post", "upload", "repoint", "discard", "sweep", "drop", "previous"}
    BY <1>0, <1>5 DEF Supersede, Post, Upload, UploadRefused, Repointed, Sweep, Drop, Swept,
                      TypeOK, Rotating
  <2>2. rot'[s].m = rot[s].m /\ rot'[s].prev = rot[s].prev
    <3>1. CASE Sweep(s)
      <4>1. PICK c : rot' = [rot EXCEPT ![s] = [@ EXCEPT !.old = rot[s].old \ {c}, !.victim = c]]
        BY <3>1 DEF Sweep
      <4> QED
        BY <1>0, <4>1 DEF TypeOK, Rotation
    <3>2. CASE ~Sweep(s)
      BY <1>0, <1>5, <3>2 DEF Supersede, Post, Upload, UploadRefused, Repointed, Drop, Swept,
                              TypeOK, Rotation
    <3> QED
      BY <3>1, <3>2
  <2> QED
    BY <1>a, <2>1, <2>2 DEF Rotating
<1>6. CASE Repoint(s)
  <2>1. PICK c \in rot[s].old :
          rot' = [rot EXCEPT ![s] = [@ EXCEPT !.old = rot[s].old \ {c}, !.users = Users(c),
                                              !.then = "repoint"]]
    BY <1>6 DEF Repoint
  <2>2. rot'[s].m = rot[s].m /\ rot'[s].prev = rot[s].prev /\ rot'[s].then = "repoint"
    BY <1>0, <2>1 DEF TypeOK, Rotation
  <2>3. pc[s] = "repoint" /\ pc'[s] = "move" /\ record' = record
    BY <1>0, <1>6 DEF Repoint, TypeOK
  <2>4. rot[s].m \in Sources /\ rot[s].prev = record.id
    BY <1>0, <2>3 DEF SwitchInv, NotInstalling, Rotating
  <2> QED
    BY <2>2, <2>3, <2>4 DEF SwitchInv, NotInstalling, Rotating
<1>7. CASE Move(s) \/ MoveRefused(s)
  <2>1. PICK h \in rot[s].users :
          /\ rot' = [rot EXCEPT ![s].users = @ \ {h}]
          /\ \/ /\ h \in Live(proxies) /\ job' = job
                /\ proxies' = [proxies EXCEPT ![h].cert = rot[s].new]
             \/ /\ job' = [job EXCEPT ![s].failed = TRUE]
                /\ proxies' = proxies
    BY <1>7 DEF Move, MoveRefused
  <2>2. /\ pc[s] = "move" /\ pc' = pc /\ record' = record
    BY <1>7 DEF Move, MoveRefused
  <2>3. /\ rot'[s].m = rot[s].m /\ rot'[s].prev = rot[s].prev /\ rot'[s].then = rot[s].then
        /\ rot'[s].new = rot[s].new /\ rot'[s].users = rot[s].users \ {h}
    BY <1>0, <2>1 DEF TypeOK, Rotation
  <2>4. /\ rot[s].m \in Sources /\ rot[s].prev = record.id
        /\ rot[s].then = "commit" =>
              rot[s].new # record.id /\ (~job[s].failed => Users(record.id) \subseteq rot[s].users)
    BY <1>0, <2>2 DEF SwitchInv, NotInstalling, Rotating
  <2>5. ASSUME rot[s].then = "commit", ~job'[s].failed
        PROVE  Users(record.id)' \subseteq rot[s].users \ {h}
    <3>1. /\ h \in Live(proxies) /\ job' = job
          /\ proxies' = [proxies EXCEPT ![h].cert = rot[s].new]
      BY <1>0, <2>1, <2>5 DEF TypeOK, Job
    <3>2. h \in HostIds /\ proxies[h] \in Proxy
      BY <1>0, <3>1 DEF Live, TypeOK
    <3>3. /\ proxies'[h].cert = rot[s].new
          /\ \A k \in HostIds \ {h} : proxies'[k] = proxies[k]
          /\ DOMAIN proxies' = HostIds /\ DOMAIN proxies = HostIds
      BY <1>0, <3>1, <3>2 DEF TypeOK, Proxy
    <3>4. Users(record.id)' \subseteq Users(record.id) \ {h}
      BY <2>2, <2>4, <2>5, <3>3 DEF Users, Live
    <3> QED
      BY <2>4, <2>5, <3>1, <3>4
  <2> QED
    BY <2>2, <2>3, <2>4, <2>5 DEF SwitchInv, NotInstalling, Rotating
<1>8. CASE Moved(s)
  <2>1. CASE Rollback(s)
    BY <1>8, <2>1 DEF Moved, Rollback, Rotating
  <2>2. CASE ~job[s].failed
    <3>1. /\ pc[s] = "move" /\ rot[s].users = {} /\ rot[s].then \in {"repoint", "commit"}
          /\ pc'[s] = rot[s].then /\ UNCHANGED <<record, rot, proxies, job>>
      BY <1>0, <1>8, <2>2 DEF Moved, SessionInv, Rotation, TypeOK
    <3>2. /\ rot[s].m \in Sources /\ rot[s].prev = record.id
          /\ rot[s].then = "commit" => Users(record.id) = {}
      BY <1>0, <2>2, <3>1 DEF SwitchInv, NotInstalling, Rotating
    <3> QED
      BY <3>1, <3>2 DEF SwitchInv, NotInstalling, Rotating, Users, Live
  <2> QED
    BY <1>8, <2>1, <2>2 DEF Moved
<1>9. CASE Previous(s)
  <2>1. pc[s] = "previous" /\ UNCHANGED <<record, proxies, job>>
    BY <1>9 DEF Previous
  <2>2. rot[s].m \in Sources /\ rot[s].prev = record.id
    BY <1>0, <2>1 DEF SwitchInv, NotInstalling, Rotating
  <2>3. CASE rot[s].prev \notin {None, rot[s].new}
    <3>0. /\ rot' = [rot EXCEPT ![s] = [@ EXCEPT !.users = Users(record.id), !.then = "commit"]]
          /\ Goto(s, "move")
      BY <1>9, <2>2, <2>3 DEF Previous
    <3>1. /\ rot'[s].m = rot[s].m /\ rot'[s].prev = rot[s].prev /\ rot'[s].new = rot[s].new
          /\ rot'[s].users = Users(record.id) /\ rot'[s].then = "commit" /\ pc'[s] = "move"
      BY <1>0, <3>0 DEF TypeOK, Rotation
    <3> QED
      BY <2>1, <2>2, <2>3, <3>1 DEF SwitchInv, NotInstalling, Rotating, Users, Live
  <2>4. CASE rot[s].prev \in {None, rot[s].new}
    <3>1. pc'[s] = "commit" /\ rot' = rot
      BY <1>0, <1>9, <2>4 DEF Previous, TypeOK
    <3> QED
      BY <2>1, <2>2, <2>4, <3>1 DEF SwitchInv, NotInstalling, Rotating
  <2> QED
    BY <2>3, <2>4
<1>10. CASE Obtain(s)
  <2>1. /\ pc[s] = "obtain" /\ pc'[s] \in {"previous", "issue"} /\ record' = record
        /\ rot'[s].m = rot[s].m /\ rot'[s].prev = rot[s].prev
    BY <1>0, <1>10 DEF Obtain, TypeOK, Rotation
  <2>2. rot[s].m \in Sources /\ rot[s].prev = record.id /\ rot[s].m = "acme"
    BY <1>0, <2>1 DEF SwitchInv, NotInstalling, Rotating
  <2> QED
    BY <2>1, <2>2 DEF SwitchInv, NotInstalling, Rotating
<1>11. CASE Issue(s)
  <2>1. CASE End(s, FALSE)
    BY <1>11, <2>1 DEF Issue, Rotating
  <2>2. CASE ~End(s, FALSE)
    <3>0. /\ pc[s] = "issue" /\ rot' = [rot EXCEPT ![s].new = nextCert] /\ record' = record
          /\ pc' = [pc EXCEPT ![s] = "previous"]
      BY <1>11, <2>2 DEF Issue
    <3>1. pc'[s] = "previous" /\ rot'[s].m = rot[s].m /\ rot'[s].prev = rot[s].prev
      BY <1>0, <3>0 DEF TypeOK, Rotation
    <3> QED
      BY <1>a, <3>0, <3>1 DEF Rotating
  <2> QED
    BY <2>1, <2>2
<1> QED
  BY <1>1, <1>2, <1>3, <1>4, <1>5, <1>6, <1>7, <1>8, <1>9, <1>10, <1>11 DEF Install

LEMMA InstallProvision ==
    ASSUME TypeInv, TypeInv', RotationInv, ProvisionInv, "issued" \notin Sources,
           NEW s \in Sessions, OpInv(s), Install(s)
    PROVE  OfSource' /\ Dangling' /\ Recorded' /\ Rows' /\ ProvisionerInv(s)'
<1>0. /\ TypeOK /\ TypeOK' /\ SwitchInv(s) /\ ProvisionerInv(s)
      /\ OfSource /\ Dangling /\ Recorded /\ Rows
  BY DEF TypeInv, ProvisionInv, ProvisionerInv
<1>1. OfSource'
  <2>1. ASSUME NEW c \in CertIds, certs'[c] # None PROVE certs'[c].of \in Sources
    <3>1. CASE certs[c] # None /\ certs'[c].of = certs[c].of
      BY <1>0, <3>1 DEF OfSource
    <3>2. CASE pc[s] = "post" /\ certs'[c].of = rot[s].m
      BY <1>0, <3>2 DEF SwitchInv, NotInstalling, Rotating
    <3>3. CASE pc[s] = "issue" /\ certs'[c].of = "acme"
      BY <1>0, <3>3 DEF SwitchInv, NotInstalling, Rotating
    <3> QED
      BY <2>1, <3>1, <3>2, <3>3, InstallCertificates
  <2> QED
    BY <2>1 DEF OfSource
<1>2. Dangling'
  <2>1. \A c \in CertIds : Complete(c) /\ Users(c) # {} => Complete(c)'
    BY InstallCertificates
  <2>2. ASSUME NEW h \in HostIds, proxies'[h] # None
        PROVE  \/ \E c \in CertIds : proxies'[h].cert = c /\ Complete(c)'
               \/ proxies[h] # None /\ proxies'[h].cert = proxies[h].cert
    <3>1. CASE proxies'[h] = proxies[h]
      BY <2>2, <3>1
    <3>2. CASE proxies'[h] # proxies[h]
      <4>1. /\ proxies'[h].cert \in CertIds /\ Complete(rot[s].new)
            /\ proxies'[h].cert = rot[s].new /\ certs' = certs
        BY <3>2, InstallHosts
      <4>2. PICK c \in CertIds : c = proxies'[h].cert /\ c = rot[s].new
        BY <4>1
      <4>3. Complete(c)'
        BY <4>1, <4>2 DEF Complete, Live
      <4> QED
        BY <4>2, <4>3
    <3> QED
      BY <3>1, <3>2
  <2> QED
    BY <1>0, <2>1, <2>2, InstallTables, DanglingKept
<1>3. Recorded'
  <2>1. \A c \in CertIds : certs'[c] # None =>
            \/ c = nextCert
            \/ certs[c] # None /\ (certs[c].files => certs'[c].files)
    BY InstallCertificates
  <2>2. nextCert' >= nextCert
    BY InstallCertificates
  <2> QED
    BY <1>0, <2>1, <2>2, InstallTables, RecordedKept
<1>4. Rows'
  <2>1. ASSUME NEW h \in HostIds, proxies'[h] # None
        PROVE  \/ proxies'[h].cert # None
               \/ /\ proxies[h] # None /\ proxies'[h].domain = proxies[h].domain
                  /\ proxies[h].cert = None
    BY <2>1, InstallHosts, EdgeAssumption
  <2>2. \A t \in Sessions, d \in Domains : mine'[t][d] = mine[t][d] \/ Bare(mine'[t][d])
    BY InstallTables DEF Bare
  <2> QED
    BY <1>0, <2>1, <2>2, InstallTables, RowsKept
<1>5. ProvisionerInv(s)'
  <2>1. CASE /\ pc[s] \in Rotating \cup {"settled"}
             /\ \E good \in BOOLEAN : End(s, good) /\ (good => Complete(record.id)')
    <3>1. PICK good \in BOOLEAN : End(s, good) /\ (good => Complete(record.id)')
      BY <2>1
    <3>2. pc[s] # "idle" /\ job[s].op # "attach"
      BY <2>1 DEF OpInv, InstallOps, Rotating
    <3>3. job[s].op \in {"provision", "attach"} => rot[s].m \in Sources
      BY <1>0, <3>2, Material
    <3> QED
      BY <3>1, <3>2, <3>3, EndProvisions
  <2>2. CASE SwitchInv(s)' /\ pc'[s] \in Rotating \cup {"settled", "commit"}
    <3>1. job'[s].op # "attach"
      BY <2>2, InstallLabels DEF NotPushing, InstallOps, Rotating
    <3> QED
      BY <2>2, <3>1 DEF ProvisionerInv, UndoInv, AttachInv, Rotating
  <2> QED
    BY <2>1, <2>2, InstallSwitches
<1> QED
  BY <1>1, <1>2, <1>3, <1>4, <1>5

(* A push that fails is undone, or remembered by the attach loop.          *)
LEMMA PushFailsProvisions ==
    ASSUME TypeInv, NEW s \in Sessions, OpInv(s), ProvisionerInv(s), pc[s] \in InPush,
           PushFails(s), certs' = certs
    PROVE  ProvisionerInv(s)'
<1>0. TypeOK /\ AttachInv(s)
  BY DEF TypeInv, ProvisionerInv
<1>1. CASE /\ job[s].op \in {"create", "update"}
           /\ Goto(s, "commit") /\ UNCHANGED <<writer, local>>
  BY <1>0, <1>1 DEF Goto, local, TypeOK, ProvisionerInv, SwitchInv, UndoInv, AttachInv,
                    NotInstalling, Rotating, InstallOps
<1>2. CASE End(s, FALSE)
  <2>1. job[s].op \in {"provision", "attach"} => rot[s].m \in Sources
    BY Material DEF InPush
  <2> QED
    BY <1>2, <2>1, EndProvisions
<1>3. CASE /\ job[s].op \in {"attach", "resync"}
           /\ Goto(s, "next") /\ job' = [job EXCEPT ![s].failed = TRUE]
           /\ UNCHANGED <<writer, rot, push, mine>>
  <2>1. /\ pc'[s] = "next" /\ job'[s].op = job[s].op /\ job'[s].failed /\ job'[s].ok = job[s].ok
        /\ rot' = rot /\ record' = record
    BY <1>0, <1>3 DEF PushFails, Goto, TypeOK, Job
  <2>2. Complete(record.id)' = Complete(record.id)
    BY <2>1 DEF Complete, Live
  <2>3. AttachInv(s)'
    BY <1>0, <2>1, <2>2 DEF AttachInv, InPush
  <2> QED
    BY <2>1, <2>3 DEF ProvisionerInv, SwitchInv, UndoInv, NotInstalling, Rotating
<1> QED
  BY <1>1, <1>2, <1>3 DEF PushFails

(* A session that does not install has no host to move.                    *)
LEMMA NotSwitching ==
    ASSUME NEW s \in Sessions, NotInstalling(s)'
    PROVE  SwitchInv(s)'
  BY DEF NotInstalling, SwitchInv, Rotating

LEMMA PushTables ==
    ASSUME NEW s \in Sessions, Push(s)
    PROVE  hosts' = hosts /\ record' = record
  BY DEF Push, BeginHost, BeginResync, Attach, NextHost, LastHost, Insert, Flush, Unchanged,
         Remove, Find, Lookup, Put, Create, WriteRefused, Accept, Reject, Undo, Book, Erase,
         Rollback, PushFails, db

(* What a push writes into the rows: nothing, what they held, or the     *)
(* recorded certificate that NPM has just accepted for the host.         *)
LEMMA PushRows ==
    ASSUME TypeInv, LoadInv, NEW s \in Sessions, SeenInv(s), Push(s)
    PROVE  \A t \in Sessions, d \in Domains :
              \/ mine'[t][d] \in {mine[t][d], hosts[d]} \/ Bare(mine'[t][d])
              \/ /\ pc[s] = "book" /\ t = s /\ d = push[s].d
                 /\ proxies' = proxies /\ mine'[t][d].cert = record.id
<1> USE DEF Goto, db, npm, local
<1>0. TypeOK
  BY DEF TypeInv
<1>1. CASE Insert(s)
  <2>1. PICK i \in RowIds :
           mine' = [mine EXCEPT ![s][push[s].d] = [id |-> i, npm |-> None, cert |-> None]]
    BY <1>1 DEF Insert
  <2>2. \A t \in Sessions, d \in Domains :
           \/ mine'[t][d] = mine[t][d]
           \/ mine'[t][d] = [id |-> i, npm |-> None, cert |-> None]
    BY <1>0, <2>1 DEF TypeOK
  <2> QED
    BY <2>2 DEF Bare
<1>2. CASE Flush(s) \/ Remove(s)
  <2>1. PICK f \in [Domains -> HostRow \cup {None}] :
           /\ \A d \in Domains : f[d] \in {None, hosts[d]}
           /\ mine' = [mine EXCEPT ![s] =
                          [d \in Domains |-> IF d \in Reached(s) THEN f[d] ELSE @[d]]]
    <3>1. CASE Flush(s)
      BY <1>0, <3>1 DEF Flush, TypeOK
    <3>2. CASE Remove(s)
      <4>1. /\ [d \in Domains |-> None] \in [Domains -> HostRow \cup {None}]
            /\ mine' = [mine EXCEPT ![s] = [d \in Domains |->
                           IF d \in Reached(s) THEN [e \in Domains |-> None][d] ELSE @[d]]]
        BY <3>2 DEF Remove
      <4> QED
        BY <4>1
    <3> QED
      BY <1>2, <3>1, <3>2
  <2>2. \A t \in Sessions, d \in Domains : mine'[t][d] = mine[t][d] \/ mine'[t][d] = f[d]
    BY <1>0, <2>1 DEF TypeOK
  <2> QED
    BY <2>1, <2>2 DEF Bare
<1>3. CASE Book(s)
  <2>1. /\ pc[s] = "book" /\ proxies' = proxies /\ push[s].cert = record.id
    BY <1>3 DEF Book, SeenInv, Seen
  <2> QED
    BY <1>3, <2>1, Booking
<1>4. CASE ~(Insert(s) \/ Flush(s) \/ Remove(s) \/ Book(s))
  <2>1. mine' = mine \/ \E good : End(s, good)
    BY <1>4 DEF Push, BeginHost, BeginResync, Attach, NextHost, LastHost, Unchanged, Find, Lookup,
                Put, Create, WriteRefused, Accept, Reject, Undo, Erase, Rollback, PushFails
  <2>2. \A t \in Sessions, d \in Domains : mine'[t][d] \in {mine[t][d], Same}
    BY <1>0, <2>1 DEF End, Close, TypeOK
  <2> QED
    BY <2>2 DEF Bare
<1> QED
  BY <1>1, <1>2, <1>3, <1>4

(* The steps that push a host keep the tables in order.                    *)
LEMMA PushKeepsTables ==
    ASSUME TypeInv, TypeInv', OneHost', LoadInv, ProvisionInv, NEW s \in Sessions, OpInv(s),
           SeenInv(s), Push(s)
    PROVE  OfSource' /\ Dangling' /\ Recorded' /\ Rows'
<1>0. /\ TypeOK /\ TypeOK' /\ SessionInv(s) /\ UndoInv(s)
      /\ OfSource /\ Dangling /\ Recorded /\ Rows
  BY DEF TypeInv, ProvisionInv, ProvisionerInv
<1>1. hosts' = hosts /\ record' = record /\ certs' = certs /\ nextCert' = nextCert
  BY PushTables, PushElsewhere
<1>2. OfSource' /\ Recorded'
  BY <1>0, <1>1 DEF OfSource, Recorded
<1>3. ASSUME NEW h \in HostIds, proxies'[h] # None
      PROVE  \/ proxies[h] # None /\ proxies'[h].domain = proxies[h].domain /\ proxies'[h].cert = proxies[h].cert
             \/ proxies'[h].cert = record.id
             \/ /\ proxies'[h].cert \in {None, record.id} \/ Complete(proxies'[h].cert)
                /\ proxies'[h].cert = None => BareRows(proxies'[h].domain)
  <2>1. CASE pc[s] = "undo" /\ h = push[s].before /\ proxies'[h].cert = push[s].snapshot
             /\ proxies[h] # None /\ proxies'[h].domain = proxies[h].domain
    <3>1. proxies[h].domain = push[s].d /\ push[s].before # None
      BY <1>0, <2>1, EdgeAssumption DEF SeenInv, Seen, ProxyOf
    <3> QED
      BY <1>0, <2>1, <3>1 DEF UndoInv
  <2> QED
    BY <1>3, <2>1, PushHosts
<1>4. Dangling'
  <2>1. \A c \in CertIds : Complete(c) => Complete(c)'
    BY <1>1 DEF Complete, Live
  <2>2. ASSUME NEW h \in HostIds, proxies'[h] # None
        PROVE  \/ proxies'[h].cert \in {None, record.id}
               \/ \E c \in CertIds : proxies'[h].cert = c /\ Complete(c)'
               \/ proxies[h] # None /\ proxies'[h].cert = proxies[h].cert
    <3>1. CASE Complete(proxies'[h].cert)
      <4>1. PICK c \in CertIds : c = proxies'[h].cert
        BY <1>0, <3>1 DEF Complete, Live, TypeOK
      <4> QED
        BY <2>1, <3>1, <4>1
    <3> QED
      BY <1>3, <2>2, <3>1
  <2> QED
    BY <1>0, <1>1, <2>1, <2>2, DanglingKept
<1>5. ASSUME NEW h \in HostIds, proxies'[h] # None
      PROVE  \/ record.id = None
             \/ proxies'[h].cert # None
             \/ BareRows(proxies'[h].domain)
             \/ /\ proxies[h] # None /\ proxies'[h].domain = proxies[h].domain
                /\ proxies[h].cert = None
  BY <1>3, <1>5
<1>6. CASE \A t \in Sessions, d \in Domains :
              mine'[t][d] \in {mine[t][d], hosts[d]} \/ Bare(mine'[t][d])
  <2>1. Rows'
    BY <1>0, <1>1, <1>5, <1>6, RowsKept
  <2> QED
    BY <1>2, <1>4, <2>1
<1>7. CASE pc[s] = "book" /\ proxies' = proxies /\ record.id # None
  <2>1. /\ push[s].target \in HostIds /\ proxies[push[s].target] # None
        /\ proxies[push[s].target].domain = push[s].d /\ proxies[push[s].target].cert = record.id
    BY <1>0, <1>7 DEF SeenInv, Written, ProxyOf, Live, TypeOK
  <2>2. ASSUME NEW d \in Domains, d = push[s].d PROVE Dressed(d)'
    <3>1. ASSUME NEW h \in ProxyOf(push[s].d) PROVE proxies[h].cert = record.id
      <4>1. h \in HostIds /\ proxies[h] # None /\ proxies[h].domain = push[s].d
        BY <1>0, <3>1 DEF ProxyOf, Live, TypeOK
      <4>2. h = push[s].target
        BY <1>7, <2>1, <4>1 DEF OneHost
      <4> QED
        BY <2>1, <4>2
    <3>2. ProxyOf(d)' = ProxyOf(d)
      BY <1>7 DEF ProxyOf, Live
    <3> QED
      BY <1>1, <1>7, <2>2, <3>1, <3>2 DEF Dressed
  <2>3. ASSUME NEW d \in Domains, d # push[s].d PROVE BareRows(d)' \/ Dressed(d)'
    <3>1. Dressed(d)' = Dressed(d)
      BY <1>1, <1>7 DEF Dressed, ProxyOf, Live
    <3>2. BareRows(d) => BareRows(d)'
      <4>1. \A t \in Sessions : mine'[t][d] \in {mine[t][d], hosts[d]} \/ Bare(mine'[t][d])
        BY <2>3, PushRows
      <4> QED
        BY <1>1, <4>1 DEF BareRows, Bare
    <3> QED
      BY <1>0, <3>1, <3>2 DEF Rows
  <2> QED
    BY <1>2, <1>4, <2>2, <2>3 DEF Rows
<1>8. CASE record.id = None
  BY <1>6, <1>8, PushRows DEF Bare
<1> QED
  BY <1>6, <1>7, <1>8, PushRows

(* What a push would put back.                                             *)
LEMMA PushUndoes ==
    ASSUME TypeInv, ProvisionInv, NEW s \in Sessions, OpInv(s), SeenInv(s), Push(s)
    PROVE  UndoInv(s)'
<1> USE DEF Goto, db, npm, local
<1>0. /\ TypeOK /\ SessionInv(s) /\ UndoInv(s) /\ Dangling /\ Rows
  BY DEF TypeInv, ProvisionInv, ProvisionerInv
<1>1. hosts' = hosts /\ record' = record /\ certs' = certs
  BY PushTables, PushElsewhere
<1>2. CASE Find(s)
  <2>1. PICK h \in HostIds \cup {None} :
          /\ Found(push[s].d, h)
          /\ push' = [push EXCEPT ![s] = [@ EXCEPT !.cert = record.id, !.before = h,
                         !.snapshot = IF h = None THEN None ELSE proxies[h].cert]]
    BY <1>2 DEF Find
  <2>2. /\ push'[s].before = h /\ push'[s].d = push[s].d
        /\ push'[s].snapshot = IF h = None THEN None ELSE proxies[h].cert
    BY <1>0, <2>1 DEF TypeOK, Pushing
  <2>3. pc[s] = "find" /\ pc'[s] = "lookup" /\ mine' = mine /\ push[s].d \in Domains
    BY <1>0, <1>2 DEF Find, TypeOK, SessionInv, PushLabels
  <2>4. SUFFICES ASSUME h # None
                 PROVE  /\ proxies[h].cert = None => BareRows(push[s].d)
                        /\ proxies[h].cert \in {None, record.id} \/ Complete(proxies[h].cert)
    BY <1>1, <2>2, <2>3, <2>4 DEF UndoInv, BareRows, Complete, Live
  <2>5. h \in HostIds /\ h \in ProxyOf(push[s].d) /\ proxies[h] # None
    BY <1>0, <2>1, <2>4 DEF Found, ProxyOf, Live, TypeOK
  <2>6. BareRows(push[s].d) \/ Dressed(push[s].d)
    BY <1>0, <2>3 DEF Rows
  <2> QED
    BY <1>0, <2>5, <2>6 DEF Dressed, Dangling
<1>3. CASE Lookup(s) \/ Put(s) \/ Create(s) \/ Accept(s) \/ Reject(s)
  <2>1. pc[s] \in {"lookup", "write", "verify"} /\ mine' = mine
    BY <1>3 DEF Lookup, Put, Create, Accept, Reject
  <2>2. /\ push'[s].before = push[s].before /\ push'[s].snapshot = push[s].snapshot
        /\ push'[s].d = push[s].d
    <3>1. push' = push \/ \E h : push' = [push EXCEPT ![s].target = h]
      BY <1>3 DEF Lookup, Put, Create, Accept, Reject
    <3> QED
      BY <1>0, <3>1 DEF TypeOK, Pushing
  <2> QED
    BY <1>0, <1>1, <2>1, <2>2 DEF UndoInv, BareRows, Complete, Live
<1>4. CASE ~(Find(s) \/ Lookup(s) \/ Put(s) \/ Create(s) \/ Accept(s) \/ Reject(s))
  <2>1. pc'[s] \notin {"lookup", "write", "verify", "undo"}
    <3>1. CASE \E good : End(s, good)
      BY <3>1, EndElsewhere
    <3>2. CASE ~(\E good : End(s, good))
      BY <1>0, <1>4, <3>2 DEF Push, BeginHost, BeginResync, Attach, NextHost, LastHost, Insert,
                              Flush, Unchanged, Remove, WriteRefused, Undo, Book, Erase, Rollback,
                              PushFails, TypeOK
    <3> QED
      BY <3>1, <3>2
  <2> QED
    BY <2>1 DEF UndoInv
<1> QED
  BY <1>2, <1>3, <1>4

(* The attach step.                                                        *)
LEMMA PushAttaches ==
    ASSUME TypeInv, TypeInv', LoadInv, ProvisionInv, NEW s \in Sessions, OpInv(s), SeenInv(s),
           Push(s)
    PROVE  AttachInv(s)'
<1> USE DEF Goto, db, npm, local
<1>0. /\ TypeOK /\ TypeOK' /\ SessionInv(s) /\ AttachInv(s) /\ ProvisionerInv(s)
  BY DEF TypeInv, ProvisionInv, ProvisionerInv
<1>1. /\ hosts' = hosts /\ record' = record /\ certs' = certs
      /\ Complete(record.id)' = Complete(record.id)
  <2>1. hosts' = hosts /\ record' = record /\ certs' = certs
    BY PushTables, PushElsewhere
  <2> QED
    BY <2>1 DEF Complete, Live
<1>a. ASSUME UNCHANGED <<mine, job, rot>>, pc[s] \in InPush \cup {"next"},
             \/ pc'[s] \in InPush \cup {"next"}
             \/ pc'[s] = "commit" /\ (job[s].op = "attach" => ~job[s].failed),
             Left(s) \subseteq Left(s)'
      PROVE  AttachInv(s)'
  <2>1. \A d \in Domains : Draft(s)'[d] = Draft(s)[d]
    BY <1>1, <1>a DEF Draft
  <2>2. Attached(s) => Attached(s)'
    BY <1>1, <1>a, <2>1 DEF Attached
  <2>3. SUFFICES ASSUME job[s].op = "attach" PROVE AttachInv(s)'
    BY <1>a DEF AttachInv
  <2>4. /\ rot[s].m \in Sources /\ (job[s].ok => Complete(record.id)) /\ record.id # None
        /\ ~job[s].failed => Attached(s)
    BY <1>0, <1>a, <2>3 DEF AttachInv, InPush
  <2> QED
    BY <1>1, <1>a, <2>2, <2>3, <2>4 DEF AttachInv, InPush
<1>b. ASSUME NEW good, good = FALSE, End(s, good), pc[s] # "idle"
      PROVE  AttachInv(s)'
  <2>1. job[s].op \in {"provision", "attach"} => rot[s].m \in Sources
    BY <1>0, <1>b, Material
  <2> QED
    BY <1>b, <2>1, EndProvisions DEF ProvisionerInv
<1>2. CASE BeginHost(s) \/ BeginResync(s)
  <2>1. PICK op \in {"create", "update", "delete", "resync"} : job' = [job EXCEPT ![s].op = op]
    BY <1>2 DEF BeginHost, BeginResync
  <2>2. job'[s].op # "attach"
    BY <1>0, <2>1 DEF TypeOK, Job
  <2> QED
    BY <2>2 DEF AttachInv
<1>3. CASE Insert(s) \/ Flush(s) \/ Unchanged(s) \/ Remove(s) \/ Erase(s)
  <2>1. job' = job /\ job[s].op # "attach"
    BY <1>3 DEF Insert, Flush, Unchanged, Remove, Erase, OpInv
  <2> QED
    BY <2>1 DEF AttachInv
<1>4. CASE Attach(s)
  <2>1. CASE Rollback(s)
    BY <1>4, <1>b, <2>1 DEF Attach, Rollback
  <2>2. CASE ~Rollback(s)
    <3>1. /\ pc[s] = "attach" /\ pc'[s] = "next" /\ record.id # None
          /\ push'[s].todo = Unattached /\ UNCHANGED <<mine, job, rot>>
      <4>1. /\ pc[s] = "attach" /\ pc' = [pc EXCEPT ![s] = "next"] /\ record.id # None
            /\ push' = [push EXCEPT ![s] = [NoPush EXCEPT !.todo = Unattached, !.seen = hosts]]
            /\ UNCHANGED <<mine, job, rot>>
        BY <1>4, <2>2 DEF Attach
      <4>2. push'[s].todo = Unattached
        BY <1>0, <4>1 DEF TypeOK, NoPush
      <4> QED
        BY <1>0, <4>1, <4>2 DEF TypeOK
    <3>2. /\ rot[s].m \in Sources /\ (job[s].ok => Complete(record.id))
          /\ \A d \in Domains : mine[s][d] = Same
      BY <1>0, <3>1 DEF AttachInv, OpInv
    <3>3. \A d \in Domains : Draft(s)'[d] = hosts[d]
      BY <1>1, <3>1, <3>2 DEF Draft
    <3>4. Attached(s)'
      BY <1>0, <1>1, <3>1, <3>3 DEF Attached, Left, Unattached, Live, InPush, TypeOK
    <3> QED
      BY <1>1, <3>1, <3>2, <3>4 DEF AttachInv, InPush
  <2> QED
    BY <2>1, <2>2
<1>5. CASE \/ NextHost(s) \/ Find(s) \/ Lookup(s) \/ Put(s) \/ Create(s) \/ Accept(s) \/ Reject(s)
  <2>1. /\ UNCHANGED <<mine, job, rot>> /\ pc[s] \in InPush \cup {"next"}
        /\ pc'[s] \in InPush /\ (~NextHost(s) => pc[s] \in InPush)
    BY <1>0, <1>5 DEF NextHost, Find, Lookup, Put, Create, Accept, Reject, InPush, TypeOK
  <2>2. Left(s) \subseteq Left(s)'
    <3>1. CASE NextHost(s)
      <4>1. PICK d \in push[s].todo :
              push' = [push EXCEPT ![s] = [@ EXCEPT !.todo = push[s].todo \ {d}, !.d = d]]
        BY <3>1 DEF NextHost
      <4>2. push'[s].todo = push[s].todo \ {d} /\ push'[s].d = d
        BY <1>0, <4>1 DEF TypeOK, Pushing
      <4>3. pc[s] = "next"
        BY <3>1 DEF NextHost
      <4> QED
        BY <2>1, <4>2, <4>3 DEF Left, InPush
    <3>2. CASE ~NextHost(s)
      <4>1. \/ push' = push
            \/ \E h : push' = [push EXCEPT ![s].target = h]
            \/ \E h, c : push' = [push EXCEPT ![s] = [@ EXCEPT !.cert = record.id, !.before = h,
                                                               !.snapshot = c]]
        BY <1>5, <3>2 DEF Find, Lookup, Put, Create, Accept, Reject
      <4>2. push'[s].todo = push[s].todo /\ push'[s].d = push[s].d
        <5>1. push \in [Sessions -> Pushing] /\ push[s] \in Pushing
          BY <1>0 DEF TypeOK
        <5>2. CASE push' = push
          BY <5>2
        <5>3. CASE \E h : push' = [push EXCEPT ![s].target = h]
          BY <5>1, <5>3 DEF Pushing
        <5>4. CASE \E h, c : push' = [push EXCEPT ![s] = [@ EXCEPT !.cert = record.id, !.before = h,
                                                                  !.snapshot = c]]
          <6>1. PICK h, c : push' = [push EXCEPT ![s] = [@ EXCEPT !.cert = record.id, !.before = h,
                                                                  !.snapshot = c]]
            BY <5>4
          <6> QED
            BY <5>1, <6>1 DEF Pushing
        <5> QED
          BY <4>1, <5>2, <5>3, <5>4
      <4> QED
        BY <2>1, <3>2, <4>2 DEF Left
    <3> QED
      BY <3>1, <3>2
  <2> QED
    BY <1>a, <2>1, <2>2
<1>6. CASE LastHost(s)
  <2>1. CASE Rollback(s)
    BY <1>6, <1>b, <2>1 DEF LastHost, Rollback
  <2>2. CASE ~Rollback(s)
    <3>1. /\ pc[s] = "next" /\ pc'[s] = "commit" /\ (job[s].op = "attach" => ~job[s].failed)
          /\ UNCHANGED <<mine, job, rot, push>>
      BY <1>0, <1>6, <2>2 DEF LastHost, TypeOK
    <3>2. Left(s) \subseteq Left(s)'
      BY <3>1 DEF Left, InPush
    <3> QED
      BY <1>a, <3>1, <3>2
  <2> QED
    BY <2>1, <2>2
<1>7. CASE WriteRefused(s) \/ Undo(s)
  <2>1. pc[s] \in InPush /\ PushFails(s)
    BY <1>7 DEF WriteRefused, Undo, InPush
  <2> QED
    BY <1>0, <1>1, <2>1, PushFailsProvisions DEF ProvisionerInv
<1>8. CASE Book(s)
  <2>1. /\ pc[s] = "book" /\ job' = job /\ push' = push /\ rot' = rot
        /\ pc'[s] = IF job[s].op \in {"create", "update"} THEN "commit" ELSE "next"
    BY <1>0, <1>8 DEF Book, TypeOK
  <2>2. SUFFICES ASSUME job[s].op = "attach" PROVE AttachInv(s)'
    BY <2>1 DEF AttachInv
  <2>3. /\ rot[s].m \in Sources /\ (job[s].ok => Complete(record.id)) /\ record.id # None
        /\ ~job[s].failed => Attached(s)
    BY <1>0, <2>1, <2>2 DEF AttachInv, InPush
  <2>4. ASSUME Attached(s), NEW d \in Domains \ Left(s)', Draft(s)'[d] # None
        PROVE  Draft(s)'[d].cert = record.id
    <3>1. CASE d = push[s].d
      <4>1. push[s].cert = record.id
        BY <1>0, <2>1 DEF SeenInv, Seen
      <4> QED
        BY <1>8, <3>1, <4>1, Booking
    <3>2. CASE d # push[s].d
      <4>1. d \notin Left(s)
        BY <2>1, <2>2, <2>4, <3>2 DEF Left, InPush
      <4>2. mine'[s][d] = mine[s][d]
        BY <1>8, <2>4, <3>2, Booking
      <4>3. Draft(s)'[d] = Draft(s)[d]
        BY <1>1, <2>4, <4>2 DEF Draft
      <4> QED
        BY <2>4, <4>1, <4>3 DEF Attached
    <3> QED
      BY <3>1, <3>2
  <2>5. Attached(s) => Attached(s)'
    BY <1>1, <2>4 DEF Attached
  <2> QED
    BY <1>1, <2>1, <2>2, <2>3, <2>5 DEF AttachInv, InPush
<1> QED
  BY <1>2, <1>3, <1>4, <1>5, <1>6, <1>7, <1>8 DEF Push

LEMMA PushProvision ==
    ASSUME TypeInv, TypeInv', LoadInv, PushesInv, OneHost', ProvisionInv, NEW s \in Sessions,
           Push(s)
    PROVE  OfSource' /\ Dangling' /\ Recorded' /\ Rows' /\ ProvisionerInv(s)'
<1>1. OpInv(s) /\ SeenInv(s)
  BY DEF PushesInv, PusherInv
<1>2. OfSource' /\ Dangling' /\ Recorded' /\ Rows'
  BY <1>1, PushKeepsTables
<1>3. SwitchInv(s)'
  BY <1>1, PushElsewhere, NotSwitching
<1>4. UndoInv(s)' /\ AttachInv(s)'
  BY <1>1, PushUndoes, PushAttaches
<1> QED
  BY <1>2, <1>3, <1>4 DEF ProvisionerInv

LEMMA TablesKept ==
    ASSUME TypeInv, TypeInv', ProvisionInv, UNCHANGED <<hosts, record, certs, proxies, nextCert>>,
           \A t \in Sessions, d \in Domains : mine'[t][d] \in {mine[t][d], Same}
    PROVE  OneHost' /\ OfSource' /\ Dangling' /\ Recorded' /\ Rows'
<1>0. OneHost /\ OfSource /\ Dangling /\ Recorded /\ Rows
  BY DEF ProvisionInv
<1>1. Rows'
  BY <1>0 DEF Rows, BareRows, Bare, Dressed, ProxyOf, Live
<1> QED
  BY <1>0, <1>1 DEF OneHost, OfSource, Dangling, Recorded, Complete, Live

(* A commit: a new record is complete and the old one has no user left; the *)
(* attach step leaves only rows that name the recorded certificate.         *)
LEMMA CommitProvision ==
    ASSUME TypeInv, TypeInv', RotationInv, ProvisionInv, NEW s \in Sessions, OpInv(s), SeenInv(s),
           Commit(s)
    PROVE  OfSource' /\ Dangling' /\ Recorded' /\ Rows' /\ ProvisionerInv(s)'
<1>0. /\ TypeOK /\ TypeOK' /\ SwitchInv(s) /\ AttachInv(s) /\ ProvisionerInv(s)
      /\ RotatorInv(s) /\ FreshCerts
      /\ OfSource /\ Dangling /\ Recorded /\ Rows
  BY DEF TypeInv, ProvisionInv, ProvisionerInv, RotationInv
<1>1. /\ pc[s] = "commit" /\ hosts' = Draft(s) /\ End(s, TRUE)
      /\ certs' = certs /\ proxies' = proxies /\ nextCert' = nextCert
      /\ record' = IF job[s].op \in InstallOps
                   THEN [id |-> rot[s].new, of |-> rot[s].m] ELSE record
  BY DEF Commit, npm, InstallOps
<1>2. \A t \in Sessions, d \in Domains : mine'[t][d] \in {mine[t][d], Same}
  BY <1>0, <1>1 DEF End, Close, TypeOK
<1>3. OfSource'
  BY <1>0, <1>1 DEF OfSource
<1>4. ASSUME record.id # None => record'.id # None PROVE Rows'
  <2>1. ASSUME NEW d \in Domains, BareRows(d) PROVE BareRows(d)'
    <3>1. Bare(hosts[d]) /\ Bare(mine[s][d]) /\ hosts'[d] \in {hosts[d], mine[s][d]}
      BY <1>1, <2>1 DEF BareRows, Draft
    <3>2. Bare(hosts'[d])
      BY <3>1
    <3> QED
      BY <1>2, <2>1, <3>2 DEF BareRows, Bare
  <2>2. ASSUME NEW d \in Domains, Dressed(d) PROVE Dressed(d)'
    BY <1>1, <1>4, <2>2 DEF Dressed, ProxyOf, Live
  <2> QED
    BY <1>0, <2>1, <2>2 DEF Rows
<1>5. CASE job[s].op \in InstallOps
  <2>1. /\ Complete(rot[s].new) /\ record'.id = rot[s].new
        /\ record.id \in {None, rot[s].new} \/ Users(record.id) = {}
    BY <1>0, <1>1, <1>5 DEF RotatorInv, Switching, SwitchInv
  <2>2. /\ rot[s].new \in CertIds /\ certs[rot[s].new] # None /\ certs[rot[s].new].files
    BY <1>0, <2>1 DEF Complete, Live, TypeOK
  <2>3. rot[s].new # None /\ rot[s].new < nextCert
    <3>1. rot[s].new \in Nat /\ nextCert \in Nat
      BY <1>0, <2>2, EdgeAssumption DEF TypeOK, CertIds
    <3>2. ~(rot[s].new >= nextCert)
      BY <1>0, <2>2 DEF FreshCerts
    <3> QED
      BY <2>2, <3>1, <3>2, EdgeAssumption
  <2>4. Dangling'
    <3>1. ASSUME NEW h \in HostIds, proxies[h] # None
          PROVE  proxies[h].cert \in {None, rot[s].new} \/ Complete(proxies[h].cert)
      <4>1. proxies[h].cert = record.id => record.id \in {None, rot[s].new}
        BY <1>0, <2>1, <3>1 DEF Users, Live, TypeOK
      <4> QED
        BY <1>0, <3>1, <4>1 DEF Dangling
    <3> QED
      BY <1>1, <2>1, <3>1 DEF Dangling, Complete, Live
  <2>5. Recorded'
    BY <1>1, <2>1, <2>2, <2>3 DEF Recorded
  <2>6. Rows'
    BY <1>4, <2>1, <2>3
  <2>7. Complete(record.id)'
    BY <1>1, <2>1 DEF Complete, Live
  <2>8. ProvisionerInv(s)'
    <3>1. job[s].op \in {"provision", "attach"} => rot[s].m \in Sources
      BY <1>0, <1>1, Material
    <3> QED
      BY <1>1, <1>5, <2>7, <3>1, EndProvisions DEF InstallOps
  <2> QED
    BY <1>3, <2>4, <2>5, <2>6, <2>8
<1>6. CASE job[s].op \notin InstallOps
  <2>1. record' = record
    BY <1>1, <1>6
  <2>2. Dangling' /\ Recorded'
    BY <1>0, <1>1, <2>1 DEF Dangling, Recorded, Complete, Live
  <2>3. Rows'
    BY <1>4, <2>1
  <2>4. ProvisionerInv(s)'
    <3>1. ASSUME job[s].op = "attach"
          PROVE  /\ rot[s].m \in Sources
                 /\ job[s].ok => Complete(record.id)'
                 /\ \A d \in Domains : hosts'[d] # None => Dressed(d)'
      <4>1. /\ rot[s].m \in Sources /\ (job[s].ok => Complete(record.id)) /\ record.id # None
            /\ Attached(s)
        BY <1>0, <1>1, <3>1 DEF AttachInv
      <4>2. Left(s) = {}
        BY <1>1, <3>1 DEF SeenInv, Left, InPush
      <4>3. ASSUME NEW d \in Domains, hosts'[d] # None PROVE Dressed(d)'
        <5>1. hosts'[d].cert # None
          BY <1>1, <4>1, <4>2, <4>3 DEF Attached
        <5>2. hosts'[d] # Same
          BY <1>0, <4>3, EdgeAssumption DEF TypeOK, HostRow
        <5>3. ~Bare(hosts'[d])
          BY <4>3, <5>1, <5>2 DEF Bare
        <5> QED
          BY <2>3, <5>3 DEF Rows, BareRows
      <4>4. Complete(record.id)' = Complete(record.id)
        BY <1>1, <2>1 DEF Complete, Live
      <4> QED
        BY <4>1, <4>3, <4>4
    <3> QED
      BY <1>1, <1>6, <3>1, EndProvisions DEF InstallOps
  <2> QED
    BY <1>3, <2>2, <2>3, <2>4
<1> QED
  BY <1>5, <1>6

(* The other ends of a session leave the tables as they are.               *)
LEMMA FinishProvision ==
    ASSUME TypeInv, TypeInv', PushesInv, RotationInv, ProvisionInv, NEW s \in Sessions, Finish(s)
    PROVE  OfSource' /\ Dangling' /\ Recorded' /\ Rows' /\ ProvisionerInv(s)'
<1> USE DEF Goto, db, npm, local
<1>0. TypeOK /\ OpInv(s) /\ SeenInv(s) /\ ProvisionerInv(s)
  BY DEF TypeInv, PushesInv, PusherInv, ProvisionInv
<1>1. CASE Commit(s)
  BY <1>0, <1>1, CommitProvision
<1>2. ASSUME ~Commit(s)
      PROVE  OfSource' /\ Dangling' /\ Recorded' /\ Rows'
  <2>1. UNCHANGED <<hosts, record, certs, proxies, nextCert>>
    BY <1>2 DEF Finish, Done, Rejected, RequestFails, Refused, Rollback, PushFails
  <2>2. mine' = mine \/ \E good : End(s, good)
    BY <1>2 DEF Finish, Done, Rejected, RequestFails, Refused, Rollback, PushFails
  <2>3. \A t \in Sessions, d \in Domains : mine'[t][d] \in {mine[t][d], Same}
    BY <1>0, <2>2 DEF End, Close, TypeOK
  <2> QED
    BY <2>1, <2>3, TablesKept
<1>3. ASSUME Done(s) PROVE ProvisionerInv(s)'
  <2>1. pc'[s] = "idle"
    BY <1>0, <1>3 DEF Done, TypeOK
  <2> QED
    BY <2>1, IdleProvisionerNext
<1>4. ASSUME Rejected(s) \/ RequestFails(s) \/ Refused(s) PROVE ProvisionerInv(s)'
  <2>1. CASE Rollback(s)
    <3>1. pc[s] # "idle"
      BY <1>4 DEF Rejected, NoSuchRow, Locked, RequestFails, Refused, Rotating, Pushes
    <3>2. job[s].op \in {"provision", "attach"} => rot[s].m \in Sources
      BY <1>0, <3>1, Material
    <3> QED
      BY <2>1, <3>2, EndProvisions DEF Rollback
  <2>2. CASE pc[s] \in Pushes /\ PushFails(s) /\ certs' = certs
    BY <1>0, <2>2, PushFailsProvisions DEF Pushes, InPush
  <2> QED
    BY <1>4, <2>1, <2>2 DEF Rejected, RequestFails, Refused
<1>5. CASE Commit(s)
  BY <1>1, <1>5
<1>6. CASE ~Commit(s)
  BY <1>2, <1>3, <1>4, <1>6 DEF Finish
<1> QED
  BY <1>5, <1>6

LEMMA ProvisionNext ==
    ASSUME ~Overlap, "reset" \notin Faults, "issued" \notin Sources,
           TypeInv, TypeInv', Serial, LoadInv, PushesInv, RotationInv, ProvisionInv, [Next]_vars
    PROVE  ProvisionInv'
<1>0. OneHost' /\ \A s \in Sessions : OpInv(s)
  BY OneHostNext DEF ProvisionInv, PushesInv, PusherInv
<1>1. ASSUME NEW s \in Sessions, Install(s) \/ Push(s) \/ Finish(s) PROVE ProvisionInv'
  BY <1>0, <1>1, ActsAlone, InstallProvision, PushProvision, FinishProvision, ProvisionerAlone
<1>2. ASSUME NEW S \in SUBSET Sessions, Kill(S) PROVE ProvisionInv'
  <2>1. UNCHANGED <<hosts, record, certs, proxies, nextCert>>
    BY <1>2 DEF Kill, npm
  <2>2. \A t \in Sessions, d \in Domains : mine'[t][d] \in {mine[t][d], Same}
    BY <1>2 DEF Kill, Close
  <2>3. ASSUME NEW t \in Sessions PROVE ProvisionerInv(t)'
    <3>1. pc'[t] = "idle"
      BY <1>2 DEF Kill, Serial
    <3> QED
      BY <3>1, IdleProvisionerNext
  <2> QED
    BY <2>1, <2>2, <2>3, TablesKept DEF ProvisionInv
<1>3. CASE UNCHANGED vars
  <2>1. /\ UNCHANGED <<hosts, record, certs, proxies, nextCert>>
        /\ UNCHANGED <<pc, job, rot, push, mine>>
    BY <1>3 DEF vars, db, npm, local
  <2>2. ASSUME NEW t \in Sessions PROVE ProvisionerInv(t)'
    <3>1. ProvisionerInv(t)
      BY DEF ProvisionInv
    <3> QED
      BY <2>1, <3>1 DEF ProvisionerInv, SwitchInv, UndoInv, AttachInv, NotInstalling, Live, Users,
                        BareRows, Complete, Attached, Left, Draft, Dressed, ProxyOf
  <2> QED
    BY <2>1, <2>2, TablesKept DEF ProvisionInv
<1> QED
  BY <1>1, <1>2, <1>3 DEF Next, Sessions, Reset

LEMMA ProvisionHolds ==
    ASSUME ~Overlap, "reset" \notin Faults, "issued" \notin Sources
    PROVE  Spec => []ProvisionInv
<1>1. Init => ProvisionInv
  <2>1. SUFFICES ASSUME Init PROVE ProvisionInv
    OBVIOUS
  <2>2. \A s \in Sessions : ProvisionerInv(s)
    BY <2>1, IdleProvisioner DEF Init
  <2>3. OneHost /\ OfSource /\ Dangling /\ Recorded
    BY <2>1 DEF Init, OneHost, OfSource, Dangling, Recorded
  <2>4. Rows
    BY <2>1 DEF Init, Rows, BareRows, Bare
  <2> QED
    BY <2>2, <2>3, <2>4 DEF ProvisionInv
<1>2. TypeInv /\ TypeInv' /\ Serial /\ LoadInv /\ PushesInv /\ RotationInv /\ ProvisionInv
      /\ [Next]_vars => ProvisionInv'
  BY ProvisionNext
<1> QED
  BY <1>1, <1>2, TypesHold, SerialHolds, PushesHold, RotationHolds, PTL DEF Spec

(* When both steps of `edgekit provision` have succeeded, the recorded      *)
(* certificate is in NPM and every host of the table that NPM knows serves  *)
(* what the configuration asks for, whatever failed in the commands before: *)
(* commands follow one another, NPM keeps its data, and the configuration   *)
(* asks for one certificate, supplied or from Let's Encrypt.                *)
THEOREM ProvisionConverges ==
    ASSUME ~Overlap, "reset" \notin Faults, NEW m \in Supplied \cup {"acme"}, Sources = {m}
    PROVE  Spec => []Converged
<1>0. "issued" \notin Sources
  BY DEF Supplied
<1>1. TypeInv /\ PushesInv /\ ProvisionInv => Converged
  <2>1. SUFFICES ASSUME TypeInv, PushesInv, ProvisionInv,
                        NEW s \in Sessions, pc[s] = "done", job[s].ok
                 PROVE  /\ Complete(record.id)
                        /\ \A d \in Live(hosts) : \A h \in ProxyOf(d) :
                              Complete(proxies[h].cert) /\ certs[proxies[h].cert].of = rot[s].m
    BY DEF Converged
  <2>2. /\ TypeOK /\ OpInv(s) /\ AttachInv(s) /\ Dangling /\ OfSource
    BY <2>1 DEF TypeInv, PushesInv, PusherInv, ProvisionInv, ProvisionerInv
  <2>3. /\ rot[s].m \in Sources /\ Complete(record.id)
        /\ \A d \in Domains : hosts[d] # None => Dressed(d)
    BY <2>1, <2>2 DEF OpInv, AttachInv
  <2>4. ASSUME NEW d \in Live(hosts), NEW h \in ProxyOf(d)
        PROVE  Complete(proxies[h].cert) /\ certs[proxies[h].cert].of = rot[s].m
    <3>1. d \in Domains /\ hosts[d] # None /\ h \in HostIds /\ proxies[h] # None
      BY <2>2, <2>4 DEF Live, ProxyOf, TypeOK
    <3>2. Complete(proxies[h].cert)
      BY <2>2, <2>3, <2>4, <3>1 DEF Dressed, Dangling
    <3>3. certs[proxies[h].cert].of \in Sources
      BY <2>2, <3>2 DEF OfSource, Complete, Live, TypeOK
    <3> QED
      BY <2>3, <3>2, <3>3
  <2> QED
    BY <2>3, <2>4
<1> QED
  BY <1>0, <1>1, TypesHold, PushesHold, ProvisionHolds, PTL
=============================================================================
