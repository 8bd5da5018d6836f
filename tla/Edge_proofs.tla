----------------------------- MODULE Edge_proofs -----------------------------
(************************************************************************** *)
(* Theorems about Edge, for any number of sessions, hosts and certificates, *)
(* in any interleaving of their calls and whatever fails: the types, the    *)
(* ids of the rows, and the ownership of the ids of NPM that they keep.     *)
(************************************************************************** *)
EXTENDS Edge, TLAPS

-----------------------------------------------------------------------------
(* Types.  A session that pushes has a domain, one that installs knows what *)
(* it installs.                                                             *)

PushLabels == {"flush", "find", "lookup", "write", "verify", "undo", "book", "erase"}

SessionInv(s) ==
    /\ pc[s] \in PushLabels => push[s].d \in Domains
    /\ pc[s] \in Rotating => rot[s].m \in Materials
    /\ pc[s] = "move" => rot[s].then # "none"

TypeInv == TypeOK /\ \A s \in Sessions : SessionInv(s)

(* The labels, spelled out.                                                *)
LEMMA LabelSet ==
    Labels = {"check", "supersede", "post", "upload", "discard", "repoint", "move", "sweep",
              "drop", "previous", "obtain", "issue", "find", "lookup", "write", "undo", "idle",
              "settled", "attach", "next", "flush", "verify", "book", "erase", "commit", "done"}
  BY DEF Labels, Rotating, Pushes

(* A step of s that keeps the records of its session or changes them in    *)
(* type, and leaves the label where the invariant of the session holds.    *)
LEMMA LocalTypes ==
    ASSUME TypeInv, NEW s \in Sessions,
           NEW l \in Labels, pc' = [pc EXCEPT ![s] = l],
           job' \in [Sessions -> Job], rot' \in [Sessions -> Rotation],
           push' \in [Sessions -> Pushing],
           \A t \in Sessions \ {s} : rot'[t] = rot[t] /\ push'[t] = push[t],
           l \in PushLabels => push'[s].d \in Domains,
           l \in Rotating => rot'[s].m \in Materials,
           l = "move" => rot'[s].then # "none"
    PROVE  /\ pc' \in [Sessions -> Labels]
           /\ \A t \in Sessions : SessionInv(t)'
  BY DEF TypeInv, TypeOK, SessionInv

(* The values that a session starts and ends with have their types.        *)
LEMMA StartTypes ==
    /\ NoJob \in Job /\ NoRotation \in Rotation /\ NoPush \in Pushing
    /\ [d \in Domains |-> Same] \in [Domains -> HostRow \cup {None, Same}]
  BY DEF NoJob, Job, NoRotation, Rotation, NoPush, Pushing

(* Closing sessions keeps the types of what it resets.                     *)
LEMMA CloseTypes ==
    ASSUME TypeInv, NEW S \in SUBSET Sessions, Close(S)
    PROVE  /\ push' \in [Sessions -> Pushing]
           /\ mine' \in [Sessions -> [Domains -> HostRow \cup {None, Same}]]
           /\ writer' \in Sessions \cup {None}
           /\ \A t \in Sessions \ S : push'[t] = push[t]
  BY StartTypes DEF TypeInv, TypeOK, Close

(* The end of a database session.                                          *)
LEMMA EndTypes ==
    ASSUME TypeInv, NEW s \in Sessions, NEW good \in BOOLEAN, End(s, good)
    PROVE  /\ pc' \in [Sessions -> Labels] /\ job' \in [Sessions -> Job]
           /\ rot' \in [Sessions -> Rotation] /\ push' \in [Sessions -> Pushing]
           /\ mine' \in [Sessions -> [Domains -> HostRow \cup {None, Same}]]
           /\ writer' \in Sessions \cup {None}
           /\ \A t \in Sessions : SessionInv(t)'
<1>1. /\ push' \in [Sessions -> Pushing]
      /\ mine' \in [Sessions -> [Domains -> HostRow \cup {None, Same}]]
      /\ writer' \in Sessions \cup {None}
      /\ \A t \in Sessions \ {s} : push'[t] = push[t]
  BY CloseTypes DEF End
<1>2. CASE job[s].op = "provision"
  <2>1. /\ Goto(s, "attach")
        /\ job' = [job EXCEPT ![s] = [op |-> "attach", ok |-> good, failed |-> FALSE]]
        /\ rot' = [rot EXCEPT ![s] = [NoRotation EXCEPT !.m = rot[s].m]]
    BY <1>2 DEF End
  <2>2. job' \in [Sessions -> Job]
    BY <2>1 DEF TypeInv, TypeOK, Job
  <2>3. [NoRotation EXCEPT !.m = rot[s].m] \in Rotation
    BY StartTypes DEF TypeInv, TypeOK, Rotation, NoRotation
  <2>4. rot' \in [Sessions -> Rotation] /\ \A t \in Sessions \ {s} : rot'[t] = rot[t]
    BY <2>1, <2>3 DEF TypeInv, TypeOK
  <2>5. "attach" \in Labels /\ "attach" \notin PushLabels \cup Rotating
    BY LabelSet DEF PushLabels, Rotating
  <2> QED
    BY <1>1, <2>1, <2>2, <2>4, <2>5, LocalTypes DEF Goto
<1>3. CASE job[s].op = "attach"
  <2>1. /\ Goto(s, "done") /\ job' = [job EXCEPT ![s].ok = @ /\ good] /\ rot' = rot
    BY <1>3 DEF End
  <2>2. job' \in [Sessions -> Job]
    <3>1. PICK b \in BOOLEAN : job' = [job EXCEPT ![s].ok = b]
      <4>1. (job[s].ok /\ good) \in BOOLEAN
        OBVIOUS
      <4> QED
        BY <2>1, <4>1, Zenon
    <3> QED
      BY <3>1 DEF TypeInv, TypeOK, Job
  <2>3. "done" \in Labels /\ "done" \notin PushLabels \cup Rotating
    BY LabelSet DEF PushLabels, Rotating
  <2> QED
    BY <1>1, <2>1, <2>2, <2>3, LocalTypes DEF Goto, TypeInv, TypeOK
<1>4. CASE job[s].op \notin {"provision", "attach"}
  <2>1. /\ Goto(s, "idle") /\ job' = [job EXCEPT ![s] = NoJob]
        /\ rot' = [rot EXCEPT ![s] = NoRotation]
    BY <1>4 DEF End
  <2>2. job' \in [Sessions -> Job] /\ rot' \in [Sessions -> Rotation]
        /\ \A t \in Sessions \ {s} : rot'[t] = rot[t]
    BY <2>1, StartTypes DEF TypeInv, TypeOK
  <2>3. "idle" \in Labels /\ "idle" \notin PushLabels \cup Rotating
    BY LabelSet DEF PushLabels, Rotating
  <2> QED
    BY <1>1, <2>1, <2>2, <2>3, LocalTypes DEF Goto
<1> QED
  BY <1>2, <1>3, <1>4

(* A rollback, and the failure of a push.                                  *)
LEMMA RollbackTypes ==
    ASSUME TypeInv, NEW s \in Sessions, Rollback(s)
    PROVE  TypeInv'
  BY EndTypes DEF Rollback, TypeInv, TypeOK, npm

(* A push that fails, in a handler, a command or a loop over the hosts.     *)
LEMMA PushFailsTypes ==
    ASSUME TypeInv, NEW s \in Sessions, PushFails(s)
    PROVE  /\ pc' \in [Sessions -> Labels] /\ job' \in [Sessions -> Job]
           /\ rot' \in [Sessions -> Rotation] /\ push' \in [Sessions -> Pushing]
           /\ mine' \in [Sessions -> [Domains -> HostRow \cup {None, Same}]]
           /\ writer' \in Sessions \cup {None}
           /\ \A t \in Sessions : SessionInv(t)'
           /\ hosts' = hosts /\ record' = record
<1>0. hosts' = hosts /\ record' = record
  BY DEF PushFails
<1>1. /\ "commit" \in Labels /\ "commit" \notin PushLabels \cup Rotating
      /\ "next" \in Labels /\ "next" \notin PushLabels \cup Rotating
  BY LabelSet DEF PushLabels, Rotating
<1>2. CASE Goto(s, "commit") /\ UNCHANGED <<writer, local>>
  BY <1>0, <1>1, <1>2, LocalTypes DEF Goto, local, TypeInv, TypeOK
<1>3. CASE End(s, FALSE)
  BY <1>0, <1>3, EndTypes
<1>4. CASE /\ Goto(s, "next") /\ job' = [job EXCEPT ![s].failed = TRUE]
           /\ UNCHANGED <<writer, rot, push, mine>>
  <2>1. job' \in [Sessions -> Job]
    BY <1>4 DEF TypeInv, TypeOK, Job
  <2> QED
    BY <1>0, <1>1, <1>4, <2>1, LocalTypes DEF Goto, TypeInv, TypeOK
<1> QED
  BY <1>2, <1>3, <1>4 DEF PushFails
-----------------------------------------------------------------------------
(* The type invariant, action by action.                                   *)

(* The tables and NPM are empty at first.                                   *)
LEMMA InitTypes == Init => TypeInv
<1> SUFFICES ASSUME Init PROVE TypeInv
  OBVIOUS
<1>1. TypeOK
  BY StartTypes, LabelSet, EdgeAssumption DEF Init, TypeOK, CertIds, HostIds
<1>2. \A s \in Sessions : pc[s] = "idle"
  BY DEF Init
<1> QED
  BY <1>1, <1>2 DEF TypeInv, SessionInv, PushLabels, Rotating

(* The steps that install a certificate.                                    *)
LEMMA InstallTypes ==
    ASSUME TypeInv, NEW s \in Sessions, Install(s)
    PROVE  TypeInv'
<1> USE DEF Goto, db, npm, local
<1>0. TypeOK /\ SessionInv(s) /\ IsFiniteSet(Domains) /\ MaxCert \in Nat /\ MaxHost \in Nat
      /\ rot[s] \in Rotation
  BY EdgeAssumption DEF TypeInv, TypeOK
<1>1. CASE BeginInstall(s)
  <2>1. PICK m \in Sources, op \in {"install", "provision"},
             l \in {"issue", "obtain", "check", "settled", "supersede"} :
          /\ job' = [job EXCEPT ![s].op = op]
          /\ rot' = [rot EXCEPT ![s] = [NoRotation EXCEPT !.m = m, !.prev = record.id,
                                                          !.of = record.of]]
          /\ Goto(s, l)
          /\ UNCHANGED <<db, npm, push, mine>>
    BY <1>1 DEF BeginInstall
  <2>2. m \in Materials
    BY EdgeAssumption
  <2>3. [NoRotation EXCEPT !.m = m, !.prev = record.id, !.of = record.of] \in Rotation
    BY <1>0, <2>2, StartTypes DEF TypeOK, Rotation, NoRotation
  <2>4. rot' \in [Sessions -> Rotation] /\ rot'[s].m \in Materials
        /\ \A t \in Sessions \ {s} : rot'[t] = rot[t]
    BY <1>0, <2>1, <2>2, <2>3, StartTypes DEF TypeOK, NoRotation
  <2>5. job' \in [Sessions -> Job]
    BY <1>0, <2>1 DEF TypeOK, Job
  <2>6. l \in Labels \ PushLabels
    BY LabelSet DEF PushLabels
  <2> QED
    BY <1>0, <2>1, <2>4, <2>5, <2>6, LocalTypes DEF TypeInv, TypeOK
<1>2. CASE Check(s)
  <2>1. PICK l \in {"settled", "supersede"} : Goto(s, l) /\ UNCHANGED <<db, npm, local>>
    BY <1>2 DEF Check
  <2>2. l \in Labels \ PushLabels /\ rot[s].m \in Materials
    BY <1>0, <1>2, LabelSet DEF PushLabels, Check, SessionInv, Rotating
  <2> QED
    BY <1>0, <2>1, <2>2, LocalTypes DEF TypeInv, TypeOK
<1>3. CASE Settled(s)
  BY <1>0, <1>3, EndTypes DEF Settled, TypeInv, TypeOK
<1>4. CASE Supersede(s)
  <2>1. Labelled(rot[s].m) \in SUBSET CertIds
    BY <1>0 DEF Labelled, Live, TypeOK
  <2>2. rot' \in [Sessions -> Rotation] /\ rot'[s].m = rot[s].m
        /\ \A t \in Sessions \ {s} : rot'[t] = rot[t]
    BY <1>0, <1>4, <2>1 DEF Supersede, TypeOK, Rotation
  <2>3. "post" \in Labels \ PushLabels /\ rot[s].m \in Materials
    BY <1>0, <1>4, LabelSet DEF Supersede, PushLabels, SessionInv, Rotating
  <2> QED
    BY <1>0, <1>4, <2>2, <2>3, LocalTypes DEF Supersede, TypeInv, TypeOK
<1>5. CASE Post(s)
  <2>1. rot[s].m \in Materials /\ nextCert \in CertIds
    BY <1>0, <1>5 DEF Post, SessionInv, Rotating
  <2>2. certs' \in [CertIds -> Certificate \cup {None}] /\ nextCert' \in 1..(MaxCert + 1)
    BY <1>0, <1>5, <2>1 DEF Post, TypeOK, Certificate, CertIds
  <2>3. rot' \in [Sessions -> Rotation] /\ rot'[s].m = rot[s].m
        /\ \A t \in Sessions \ {s} : rot'[t] = rot[t]
    BY <1>0, <1>5, <2>1 DEF Post, TypeOK, Rotation
  <2>4. "upload" \in Labels \ PushLabels
    BY LabelSet DEF PushLabels
  <2> QED
    BY <1>0, <1>5, <2>1, <2>2, <2>3, <2>4, LocalTypes DEF Post, TypeInv, TypeOK
<1>6. CASE Upload(s)
  <2>1. certs' \in [CertIds -> Certificate \cup {None}]
    BY <1>0, <1>6 DEF Upload, TypeOK, Certificate, Live
  <2>2. rot' \in [Sessions -> Rotation] /\ rot'[s].m = rot[s].m
        /\ \A t \in Sessions \ {s} : rot'[t] = rot[t]
    BY <1>0, <1>6 DEF Upload, TypeOK, Rotation
  <2>3. "repoint" \in Labels \ PushLabels /\ rot[s].m \in Materials
    BY <1>0, <1>6, LabelSet DEF PushLabels, Upload, SessionInv, Rotating
  <2> QED
    BY <1>0, <1>6, <2>1, <2>2, <2>3, LocalTypes DEF Upload, TypeInv, TypeOK
<1>7. CASE UploadRefused(s) \/ Swept(s)
  <2>1. PICK l \in {"discard", "previous"} : Goto(s, l) /\ UNCHANGED <<db, npm, local>>
    BY <1>7 DEF UploadRefused, Swept
  <2>2. l \in Labels \ PushLabels /\ rot[s].m \in Materials
    BY <1>0, <1>7, LabelSet DEF PushLabels, UploadRefused, Swept, SessionInv, Rotating
  <2> QED
    BY <1>0, <2>1, <2>2, LocalTypes DEF TypeInv, TypeOK
<1>8. CASE Discard(s)
  <2>1. certs' \in [CertIds -> Certificate \cup {None}]
    BY <1>0, <1>8 DEF Discard, TypeOK
  <2> QED
    BY <1>0, <1>8, <2>1, EndTypes DEF Discard, TypeInv, TypeOK
<1>9. CASE Repoint(s)
  <2>1. PICK c \in rot[s].old :
          rot' = [rot EXCEPT ![s] = [@ EXCEPT !.old = rot[s].old \ {c}, !.users = Users(c),
                                              !.then = "repoint"]]
    BY <1>9 DEF Repoint
  <2>2. Users(c) \in SUBSET HostIds
    BY <1>0 DEF Users, Live, TypeOK
  <2>3. [rot[s] EXCEPT !.old = rot[s].old \ {c}, !.users = Users(c), !.then = "repoint"] \in Rotation
    BY <1>0, <2>2 DEF Rotation
  <2>4. rot' \in [Sessions -> Rotation] /\ \A t \in Sessions \ {s} : rot'[t] = rot[t]
    BY <1>0, <2>1, <2>3 DEF TypeOK
  <2>5. rot'[s].m = rot[s].m /\ rot'[s].then = "repoint"
    BY <1>0, <2>1 DEF TypeOK, Rotation
  <2>6. "move" \in Labels \ PushLabels /\ rot[s].m \in Materials
    BY <1>0, <1>9, LabelSet DEF PushLabels, Repoint, SessionInv, Rotating
  <2> QED
    BY <1>0, <1>9, <2>4, <2>5, <2>6, LocalTypes DEF Repoint, TypeInv, TypeOK
<1>10. CASE Repointed(s)
  <2>1. rot' \in [Sessions -> Rotation] /\ rot'[s].m = rot[s].m
        /\ \A t \in Sessions \ {s} : rot'[t] = rot[t]
    BY <1>0, <1>10 DEF Repointed, TypeOK, Rotation
  <2>2. "sweep" \in Labels \ PushLabels /\ rot[s].m \in Materials
    BY <1>0, <1>10, LabelSet DEF PushLabels, Repointed, SessionInv, Rotating
  <2> QED
    BY <1>0, <1>10, <2>1, <2>2, LocalTypes DEF Repointed, TypeInv, TypeOK
<1>11. CASE Move(s)
  <2>1. PICK h \in Live(proxies) :
          /\ proxies' = [proxies EXCEPT ![h].cert = rot[s].new]
          /\ rot' = [rot EXCEPT ![s].users = @ \ {h}]
    BY <1>11 DEF Move
  <2>2. proxies' \in [HostIds -> Proxy \cup {None}]
    BY <1>0, <2>1 DEF TypeOK, Proxy, Live, Rotation
  <2>3. rot' \in [Sessions -> Rotation] /\ \A t \in Sessions : rot'[t].m = rot[t].m /\ rot'[t].then = rot[t].then
    BY <1>0, <2>1 DEF TypeOK, Rotation
  <2> QED
    BY <1>0, <1>11, <2>2, <2>3 DEF Move, TypeInv, TypeOK, SessionInv
<1>12. CASE MoveRefused(s)
  <2>1. PICK h : /\ rot' = [rot EXCEPT ![s].users = @ \ {h}]
                 /\ job' = [job EXCEPT ![s].failed = TRUE]
    BY <1>12 DEF MoveRefused
  <2>2. rot' \in [Sessions -> Rotation] /\ \A t \in Sessions : rot'[t].m = rot[t].m /\ rot'[t].then = rot[t].then
    BY <1>0, <2>1 DEF TypeOK, Rotation
  <2>3. job' \in [Sessions -> Job]
    BY <1>0, <2>1 DEF TypeOK, Job
  <2> QED
    BY <1>0, <1>12, <2>2, <2>3 DEF MoveRefused, TypeInv, TypeOK, SessionInv
<1>13. CASE Moved(s)
  <2>1. CASE Rollback(s)
    BY <2>1, RollbackTypes
  <2>2. CASE Goto(s, rot[s].then) /\ UNCHANGED <<db, npm, local>>
    <3>1. pc[s] = "move" /\ rot[s].m \in Materials /\ rot[s].then # "none"
      BY <1>0, <1>13 DEF Moved, SessionInv, Rotating
    <3>2. rot[s].then \in Labels \ PushLabels /\ rot[s].then # "move"
      BY <1>0, <3>1, LabelSet DEF Rotation, PushLabels
    <3> QED
      BY <1>0, <2>2, <3>1, <3>2, LocalTypes DEF TypeInv, TypeOK
  <2> QED
    BY <1>13, <2>1, <2>2 DEF Moved
<1>14. CASE Sweep(s)
  <2>1. PICK c \in rot[s].old, l \in {"drop", "sweep"} :
          /\ rot' = [rot EXCEPT ![s] = [@ EXCEPT !.old = rot[s].old \ {c}, !.victim = c]]
          /\ Goto(s, l)
    BY <1>14 DEF Sweep
  <2>2. [rot[s] EXCEPT !.old = rot[s].old \ {c}, !.victim = c] \in Rotation
    BY <1>0 DEF Rotation
  <2>3. rot' \in [Sessions -> Rotation] /\ \A t \in Sessions \ {s} : rot'[t] = rot[t]
    BY <1>0, <2>1, <2>2 DEF TypeOK
  <2>4. rot'[s].m = rot[s].m
    BY <1>0, <2>1 DEF TypeOK, Rotation
  <2>5. l \in Labels \ PushLabels /\ rot[s].m \in Materials
    BY <1>0, <1>14, LabelSet DEF PushLabels, Sweep, SessionInv, Rotating
  <2> QED
    BY <1>0, <1>14, <2>1, <2>3, <2>4, <2>5, LocalTypes DEF Sweep, TypeInv, TypeOK
<1>15. CASE Drop(s)
  <2>1. certs' \in [CertIds -> Certificate \cup {None}]
    BY <1>0, <1>15 DEF Drop, TypeOK
  <2>2. "sweep" \in Labels \ PushLabels /\ rot[s].m \in Materials
    BY <1>0, <1>15, LabelSet DEF PushLabels, Drop, SessionInv, Rotating
  <2> QED
    BY <1>0, <1>15, <2>1, <2>2, LocalTypes DEF Drop, TypeInv, TypeOK
<1>16. CASE Previous(s)
  <2>1. rot[s].m \in Materials /\ {"move", "commit"} \subseteq Labels \ PushLabels
    BY <1>0, <1>16, LabelSet DEF PushLabels, Previous, SessionInv, Rotating
  <2>2. CASE rot[s].prev \notin {None, rot[s].new}
    <3>1. Users(rot[s].prev) \in SUBSET HostIds
      BY <1>0 DEF Users, Live, TypeOK
    <3>2. [rot[s] EXCEPT !.users = Users(rot[s].prev), !.then = "commit"] \in Rotation
      BY <1>0, <3>1 DEF Rotation
    <3>3. rot' = [rot EXCEPT ![s] = [@ EXCEPT !.users = Users(rot[s].prev), !.then = "commit"]]
          /\ Goto(s, "move")
      BY <1>16, <2>2 DEF Previous
    <3>4. rot' \in [Sessions -> Rotation] /\ \A t \in Sessions \ {s} : rot'[t] = rot[t]
      BY <1>0, <3>2, <3>3 DEF TypeOK
    <3>5. rot'[s].m = rot[s].m /\ rot'[s].then = "commit"
      BY <1>0, <3>3 DEF TypeOK, Rotation
    <3> QED
      BY <1>0, <1>16, <2>1, <3>3, <3>4, <3>5, LocalTypes DEF Previous, TypeInv, TypeOK
  <2>3. CASE Goto(s, "commit") /\ UNCHANGED rot
    BY <1>0, <1>16, <2>1, <2>3, LocalTypes DEF Previous, TypeInv, TypeOK
  <2> QED
    BY <1>16, <2>2, <2>3 DEF Previous
<1>17. CASE Obtain(s)
  <2>1. rot[s].m \in Materials /\ {"previous", "issue"} \subseteq Labels \ PushLabels
    BY <1>0, <1>17, LabelSet DEF PushLabels, Obtain, SessionInv, Rotating
  <2>2. ASSUME NEW c \in Labelled("acme"), rot' = [rot EXCEPT ![s].new = c],
               Goto(s, "previous")
        PROVE  TypeInv'
    <3>1. c \in CertIds
      BY <1>0 DEF Labelled, Live, TypeOK
    <3>2. rot' \in [Sessions -> Rotation] /\ rot'[s].m = rot[s].m
          /\ \A t \in Sessions \ {s} : rot'[t] = rot[t]
      BY <1>0, <2>2, <3>1 DEF TypeOK, Rotation
    <3> QED
      BY <1>0, <1>17, <2>1, <2>2, <3>2, LocalTypes DEF Obtain, TypeInv, TypeOK
  <2>3. CASE Goto(s, "issue") /\ UNCHANGED rot
    BY <1>0, <1>17, <2>1, <2>3, LocalTypes DEF Obtain, TypeInv, TypeOK
  <2> QED
    BY <1>17, <2>2, <2>3 DEF Obtain
<1>18. CASE Issue(s)
  <2>1. certs' \in [CertIds -> Certificate \cup {None}] /\ nextCert' \in 1..(MaxCert + 1)
    BY <1>0, <1>18 DEF Issue, TypeOK, Certificate, CertIds, Materials
  <2>2. CASE /\ rot' = [rot EXCEPT ![s].new = nextCert]
             /\ Goto(s, "previous")
             /\ UNCHANGED <<writer, job, push, mine>>
    <3>1. rot' \in [Sessions -> Rotation] /\ rot'[s].m = rot[s].m
          /\ \A t \in Sessions \ {s} : rot'[t] = rot[t]
      BY <1>0, <1>18, <2>2 DEF Issue, TypeOK, Rotation
    <3>2. "previous" \in Labels \ PushLabels /\ rot[s].m \in Materials
      BY <1>0, <1>18, LabelSet DEF PushLabels, Issue, SessionInv, Rotating
    <3> QED
      BY <1>0, <1>18, <2>1, <2>2, <3>1, <3>2, LocalTypes DEF Issue, TypeInv, TypeOK
  <2>3. CASE End(s, FALSE)
    BY <1>0, <1>18, <2>1, <2>3, EndTypes DEF Issue, TypeInv, TypeOK
  <2> QED
    BY <1>18, <2>2, <2>3 DEF Issue
<1> QED
  BY <1>1, <1>2, <1>3, <1>4, <1>5, <1>6, <1>7, <1>8, <1>9, <1>10, <1>11, <1>12, <1>13,
     <1>14, <1>15, <1>16, <1>17, <1>18 DEF Install

(* A booking keeps the id of the row and sets columns of their types.       *)
LEMMA BookedTypes ==
    ASSUME TypeOK, NEW s \in Sessions, NEW d \in Reached(s)
    PROVE  /\ d \in Domains /\ Draft(s)[d] \in HostRow /\ Draft(s)[d].id = Loaded(s).id
           /\ Booked(s, d) \in HostRow /\ Booked(s, d).id = Draft(s)[d].id
           /\ Booked(s, d).npm \in {Draft(s)[d].npm, push[s].target}
           /\ push[s].target # Loaded(s).npm => Booked(s, d).npm = push[s].target
           /\ push[s].target = Loaded(s).npm => Booked(s, d).npm = Draft(s)[d].npm
           /\ push[s].cert # Loaded(s).cert => Booked(s, d).cert = push[s].cert
           /\ push[s].cert = Loaded(s).cert => Booked(s, d).cert = Draft(s)[d].cert
<1>1. d \in Domains /\ Draft(s)[d] # None /\ Draft(s)[d].id = Loaded(s).id
  BY DEF Reached, Live, Draft
<1>2. Draft(s)[d] \in HostRow
  BY <1>1 DEF Draft, TypeOK
<1>3. PICK h \in HostIds \cup {None}, c \in CertIds \cup {None} :
        /\ Booked(s, d) = [Draft(s)[d] EXCEPT !.npm = h, !.cert = c]
        /\ h = IF push[s].target = Loaded(s).npm THEN Draft(s)[d].npm ELSE push[s].target
        /\ c = IF push[s].cert = Loaded(s).cert THEN Draft(s)[d].cert ELSE push[s].cert
  <2>1. push[s].target \in HostIds \cup {None} /\ push[s].cert \in CertIds \cup {None}
    BY DEF TypeOK, Pushing
  <2>2. Draft(s)[d].npm \in HostIds \cup {None} /\ Draft(s)[d].cert \in CertIds \cup {None}
    BY <1>2 DEF HostRow
  <2> QED
    BY <2>1, <2>2 DEF Booked
<1>4. /\ Booked(s, d) \in HostRow /\ Booked(s, d).id = Draft(s)[d].id
      /\ Booked(s, d).npm = h /\ Booked(s, d).cert = c
  BY <1>2, <1>3 DEF HostRow
<1> QED
  BY <1>1, <1>2, <1>3, <1>4

(* The steps that push a host.                                              *)
LEMMA PushTypes ==
    ASSUME TypeInv, NEW s \in Sessions, Push(s)
    PROVE  TypeInv'
<1> USE DEF Goto, db, npm, local
<1>0. TypeOK /\ SessionInv(s) /\ MaxCert \in Nat /\ MaxHost \in Nat /\ push[s] \in Pushing
  BY EdgeAssumption DEF TypeInv, TypeOK
<1>1. CASE BeginHost(s)
  <2>1. PICK d \in Domains, op \in {"create", "update", "delete"},
             l \in {"erase", "flush"}, h \in HostIds \cup {None} :
          /\ job' = [job EXCEPT ![s].op = op]
          /\ push' = [push EXCEPT ![s] = [NoPush EXCEPT !.d = d, !.seen[d] = hosts[d],
                                                        !.target = h]]
          /\ Goto(s, l)
          /\ UNCHANGED <<db, npm, rot, mine>>
    <3>1. ASSUME NEW d \in Domains, hosts[d] # None PROVE hosts[d].npm \in HostIds \cup {None}
      BY <1>0, <3>1 DEF TypeOK, HostRow
    <3> QED
      BY <1>1, <3>1 DEF BeginHost
  <2>3. [NoPush EXCEPT !.d = d, !.seen[d] = hosts[d], !.target = h] \in Pushing
        /\ [NoPush EXCEPT !.d = d, !.seen[d] = hosts[d], !.target = h].d = d
    BY <1>0 DEF Pushing, NoPush, TypeOK
  <2>4. push' \in [Sessions -> Pushing] /\ push'[s].d \in Domains
        /\ \A t \in Sessions \ {s} : push'[t] = push[t]
    BY <1>0, <2>1, <2>3 DEF TypeOK
  <2>5. job' \in [Sessions -> Job]
    BY <1>0, <2>1 DEF TypeOK, Job
  <2>6. l \in Labels \ Rotating
    BY LabelSet DEF Rotating
  <2> QED
    BY <1>0, <2>1, <2>4, <2>5, <2>6, LocalTypes DEF TypeInv, TypeOK, Rotating
<1>2. CASE BeginResync(s)
  <2>1. job' \in [Sessions -> Job]
    BY <1>0, <1>2 DEF BeginResync, TypeOK, Job
  <2>0. [NoPush EXCEPT !.todo = Live(hosts), !.seen = hosts] \in Pushing
    BY <1>0 DEF TypeOK, Pushing, NoPush, Live
  <2>2. push' \in [Sessions -> Pushing] /\ \A t \in Sessions \ {s} : push'[t] = push[t]
    BY <1>0, <1>2, <2>0 DEF BeginResync, TypeOK
  <2>3. "next" \in Labels /\ "next" \notin PushLabels \cup Rotating
    BY LabelSet DEF PushLabels, Rotating
  <2> QED
    BY <1>0, <1>2, <2>1, <2>2, <2>3, LocalTypes DEF BeginResync, TypeInv, TypeOK
<1>3. CASE Attach(s)
  <2>1. CASE Rollback(s)
    BY <2>1, RollbackTypes
  <2>2. CASE /\ push' = [push EXCEPT ![s] = [NoPush EXCEPT !.todo = Unattached, !.seen = hosts]]
             /\ Goto(s, "next")
             /\ UNCHANGED <<db, npm, job, rot, mine>>
    <3>0. [NoPush EXCEPT !.todo = Unattached, !.seen = hosts] \in Pushing
      BY <1>0 DEF TypeOK, Pushing, NoPush, Live, Unattached
    <3>1. push' \in [Sessions -> Pushing] /\ \A t \in Sessions \ {s} : push'[t] = push[t]
      BY <1>0, <2>2, <3>0 DEF TypeOK
    <3>2. "next" \in Labels /\ "next" \notin PushLabels \cup Rotating
      BY LabelSet DEF PushLabels, Rotating
    <3> QED
      BY <1>0, <2>2, <3>1, <3>2, LocalTypes DEF TypeInv, TypeOK
  <2> QED
    BY <1>3, <2>1, <2>2 DEF Attach
<1>4. CASE NextHost(s)
  <2>1. PICK d \in push[s].todo :
          push' = [push EXCEPT ![s] = [@ EXCEPT !.todo = push[s].todo \ {d}, !.d = d]]
    BY <1>4 DEF NextHost
  <2>2. [push[s] EXCEPT !.todo = push[s].todo \ {d}, !.d = d] \in Pushing
        /\ [push[s] EXCEPT !.todo = push[s].todo \ {d}, !.d = d].d \in Domains
    BY <1>0 DEF Pushing
  <2>3. push' \in [Sessions -> Pushing] /\ push'[s].d \in Domains
        /\ \A t \in Sessions \ {s} : push'[t] = push[t]
    BY <1>0, <2>1, <2>2 DEF TypeOK
  <2>4. "find" \in Labels \ Rotating
    BY LabelSet DEF Rotating
  <2> QED
    BY <1>0, <1>4, <2>3, <2>4, LocalTypes DEF NextHost, TypeInv, TypeOK, Rotating
<1>5. CASE LastHost(s)
  <2>1. CASE Rollback(s)
    BY <2>1, RollbackTypes
  <2>2. CASE Goto(s, "commit") /\ UNCHANGED <<db, npm, local>>
    <3>1. "commit" \in Labels /\ "commit" \notin PushLabels \cup Rotating
      BY LabelSet DEF PushLabels, Rotating
    <3> QED
      BY <1>0, <2>2, <3>1, LocalTypes DEF TypeInv, TypeOK
  <2> QED
    BY <1>5, <2>1, <2>2 DEF LastHost
<1>6. CASE Insert(s) \/ Flush(s) \/ Remove(s)
  <2>1. PICK l \in {"commit", "find"} : Goto(s, l)
    BY <1>6 DEF Insert, Flush, Remove
  <2>2. writer' = s /\ UNCHANGED <<hosts, record, npm, job, rot, push>>
    BY <1>6 DEF Insert, Flush, Remove
  <2>3. push[s].d \in Domains
    BY <1>0, <1>6 DEF Insert, Flush, Remove, SessionInv, PushLabels
  <2>4. l \in Labels \ Rotating
    BY LabelSet DEF Rotating
  <2>5. CASE Insert(s)
    <3>1. PICK i \in RowIds :
            mine' = [mine EXCEPT ![s][push[s].d] = [id |-> i, npm |-> None, cert |-> None]]
      BY <2>5 DEF Insert
    <3>2. [id |-> i, npm |-> None, cert |-> None] \in HostRow
      BY DEF HostRow
    <3> QED
      BY <1>0, <2>1, <2>2, <2>3, <2>4, <3>1, <3>2, LocalTypes DEF TypeInv, TypeOK, Rotating
  <2>6. CASE Flush(s) \/ Remove(s)
    <3>0. PICK f \in [Domains -> HostRow \cup {None, Same}] : mine' = [mine EXCEPT ![s] = f]
      <4>1. CASE Flush(s)
        <5>1. [d \in Domains |-> IF d \in Reached(s) THEN hosts[d] ELSE mine[s][d]]
                \in [Domains -> HostRow \cup {None, Same}]
          BY <1>0 DEF TypeOK
        <5> QED
          BY <4>1, <5>1 DEF Flush
      <4>2. CASE Remove(s)
        <5>1. [d \in Domains |-> IF d \in Reached(s) THEN None ELSE mine[s][d]]
                \in [Domains -> HostRow \cup {None, Same}]
          BY <1>0 DEF TypeOK
        <5> QED
          BY <4>2, <5>1 DEF Remove
      <4> QED
        BY <2>6, <4>1, <4>2
    <3>1. mine' \in [Sessions -> [Domains -> HostRow \cup {None, Same}]]
      BY <1>0, <3>0 DEF TypeOK
    <3> QED
      BY <1>0, <2>1, <2>2, <2>3, <2>4, <3>1, LocalTypes DEF TypeInv, TypeOK, Rotating
  <2> QED
    BY <1>6, <2>5, <2>6
<1>7. CASE Find(s)
  <2>0. PICK h \in HostIds \cup {None} :
          /\ Found(push[s].d, h)
          /\ push' = [push EXCEPT ![s] = [@ EXCEPT !.cert = record.id, !.before = h,
                         !.snapshot = IF h = None THEN None ELSE proxies[h].cert]]
    BY <1>7 DEF Find
  <2> DEFINE c == IF h = None THEN None ELSE proxies[h].cert
  <2>1. /\ Found(push[s].d, h)
        /\ push' = [push EXCEPT ![s] = [@ EXCEPT !.cert = record.id, !.before = h,
                                                 !.snapshot = c]]
    BY <2>0
  <2>2. c \in CertIds \cup {None}
    BY <1>0, <2>1 DEF TypeOK, Found, ProxyOf, Live, Proxy
  <2> HIDE DEF c
  <2>3. [push[s] EXCEPT !.cert = record.id, !.before = h, !.snapshot = c] \in Pushing
        /\ [push[s] EXCEPT !.cert = record.id, !.before = h, !.snapshot = c].d = push[s].d
    BY <1>0, <2>2 DEF Pushing, TypeOK
  <2>4. push' \in [Sessions -> Pushing] /\ push'[s].d = push[s].d
        /\ \A t \in Sessions \ {s} : push'[t] = push[t]
    BY <1>0, <2>1, <2>3 DEF TypeOK
  <2>5. "lookup" \in Labels \ Rotating /\ push[s].d \in Domains
    BY <1>0, <1>7, LabelSet DEF Rotating, SessionInv, PushLabels, Find
  <2> QED
    BY <1>0, <1>7, <2>4, <2>5, LocalTypes DEF Find, TypeInv, TypeOK, Rotating
<1>8. CASE Lookup(s)
  <2>1. push' \in [Sessions -> Pushing] /\ push'[s].d = push[s].d
        /\ \A t \in Sessions \ {s} : push'[t] = push[t]
    <3>1. PICK h \in HostIds \cup {None} : push' = [push EXCEPT ![s].target = h]
      BY <1>8 DEF Lookup
    <3> QED
      BY <1>0, <3>1 DEF TypeOK, Pushing
  <2>2. "write" \in Labels \ Rotating /\ push[s].d \in Domains
    BY <1>0, <1>8, LabelSet DEF Rotating, SessionInv, PushLabels, Lookup
  <2> QED
    BY <1>0, <1>8, <2>1, <2>2, LocalTypes DEF Lookup, TypeInv, TypeOK, Rotating
<1>9. CASE Put(s)
  <2>1. proxies' \in [HostIds -> Proxy \cup {None}]
    BY <1>0, <1>9 DEF Put, TypeOK, Proxy, Live, Pushing
  <2>2. "verify" \in Labels \ Rotating /\ push[s].d \in Domains
    BY <1>0, <1>9, LabelSet DEF Rotating, SessionInv, PushLabels, Put
  <2> QED
    BY <1>0, <1>9, <2>1, <2>2, LocalTypes DEF Put, TypeInv, TypeOK, Rotating
<1>10. CASE Create(s)
  <2>1. push[s].d \in Domains /\ nextHost \in HostIds
    BY <1>0, <1>10 DEF Create, SessionInv, PushLabels
  <2>2. proxies' \in [HostIds -> Proxy \cup {None}] /\ nextHost' \in 1..(MaxHost + 1)
    BY <1>0, <1>10, <2>1 DEF Create, TypeOK, Proxy, Pushing, HostIds
  <2>3. push' \in [Sessions -> Pushing] /\ push'[s].d = push[s].d
        /\ \A t \in Sessions \ {s} : push'[t] = push[t]
    BY <1>0, <1>10, <2>1 DEF Create, TypeOK, Pushing
  <2>4. "verify" \in Labels \ Rotating
    BY LabelSet DEF Rotating
  <2> QED
    BY <1>0, <1>10, <2>1, <2>2, <2>3, <2>4, LocalTypes DEF Create, TypeInv, TypeOK, Rotating
<1>11. CASE WriteRefused(s)
  BY <1>0, <1>11, PushFailsTypes DEF WriteRefused, TypeInv, TypeOK
<1>12. CASE Accept(s) \/ Reject(s)
  <2>1. PICK l \in {"book", "undo"} : Goto(s, l) /\ UNCHANGED <<db, npm, local>>
    BY <1>12 DEF Accept, Reject
  <2>2. l \in Labels \ Rotating /\ push[s].d \in Domains
    BY <1>0, <1>12, LabelSet DEF Rotating, SessionInv, PushLabels, Accept, Reject
  <2> QED
    BY <1>0, <2>1, <2>2, LocalTypes DEF TypeInv, TypeOK, Rotating
<1>13. CASE Undo(s)
  <2>1. push[s].snapshot \in CertIds \cup {None}
    BY <1>0 DEF Pushing
  <2>2. ASSUME NEW h \in HostIds PROVE proxies'[h] \in Proxy \cup {None}
    BY <1>0, <1>13, <2>1 DEF Undo, TypeOK, Proxy
  <2>3. proxies' \in [HostIds -> Proxy \cup {None}]
    BY <1>13, <2>2 DEF Undo
  <2> QED
    BY <1>0, <1>13, <2>3, PushFailsTypes DEF Undo, TypeInv, TypeOK
<1>14. CASE Book(s)
  <2>1. ASSUME NEW d \in Reached(s) PROVE Booked(s, d) \in HostRow
    BY <1>0, BookedTypes
  <2>2. mine' \in [Sessions -> [Domains -> HostRow \cup {None, Same}]]
    <3>1. CASE mine' = [mine EXCEPT ![s] =
                   [d \in Domains |-> IF d \in Reached(s) THEN Booked(s, d) ELSE @[d]]]
      BY <1>0, <2>1, <3>1 DEF TypeOK
    <3> QED
      BY <1>0, <1>14, <3>1 DEF Book, TypeOK
  <2>5. writer' \in Sessions \cup {None}
    BY <1>0, <1>14 DEF Book, TypeOK
  <2>3. PICK l \in {"commit", "next"} : Goto(s, l)
    BY <1>14 DEF Book
  <2>4. l \in Labels /\ l \notin PushLabels \cup Rotating
    BY LabelSet DEF PushLabels, Rotating
  <2> QED
    BY <1>0, <1>14, <2>2, <2>3, <2>4, <2>5, LocalTypes DEF Book, TypeInv, TypeOK
<1>16. CASE Unchanged(s)
  <2>1. "find" \in Labels \ Rotating /\ push[s].d \in Domains
    BY <1>0, <1>16, LabelSet DEF Rotating, SessionInv, PushLabels, Unchanged
  <2> QED
    BY <1>0, <1>16, <2>1, LocalTypes DEF Unchanged, TypeInv, TypeOK, Rotating
<1>15. CASE Erase(s)
  <2>1. proxies' \in [HostIds -> Proxy \cup {None}]
    BY <1>0, <1>15 DEF Erase, TypeOK
  <2>2. "flush" \in Labels \ Rotating /\ push[s].d \in Domains
    BY <1>0, <1>15, LabelSet DEF Rotating, SessionInv, PushLabels, Erase
  <2> QED
    BY <1>0, <1>15, <2>1, <2>2, LocalTypes DEF Erase, TypeInv, TypeOK, Rotating
<1> QED
  BY <1>1, <1>2, <1>3, <1>4, <1>5, <1>6, <1>7, <1>8, <1>9, <1>10, <1>11, <1>12, <1>13,
     <1>14, <1>15, <1>16 DEF Push

(* The end of a session, by commit, by rollback or by a refused request.    *)
LEMMA FinishTypes ==
    ASSUME TypeInv, NEW s \in Sessions, Finish(s)
    PROVE  TypeInv'
<1> USE DEF Goto, db, npm, local
<1>0. TypeOK
  BY DEF TypeInv
<1>1. CASE Commit(s)
  <2>1. hosts' \in [Domains -> HostRow \cup {None}]
    BY <1>0, <1>1 DEF Commit, Draft, TypeOK
  <2>2. record' \in [id : CertIds \cup {None}, of : Materials \cup {None}]
    BY <1>0, <1>1 DEF Commit, TypeOK, Rotation
  <2>3. End(s, TRUE) /\ UNCHANGED npm
    BY <1>1 DEF Commit
  <2> QED
    BY <1>0, <2>1, <2>2, <2>3, EndTypes DEF TypeInv, TypeOK
<1>2. CASE Done(s)
  <2>1. job' \in [Sessions -> Job] /\ rot' \in [Sessions -> Rotation]
        /\ \A t \in Sessions \ {s} : rot'[t] = rot[t]
    BY <1>0, <1>2, StartTypes DEF Done, TypeOK
  <2>2. "idle" \in Labels /\ "idle" \notin PushLabels \cup Rotating
    BY LabelSet DEF PushLabels, Rotating
  <2> QED
    BY <1>0, <1>2, <2>1, <2>2, LocalTypes DEF Done, TypeInv, TypeOK
<1>3. CASE Rejected(s) \/ Refused(s)
  BY <1>3, RollbackTypes DEF Rejected, Refused
<1>4. CASE RequestFails(s)
  <2>1. CASE Rollback(s)
    BY <2>1, RollbackTypes
  <2>2. CASE PushFails(s) /\ UNCHANGED npm
    BY <1>0, <2>2, PushFailsTypes DEF TypeInv, TypeOK
  <2> QED
    BY <1>4, <2>1, <2>2 DEF RequestFails
<1> QED
  BY <1>1, <1>2, <1>3, <1>4 DEF Finish

(* A process is killed: its sessions start over.                            *)
LEMMA KillTypes ==
    ASSUME TypeInv, NEW S \in SUBSET Sessions, Kill(S)
    PROVE  TypeInv'
<1>1. /\ push' \in [Sessions -> Pushing]
      /\ mine' \in [Sessions -> [Domains -> HostRow \cup {None, Same}]]
      /\ writer' \in Sessions \cup {None}
      /\ \A t \in Sessions \ S : push'[t] = push[t]
  BY CloseTypes DEF Kill
<1>2. /\ pc' = [s \in Sessions |-> IF s \in S THEN "idle" ELSE pc[s]]
      /\ rot' = [s \in Sessions |-> IF s \in S THEN NoRotation ELSE rot[s]]
      /\ job' = [s \in Sessions |-> IF s \in S THEN NoJob ELSE job[s]]
      /\ UNCHANGED <<hosts, record, npm>>
  BY DEF Kill
<1>3. /\ pc' \in [Sessions -> Labels] /\ rot' \in [Sessions -> Rotation]
      /\ job' \in [Sessions -> Job]
  BY <1>2, StartTypes, LabelSet DEF TypeInv, TypeOK
<1>4. ASSUME NEW t \in Sessions PROVE SessionInv(t)'
  BY <1>1, <1>2, <1>4 DEF TypeInv, SessionInv, PushLabels, Rotating
<1> QED
  BY <1>1, <1>2, <1>3, <1>4 DEF TypeInv, TypeOK, npm

(* NPM is reset.                                                            *)
LEMMA ResetTypes == TypeInv /\ Reset => TypeInv'
<1> SUFFICES ASSUME TypeInv, Reset PROVE TypeInv'
  OBVIOUS
<1>1. /\ certs' \in [CertIds -> Certificate \cup {None}] /\ nextCert' \in 1..(MaxCert + 1)
      /\ proxies' \in [HostIds -> Proxy \cup {None}] /\ nextHost' \in 1..(MaxHost + 1)
  BY EdgeAssumption DEF Reset
<1> QED
  BY <1>1 DEF Reset, TypeInv, TypeOK, SessionInv, db, local

(* The type invariant is inductive: every step of Next keeps it.           *)
LEMMA NextTypes == TypeInv /\ [Next]_vars => TypeInv'
<1> SUFFICES ASSUME TypeInv, [Next]_vars PROVE TypeInv'
  OBVIOUS
<1>1. ASSUME NEW s \in Sessions, Install(s) \/ Push(s) \/ Finish(s) PROVE TypeInv'
  BY <1>1, InstallTypes, PushTypes, FinishTypes
<1>2. ASSUME NEW s \in Commands, Kill({s}) PROVE TypeInv'
  BY <1>2, KillTypes DEF Sessions
<1>3. CASE Kill(Requests)
  BY <1>3, KillTypes DEF Sessions
<1>4. CASE Reset
  BY <1>4, ResetTypes
<1>5. CASE UNCHANGED vars
  BY <1>5 DEF vars, db, npm, local, TypeInv, TypeOK, SessionInv
<1> QED
  BY <1>1, <1>2, <1>3, <1>4, <1>5 DEF Next

(* The types, and what each label of a session implies about them.         *)
THEOREM TypesHold == Spec => []TypeInv
  BY InitTypes, NextTypes, PTL DEF Spec

(* Every variable of Edge keeps its type, whatever fails.                  *)
THEOREM EdgeTypeCorrect == Spec => []TypeOK
<1>1. TypeInv => TypeOK
  BY DEF TypeInv
<1> QED
  BY <1>1, TypesHold, PTL

-----------------------------------------------------------------------------
(* Identity of rows.  A session reaches a row by the id it loaded, and the  *)
(* id of the last row is given again once that row is deleted.  As long as  *)
(* no deletion runs beside another session, the row of that id is still the *)
(* one that was loaded.                                                     *)

NoDeleteBeside == "delete" \in Ops => ~Overlap

\* Labels at which a session works on a row that is inserted, or was loaded.
InPush == {"find", "lookup", "write", "verify", "undo", "book"}

Untouched(s) == \A d \in Domains : mine[s][d] = Same

DistinctIds(rows) ==
    \A d, e \in Domains : rows[d] # None /\ rows[e] # None /\ d # e => rows[d].id # rows[e].id

\* What a session changed is under the lock; ...
LockInv(s) ==
    /\ pc[s] \in {"idle", "attach", "done"} => push[s] = NoPush /\ Untouched(s)
    /\ ~Untouched(s) => writer = s
    /\ pc[s] \in {"erase", "flush"} => Untouched(s)
    /\ job[s].op = "delete" => "delete" \in Ops
    /\ \A d \in Domains : mine[s][d] = None => job[s].op = "delete"

\* ... the rows it loaded and changed have the ids of the table; ...
IdInv(s) ==
    /\ \A d \in Domains : push[s].seen[d] # None =>
           hosts[d] # None /\ hosts[d].id = push[s].seen[d].id
    /\ \A d \in Domains : mine[s][d] \notin {None, Same} /\ hosts[d] # None =>
           mine[s][d].id = hosts[d].id
    /\ DistinctIds(Draft(s))

\* ... and the row of the host it pushes is one of them.
WorkInv(s) ==
    /\ pc[s] \in InPush => job[s].op \in {"create", "update", "attach", "resync"}
    /\ pc[s] = "attach" => job[s].op = "attach"
    /\ pc[s] = "next" => job[s].op \in {"attach", "resync"}
    /\ pc[s] \in InPush /\ job[s].op = "create" => mine[s][push[s].d] \notin {None, Same}
    /\ pc[s] \in PushLabels /\ job[s].op # "create" => push[s].seen[push[s].d] # None
    /\ \A d \in push[s].todo : push[s].seen[d] # None

SessionRows(s) == LockInv(s) /\ IdInv(s) /\ WorkInv(s)

DeletesAlone == \A s, t \in Sessions :
            "delete" \in Ops /\ pc[s] # "idle" /\ pc[t] # "idle" => s = t

RowInv ==
    /\ DeletesAlone
    /\ DistinctIds(hosts)
    /\ \A s \in Sessions : SessionRows(s)

(* The row that the statements of a session reach is the one it works on.   *)
LEMMA ReachesItsRow ==
    ASSUME TypeInv, RowInv, NEW s \in Sessions,
           pc[s] \in InPush \/ (pc[s] = "flush" /\ job[s].op # "create")
    PROVE  Reached(s) = {push[s].d}
<1>1. /\ TypeOK /\ push[s].d \in Domains /\ LockInv(s) /\ IdInv(s) /\ WorkInv(s)
  BY DEF TypeInv, SessionInv, PushLabels, InPush, RowInv, SessionRows
<1> DEFINE d == push[s].d
<1>2. Draft(s)[d] # None /\ Draft(s)[d].id = Loaded(s).id
  <2>1. CASE job[s].op = "create"
    BY <1>1, <2>1 DEF WorkInv, Loaded, Draft
  <2>2. CASE job[s].op # "create"
    <3>1. push[s].seen[d] # None /\ Loaded(s) = push[s].seen[d]
      BY <1>1, <2>2 DEF WorkInv, Loaded, InPush, PushLabels
    <3>2. hosts[d] # None /\ hosts[d].id = push[s].seen[d].id
      BY <1>1, <3>1 DEF IdInv
    <3>3. mine[s][d] # None
      BY <1>1, EdgeAssumption DEF LockInv, WorkInv, Untouched
    <3>4. mine[s][d] # Same => mine[s][d].id = hosts[d].id
      BY <1>1, <3>2, <3>3 DEF IdInv
    <3> QED
      BY <1>1, <3>1, <3>2, <3>3, <3>4 DEF Draft
  <2> QED
    BY <2>1, <2>2
<1>3. ASSUME NEW e \in Reached(s) PROVE e = d
  <2>1. e \in Domains /\ Draft(s)[e] # None /\ Draft(s)[e].id = Loaded(s).id
    BY DEF Reached, Live, Draft
  <2> QED
    BY <1>1, <1>2, <2>1 DEF IdInv, DistinctIds
<1>4. d \in Reached(s)
  BY <1>1, <1>2 DEF Reached, Live, Draft
<1> QED
  BY <1>3, <1>4

(* A step of s leaves the other sessions as they were.                     *)
OthersSame(s) ==
    \A t \in Sessions \ {s} :
        /\ pc'[t] = pc[t] /\ job'[t] = job[t] /\ push'[t] = push[t] /\ mine'[t] = mine[t]
        /\ writer = t => writer' = t

(* A step that leaves the table alone.                                     *)
LEMMA RowStep ==
    ASSUME TypeInv, RowInv, NEW s \in Sessions, hosts' = hosts, OthersSame(s),
           NoDeleteBeside, pc[s] # "idle" \/ Free(s) \/ pc'[s] = "idle", SessionRows(s)'
    PROVE  RowInv'
<1>1. ASSUME NEW t \in Sessions, t # s PROVE SessionRows(t)'
  <2>1. /\ pc'[t] = pc[t] /\ job'[t] = job[t] /\ push'[t] = push[t] /\ mine'[t] = mine[t]
        /\ writer = t => writer' = t
    BY <1>1 DEF OthersSame
  <2>2. SessionRows(t)
    BY DEF RowInv
  <2>3. Draft(t)' = Draft(t)
    BY <2>1 DEF Draft
  <2>4. LockInv(t)'
    BY <2>1, <2>2 DEF SessionRows, LockInv, Untouched
  <2>5. IdInv(t)'
    BY <2>1, <2>2, <2>3 DEF SessionRows, IdInv, DistinctIds
  <2>6. WorkInv(t)'
    BY <2>1, <2>2 DEF SessionRows, WorkInv
  <2> QED
    BY <2>4, <2>5, <2>6 DEF SessionRows
<1>2. DeletesAlone'
  BY DEF RowInv, DeletesAlone, OthersSame, NoDeleteBeside, Free
<1>3. DistinctIds(hosts)'
  BY DEF RowInv, DistinctIds
<1> QED
  BY <1>1, <1>2, <1>3 DEF RowInv

(* A step of s that changes no row, and reads none.                         *)
LEMMA QuietRows ==
    ASSUME TypeInv, RowInv, NoDeleteBeside, NEW s \in Sessions, NEW l, Goto(s, l),
           pc[s] # "idle", l \notin {"idle", "attach", "done"}, UNCHANGED <<hosts, writer, mine>>,
           \A t \in Sessions \ {s} : job'[t] = job[t] /\ push'[t] = push[t],
           job'[s].op = job[s].op, push'[s].seen = push[s].seen,
           push'[s].todo \subseteq push[s].todo,
           l \in {"erase", "flush"} => pc[s] \in {"erase", "flush"},
           l \in PushLabels => pc[s] \in PushLabels /\ push'[s].d = push[s].d,
           l \in InPush => pc[s] \in InPush \/ job[s].op = "update",
           l = "next" => job[s].op \in {"attach", "resync"}
    PROVE  RowInv'
<1>1. pc' = [pc EXCEPT ![s] = l] /\ pc \in [Sessions -> Labels]
  BY DEF Goto, TypeInv, TypeOK
<1>2. OthersSame(s) /\ pc'[s] = l
  BY <1>1 DEF OthersSame
<1>3. SessionRows(s) /\ mine'[s] = mine[s]
  BY DEF RowInv
<1>4. LockInv(s)'
  BY <1>2, <1>3 DEF SessionRows, LockInv, Untouched
<1>5. IdInv(s)'
  <2>1. Draft(s)' = Draft(s)
    BY <1>3 DEF Draft
  <2> QED
    BY <1>3, <2>1 DEF SessionRows, IdInv, DistinctIds
<1>6. WorkInv(s)'
  BY <1>2, <1>3 DEF SessionRows, WorkInv, InPush, PushLabels
<1> QED
  BY <1>2, <1>4, <1>5, <1>6, RowStep DEF SessionRows

(* The end of a session, once what it leaves in the table is known.        *)
LEMMA EndOwnRows ==
    ASSUME TypeInv, RowInv, NEW s \in Sessions, NEW good, End(s, good), DistinctIds(hosts)'
    PROVE  /\ SessionRows(s)' /\ OthersSame(s)
           /\ mine'[s] = [d \in Domains |-> Same] /\ push'[s] = NoPush
<1>1. /\ push' = [t \in Sessions |-> IF t = s THEN NoPush ELSE push[t]]
      /\ mine' = [t \in Sessions |-> IF t = s THEN [d \in Domains |-> Same] ELSE mine[t]]
      /\ writer' = IF writer = s THEN None ELSE writer
  BY DEF End, Close
<1>2. /\ pc'[s] \in {"attach", "done", "idle"}
      /\ \A t \in Sessions \ {s} : pc'[t] = pc[t] /\ job'[t] = job[t]
  BY DEF End, Goto, TypeInv, TypeOK
<1>3. job'[s].op # "delete"
  BY DEF End, TypeInv, TypeOK, Job, NoJob
<1>4. OthersSame(s)
  BY <1>1, <1>2 DEF OthersSame
<1>5. mine'[s] = [d \in Domains |-> Same] /\ push'[s] = NoPush
  BY <1>1
<1>6. LockInv(s)'
  BY <1>2, <1>3, <1>5, EdgeAssumption DEF LockInv, Untouched
<1>7. IdInv(s)'
  <2>1. Draft(s)' = [d \in Domains |-> hosts'[d]]
    BY <1>5 DEF Draft
  <2>2. \A d \in Domains : push'[s].seen[d] = None
    BY <1>5 DEF NoPush
  <2> QED
    BY <1>5, <2>1, <2>2 DEF IdInv, DistinctIds
<1>8. WorkInv(s)'
  <2>1. pc'[s] = "attach" => job'[s].op = "attach"
    BY DEF End, Goto, TypeInv, TypeOK
  <2> QED
    BY <1>2, <1>5, <2>1 DEF WorkInv, InPush, PushLabels, NoPush
<1> QED
  BY <1>4, <1>5, <1>6, <1>7, <1>8 DEF SessionRows

(* A session ends and leaves the table alone.                              *)
LEMMA EndRows ==
    ASSUME TypeInv, RowInv, NoDeleteBeside, NEW s \in Sessions, NEW good, End(s, good),
           hosts' = hosts, pc[s] # "idle"
    PROVE  RowInv'
<1>1. DistinctIds(hosts)'
  BY DEF RowInv, DistinctIds
<1> QED
  BY <1>1, EndOwnRows, RowStep

(* A rollback.                                                             *)
LEMMA RollbackRows ==
    ASSUME TypeInv, RowInv, NoDeleteBeside, NEW s \in Sessions, Rollback(s), pc[s] # "idle"
    PROVE  RowInv'
  BY EndRows DEF Rollback

(* A push that fails touches no row, or ends the session.                  *)
LEMMA PushFailsRows ==
    ASSUME TypeInv, RowInv, NoDeleteBeside, NEW s \in Sessions, PushFails(s), pc[s] # "idle"
    PROVE  RowInv'
<1>0. hosts' = hosts /\ TypeOK
  BY DEF PushFails, TypeInv
<1>1. ASSUME Goto(s, "commit"), UNCHANGED <<writer, local>> PROVE RowInv'
  BY <1>0, <1>1, QuietRows DEF local, PushLabels, InPush
<1>2. ASSUME End(s, FALSE) PROVE RowInv'
  BY <1>0, <1>2, EndRows
<1>3. ASSUME job[s].op \in {"attach", "resync"}, Goto(s, "next"),
             job' = [job EXCEPT ![s].failed = TRUE], UNCHANGED <<writer, rot, push, mine>>
      PROVE  RowInv'
  <2>1. job'[s].op = job[s].op /\ \A t \in Sessions \ {s} : job'[t] = job[t]
    BY <1>0, <1>3 DEF TypeOK, Job
  <2> QED
    BY <1>0, <1>3, <2>1, QuietRows DEF PushLabels, InPush
<1> QED
  BY <1>1, <1>2, <1>3 DEF PushFails

(* The steps that install a certificate touch no row.                      *)
LEMMA InstallIds ==
    ASSUME TypeInv, RowInv, NoDeleteBeside, NEW s \in Sessions, Install(s)
    PROVE  RowInv'
<1> USE DEF db, npm, local
<1>0. TypeOK
  BY DEF TypeInv
<1>1. CASE BeginInstall(s)
  <2>1. PICK l \in {"issue", "obtain", "check", "settled", "supersede"},
             op \in {"install", "provision"} :
          Goto(s, l) /\ job' = [job EXCEPT ![s].op = op]
    BY <1>1 DEF BeginInstall
  <2>2. UNCHANGED <<hosts, writer, push, mine>> /\ Free(s) /\ pc[s] = "idle"
    BY <1>1 DEF BeginInstall, Free
  <2>3. pc'[s] = l /\ job'[s].op = op /\ OthersSame(s)
    BY <1>0, <2>1, <2>2 DEF OthersSame, Goto, TypeOK, Job
  <2>4. SessionRows(s) /\ push[s] = NoPush /\ Untouched(s)
    BY <2>2 DEF RowInv, SessionRows, LockInv
  <2>5. LockInv(s)'
    BY <2>2, <2>3, <2>4, EdgeAssumption DEF LockInv, Untouched
  <2>6. IdInv(s)'
    <3>1. Draft(s)' = Draft(s)
      BY <2>2 DEF Draft
    <3> QED
      BY <2>2, <2>4, <3>1 DEF SessionRows, IdInv, DistinctIds
  <2>7. WorkInv(s)'
    BY <2>2, <2>3, <2>4 DEF WorkInv, InPush, PushLabels, NoPush
  <2> QED
    BY <2>2, <2>3, <2>5, <2>6, <2>7, RowStep DEF SessionRows
<1>2. CASE Check(s) \/ Supersede(s) \/ Post(s) \/ Upload(s) \/ UploadRefused(s) \/ Repoint(s)
           \/ Repointed(s) \/ Sweep(s) \/ Drop(s) \/ Swept(s) \/ Previous(s) \/ Obtain(s)
  <2>1. PICK l \in {"settled", "supersede", "post", "upload", "repoint", "discard", "move",
                    "sweep", "drop", "previous", "commit", "issue"} : Goto(s, l)
    BY <1>2 DEF Check, Supersede, Post, Upload, UploadRefused, Repoint, Repointed, Sweep, Drop,
                Swept, Previous, Obtain
  <2>2. UNCHANGED <<hosts, writer, mine, push, job>> /\ pc[s] # "idle"
    BY <1>2 DEF Check, Supersede, Post, Upload, UploadRefused, Repoint, Repointed, Sweep, Drop,
                Swept, Previous, Obtain
  <2> QED
    BY <2>1, <2>2, QuietRows DEF PushLabels, InPush
<1>3. CASE Settled(s) \/ Discard(s)
  BY <1>3, EndRows DEF Settled, Discard
<1>4. CASE Move(s) \/ MoveRefused(s)
  <2>1. pc[s] = "move" /\ UNCHANGED <<hosts, writer, pc, push, mine>>
    BY <1>4 DEF Move, MoveRefused
  <2>2. job'[s].op = job[s].op /\ \A t \in Sessions \ {s} : job'[t] = job[t]
    BY <1>0, <1>4 DEF Move, MoveRefused, TypeOK, Job
  <2>3. Goto(s, "move")
    BY <1>0, <2>1 DEF Goto, TypeOK
  <2> QED
    BY <2>1, <2>2, <2>3, QuietRows DEF PushLabels, InPush
<1>5. CASE Moved(s)
  <2>1. pc[s] = "move" /\ rot[s].then \in {"none", "repoint", "commit"}
    BY <1>0, <1>5 DEF Moved, TypeOK, Rotation
  <2>2. CASE Rollback(s)
    BY <2>1, <2>2, RollbackRows
  <2>3. CASE Goto(s, rot[s].then) /\ UNCHANGED <<db, npm, local>>
    BY <2>1, <2>3, QuietRows DEF PushLabels, InPush
  <2> QED
    BY <1>5, <2>2, <2>3 DEF Moved
<1>6. CASE Issue(s)
  <2>1. pc[s] = "issue" /\ hosts' = hosts
    BY <1>6 DEF Issue
  <2>2. CASE Goto(s, "previous") /\ UNCHANGED <<writer, job, push, mine>>
    BY <2>1, <2>2, QuietRows DEF PushLabels, InPush
  <2>3. CASE End(s, FALSE)
    BY <2>1, <2>3, EndRows
  <2> QED
    BY <1>6, <2>2, <2>3 DEF Issue
<1> QED
  BY <1>1, <1>2, <1>3, <1>4, <1>5, <1>6 DEF Install

(* What an INSERT, an UPDATE or a DELETE leaves of the rows of its session. *)
LEMMA Statement ==
    ASSUME TypeInv, RowInv, NEW s \in Sessions, Insert(s) \/ Flush(s) \/ Remove(s) \/ Book(s)
    PROVE  /\ \A t \in Sessions \ {s} : mine'[t] = mine[t] /\ (writer = t => writer' = t)
           /\ ~Untouched(s)' => writer' = s
           /\ \A d \in Domains : mine'[s][d] = None => job[s].op = "delete"
           /\ \A d \in Domains : mine'[s][d] \notin {None, Same} /\ hosts[d] # None =>
                  mine'[s][d].id = hosts[d].id
           /\ DistinctIds(Draft(s))'
           /\ Insert(s) => mine'[s][push[s].d] \notin {None, Same}
<1>0. /\ TypeOK /\ SessionInv(s) /\ LockInv(s) /\ IdInv(s) /\ WorkInv(s)
      /\ None # Same /\ None \notin HostRow /\ Same \notin HostRow /\ None \notin Sessions
  BY EdgeAssumption DEF TypeInv, RowInv, SessionRows
<1>1. hosts' = hosts
  BY DEF Insert, Flush, Remove, Book
<1>2. Draft(s)' = [d \in Domains |-> IF mine'[s][d] = Same THEN hosts[d] ELSE mine'[s][d]]
  BY <1>1 DEF Draft
<1>3. CASE Insert(s)
  <2>1. PICK i \in RowIds :
          /\ NextRow(i)
          /\ mine' = [mine EXCEPT ![s][push[s].d] = [id |-> i, npm |-> None, cert |-> None]]
    BY <1>3 DEF Insert
  <2>2. /\ hosts[push[s].d] = None /\ writer' = s /\ writer \in {None, s} /\ pc[s] = "flush"
    BY <1>3 DEF Insert, Writable
  <2>3. push[s].d \in Domains /\ Untouched(s)
    BY <1>0, <2>2 DEF SessionInv, PushLabels, LockInv
  <2>4. /\ \A t \in Sessions \ {s} : mine'[t] = mine[t]
        /\ mine'[s][push[s].d] = [id |-> i, npm |-> None, cert |-> None]
        /\ \A d \in Domains \ {push[s].d} : mine'[s][d] = Same
    BY <1>0, <2>1, <2>3 DEF TypeOK, Untouched
  <2>5. [id |-> i, npm |-> None, cert |-> None] \in HostRow
    BY DEF HostRow
  <2>6. DistinctIds(Draft(s))'
    <3>1. Draft(s)'[push[s].d].id = i
      BY <1>0, <1>2, <2>3, <2>4, <2>5
    <3>2. ASSUME NEW d \in Domains, d # push[s].d, Draft(s)'[d] # None
          PROVE  Draft(s)'[d].id = hosts[d].id /\ hosts[d] # None /\ hosts[d].id # i
      <4>1. Draft(s)'[d] = hosts[d]
        BY <1>2, <2>4, <3>2
      <4>2. hosts[d] \in HostRow /\ d \in Live(hosts)
        BY <1>0, <3>2, <4>1 DEF TypeOK, Live
      <4>3. hosts[d].id < i /\ hosts[d].id \in Nat /\ i \in Nat
        BY <2>1, <4>2, EdgeAssumption DEF NextRow, HostRow, RowIds
      <4> QED
        BY <3>2, <4>1, <4>3
    <3>3. DistinctIds(hosts)
      BY DEF RowInv
    <3>4. ASSUME NEW d \in Domains, NEW e \in Domains, Draft(s)'[d] # None,
                 Draft(s)'[e] # None, d # e
          PROVE  Draft(s)'[d].id # Draft(s)'[e].id
      BY <3>1, <3>2, <3>3, <3>4 DEF DistinctIds
    <3> QED
      BY <3>4 DEF DistinctIds
  <2> QED
    BY <1>0, <2>2, <2>3, <2>4, <2>5, <2>6
<1>4. CASE Flush(s) \/ Remove(s) \/ Book(s)
  <2>1. PICK f : mine' = [mine EXCEPT ![s] = f]
    <3>1. CASE mine' = mine
      <4>1. mine' = [mine EXCEPT ![s] = mine[s]]
        BY <1>0, <3>1 DEF TypeOK
      <4> QED
        BY <4>1
    <3> QED
      BY <1>4, <3>1 DEF Flush, Remove, Book
  <2>2. mine'[s] = f /\ \A t \in Sessions \ {s} : mine'[t] = mine[t]
    BY <1>0, <2>1 DEF TypeOK
  <2>3. /\ \/ writer' = s /\ writer \in {None, s}
           \/ writer' = writer /\ mine' = mine
        /\ ~Insert(s)
    BY <1>4 DEF Flush, Remove, Book, Writable, Insert
  <2>4. ASSUME NEW d \in Domains
        PROVE  /\ f[d] = None => job[s].op = "delete"
               /\ f[d] \notin {None, Same} /\ hosts[d] # None => f[d].id = hosts[d].id
               /\ Draft(s)'[d] # None => Draft(s)[d] # None /\ Draft(s)'[d].id = Draft(s)[d].id
    <3>0. /\ hosts[d] # Same
          /\ Draft(s)[d] = IF mine[s][d] = Same THEN hosts[d] ELSE mine[s][d]
          /\ Draft(s)'[d] = IF f[d] = Same THEN hosts[d] ELSE f[d]
      BY <1>0, <1>2, <2>2 DEF Draft, TypeOK
    <3>1. CASE f[d] = mine[s][d]
      BY <1>0, <3>0, <3>1 DEF LockInv, IdInv
    <3>2. CASE Flush(s) /\ d \in Reached(s)
      <4>1. f[d] = hosts[d]
        BY <1>0, <2>2, <3>2 DEF Flush, TypeOK
      <4>2. mine[s][d] = Same
        BY <1>0, <3>2 DEF Flush, LockInv, Untouched
      <4>3. Draft(s)[d] # None
        BY <3>2 DEF Reached, Live
      <4> QED
        BY <3>0, <4>1, <4>2, <4>3
    <3>3. CASE Remove(s) /\ d \in Reached(s)
      <4>1. f[d] = None /\ job[s].op = "delete"
        BY <1>0, <2>2, <3>3 DEF Remove, TypeOK
      <4> QED
        BY <1>0, <3>0, <4>1
    <3>4. CASE Book(s) /\ d \in Reached(s) /\ f[d] # mine[s][d]
      <4>1. f[d] = Booked(s, d)
        BY <1>0, <2>2, <3>4 DEF Book, TypeOK
      <4>2. /\ f[d] \in HostRow /\ f[d].id = Draft(s)[d].id
            /\ Draft(s)[d] \in HostRow
        BY <1>0, <3>4, <4>1, BookedTypes
      <4>3. hosts[d] # None => Draft(s)[d].id = hosts[d].id
        BY <1>0, <3>0, <4>2 DEF IdInv
      <4> QED
        BY <1>0, <3>0, <4>2, <4>3
    <3>5. Reached(s) \subseteq Domains
      BY DEF Reached, Live, Draft
    <3>6. ASSUME d \notin Reached(s) PROVE f[d] = mine[s][d]
      BY <1>0, <1>4, <2>2, <3>6 DEF Flush, Remove, Book, TypeOK
    <3> QED
      BY <1>4, <3>1, <3>2, <3>3, <3>4, <3>6
  <2>5. DistinctIds(Draft(s))'
    BY <1>0, <2>4 DEF IdInv, DistinctIds
  <2> QED
    BY <1>0, <2>2, <2>3, <2>4, <2>5 DEF LockInv, Untouched
<1> QED
  BY <1>3, <1>4

(* The steps that push a host: an inserted row has an id of its own, and   *)
(* every other statement keeps the ids.                                    *)
LEMMA PushIds ==
    ASSUME TypeInv, RowInv, NoDeleteBeside, NEW s \in Sessions, Push(s)
    PROVE  RowInv'
<1> USE DEF db, npm, local
<1>0. /\ TypeOK /\ SessionInv(s) /\ SessionRows(s) /\ LockInv(s) /\ IdInv(s) /\ WorkInv(s)
      /\ None # Same /\ None \notin HostRow /\ Same \notin HostRow
  BY EdgeAssumption DEF TypeInv, RowInv, SessionRows
<1>1. CASE BeginHost(s)
  <2>a. PICK d \in Domains, op \in Ops \cap {"create", "update", "delete"} :
          /\ op = "create" <=> hosts[d] = None
          /\ job' = [job EXCEPT ![s].op = op]
          /\ push' = [push EXCEPT ![s] = [NoPush EXCEPT !.d = d, !.seen[d] = hosts[d],
                         !.target = IF op = "delete" THEN hosts[d].npm ELSE None]]
          /\ Goto(s, IF op = "delete" /\ hosts[d].npm # None THEN "erase" ELSE "flush")
    BY <1>1 DEF BeginHost
  <2>b. PICK h : h = IF op = "delete" THEN hosts[d].npm ELSE None
    OBVIOUS
  <2>c. PICK l \in {"erase", "flush"} :
          l = IF op = "delete" /\ hosts[d].npm # None THEN "erase" ELSE "flush"
    OBVIOUS
  <2>1. /\ op = "create" <=> hosts[d] = None
        /\ job' = [job EXCEPT ![s].op = op]
        /\ push' = [push EXCEPT ![s] = [NoPush EXCEPT !.d = d, !.seen[d] = hosts[d],
                                                      !.target = h]]
        /\ Goto(s, l)
    BY <2>a, <2>b, <2>c
  <2>2. UNCHANGED <<hosts, writer, mine>> /\ Free(s) /\ pc[s] = "idle"
    BY <1>1 DEF BeginHost, Free
  <2>3. pc'[s] = l /\ job'[s].op = op /\ OthersSame(s)
    BY <1>0, <2>1, <2>2 DEF OthersSame, Goto, TypeOK, Job
  <2>4. /\ push'[s].d = d /\ push'[s].todo = {} /\ push'[s].seen[d] = hosts[d]
        /\ \A e \in Domains \ {d} : push'[s].seen[e] = None
    BY <1>0, <2>1 DEF TypeOK, NoPush
  <2>5. Untouched(s)
    BY <1>0, <2>2 DEF LockInv
  <2>6. LockInv(s)'
    BY <1>0, <2>1, <2>2, <2>3, <2>5 DEF LockInv, Untouched
  <2>7. IdInv(s)'
    <3>1. Draft(s)' = Draft(s)
      BY <2>2 DEF Draft
    <3> QED
      BY <1>0, <2>2, <2>4, <3>1 DEF IdInv, DistinctIds
  <2>8. WorkInv(s)'
    BY <2>1, <2>3, <2>4 DEF WorkInv, InPush, PushLabels
  <2> QED
    BY <2>2, <2>3, <2>6, <2>7, <2>8, RowStep DEF SessionRows
<1>2. CASE BeginResync(s) \/ (Attach(s) /\ ~Rollback(s))
  <2>1. PICK todo \in SUBSET Live(hosts) :
          push' = [push EXCEPT ![s] = [NoPush EXCEPT !.todo = todo, !.seen = hosts]]
    BY <1>2 DEF BeginResync, Attach, Unattached
  <2>2. /\ UNCHANGED <<hosts, writer, mine>> /\ Goto(s, "next")
        /\ pc[s] # "idle" \/ Free(s)
    BY <1>2 DEF BeginResync, Attach
  <2>3. job'[s].op \in {"attach", "resync"} /\ \A t \in Sessions \ {s} : job'[t] = job[t]
    <3>1. CASE BeginResync(s)
      BY <1>0, <3>1 DEF BeginResync, TypeOK, Job
    <3>2. CASE Attach(s) /\ ~Rollback(s)
      BY <1>0, <3>2 DEF Attach, WorkInv
    <3> QED
      BY <1>2, <3>1, <3>2
  <2>4. pc'[s] = "next" /\ OthersSame(s)
    BY <1>0, <2>1, <2>2, <2>3 DEF OthersSame, Goto, TypeOK
  <2>5. push'[s].todo = todo /\ push'[s].seen = hosts
    BY <1>0, <2>1 DEF TypeOK, NoPush
  <2>6. LockInv(s)'
    <3>1. \A d \in Domains : mine[s][d] # None
      BY <1>0, <1>2 DEF LockInv, BeginResync, Free, Untouched, Attach, WorkInv
    <3> QED
      BY <1>0, <2>2, <2>3, <2>4, <3>1 DEF LockInv, Untouched
  <2>7. IdInv(s)'
    <3>1. Draft(s)' = Draft(s)
      BY <2>2 DEF Draft
    <3> QED
      BY <1>0, <2>2, <2>5, <3>1 DEF IdInv, DistinctIds
  <2>8. WorkInv(s)'
    BY <1>0, <2>1, <2>3, <2>4, <2>5 DEF WorkInv, InPush, PushLabels, Live, TypeOK
  <2> QED
    BY <2>2, <2>4, <2>6, <2>7, <2>8, RowStep DEF SessionRows
<1>3. CASE (Attach(s) \/ LastHost(s)) /\ Rollback(s)
  BY <1>3, RollbackRows DEF Attach, LastHost
<1>4. CASE NextHost(s)
  <2>1. PICK d \in push[s].todo :
          push' = [push EXCEPT ![s] = [@ EXCEPT !.todo = push[s].todo \ {d}, !.d = d]]
    BY <1>4 DEF NextHost
  <2>2. UNCHANGED <<hosts, writer, mine, job>> /\ Goto(s, "find") /\ pc[s] = "next"
    BY <1>4 DEF NextHost
  <2>3. pc'[s] = "find" /\ OthersSame(s)
    BY <1>0, <2>1, <2>2 DEF OthersSame, Goto, TypeOK
  <2>4. /\ push'[s].todo = push[s].todo \ {d} /\ push'[s].d = d
        /\ push'[s].seen = push[s].seen
    BY <1>0, <2>1 DEF TypeOK, Pushing
  <2>5. LockInv(s)'
    BY <1>0, <2>2, <2>3 DEF LockInv, Untouched
  <2>6. IdInv(s)'
    <3>1. Draft(s)' = Draft(s)
      BY <2>2 DEF Draft
    <3> QED
      BY <1>0, <2>2, <2>4, <3>1 DEF IdInv, DistinctIds
  <2>7. WorkInv(s)'
    BY <1>0, <2>1, <2>2, <2>3, <2>4 DEF WorkInv, InPush, PushLabels
  <2> QED
    BY <2>2, <2>3, <2>5, <2>6, <2>7, RowStep DEF SessionRows
<1>5. CASE (LastHost(s) /\ ~Rollback(s)) \/ Unchanged(s) \/ Accept(s) \/ Reject(s) \/ Put(s)
           \/ Erase(s)
  <2>1. PICK l \in {"commit", "find", "book", "undo", "verify", "flush"} :
          /\ Goto(s, l)
          /\ l = "flush" => pc[s] = "erase"
          /\ l \in PushLabels => pc[s] \in PushLabels
          /\ l \in InPush => pc[s] \in InPush \/ job[s].op = "update"
    BY <1>5 DEF LastHost, Unchanged, Accept, Reject, Put, Erase, PushLabels, InPush
  <2>2. UNCHANGED <<hosts, writer, mine, push, job>> /\ pc[s] # "idle"
    BY <1>5 DEF LastHost, Unchanged, Accept, Reject, Put, Erase
  <2> QED
    BY <2>1, <2>2, QuietRows
<1>6. CASE Find(s) \/ Lookup(s) \/ Create(s)
  <2>1. PICK l \in {"lookup", "write", "verify"} :
          Goto(s, l) /\ pc[s] \in {"find", "lookup", "write"}
    BY <1>6 DEF Find, Lookup, Create
  <2>2. UNCHANGED <<hosts, writer, mine, job>>
    BY <1>6 DEF Find, Lookup, Create
  <2>3. /\ \A t \in Sessions \ {s} : push'[t] = push[t]
        /\ push'[s].seen = push[s].seen /\ push'[s].todo = push[s].todo
        /\ push'[s].d = push[s].d
    <3>1. push[s] \in Pushing
      BY <1>0 DEF TypeOK
    <3>2. CASE Find(s)
      <4>1. PICK h, c : push' = [push EXCEPT ![s] = [@ EXCEPT !.cert = record.id, !.before = h,
                                                              !.snapshot = c]]
        BY <3>2 DEF Find
      <4> QED
        BY <1>0, <3>1, <4>1 DEF TypeOK, Pushing
    <3>3. CASE Lookup(s) \/ Create(s)
      <4>1. PICK h : push' = [push EXCEPT ![s].target = h]
        BY <3>3 DEF Lookup, Create
      <4> QED
        BY <1>0, <3>1, <4>1 DEF TypeOK, Pushing
    <3> QED
      BY <1>6, <3>2, <3>3
  <2> QED
    BY <2>1, <2>2, <2>3, QuietRows DEF InPush, PushLabels
<1>7. CASE WriteRefused(s) \/ Undo(s)
  BY <1>7, PushFailsRows DEF WriteRefused, Undo
<1>8. CASE Insert(s) \/ Flush(s) \/ Remove(s) \/ Book(s)
  <2>1. PICK l \in {"find", "commit", "next"} :
          /\ Goto(s, l)
          /\ l = "find" => pc[s] = "flush" /\ (Insert(s) \/ job[s].op = "update")
          /\ l = "next" => job[s].op \in {"attach", "resync"}
    BY <1>0, <1>8 DEF Insert, Flush, Remove, Book, WorkInv, InPush
  <2>2. /\ hosts' = hosts /\ UNCHANGED <<job, push>> /\ pc[s] \in {"flush", "book"}
        /\ Insert(s) => job[s].op = "create"
    BY <1>8 DEF Insert, Flush, Remove, Book
  <2>3. pc'[s] = l /\ \A t \in Sessions \ {s} : pc'[t] = pc[t]
    BY <1>0, <2>1 DEF Goto, TypeOK
  <2>4. OthersSame(s)
    BY <1>8, <2>2, <2>3, Statement DEF OthersSame
  <2>5. LockInv(s)'
    BY <1>0, <1>8, <2>1, <2>2, <2>3, Statement DEF LockInv
  <2>6. IdInv(s)'
    BY <1>0, <1>8, <2>2, Statement DEF IdInv
  <2>7. WorkInv(s)'
    BY <1>0, <1>8, <2>1, <2>2, <2>3, Statement DEF WorkInv, InPush, PushLabels
  <2> QED
    BY <2>2, <2>4, <2>5, <2>6, <2>7, RowStep DEF SessionRows
<1> QED
  BY <1>1, <1>2, <1>3, <1>4, <1>5, <1>6, <1>7, <1>8 DEF Push

(* The end of a session: the table takes its rows.                         *)
LEMMA CommitIds ==
    ASSUME TypeInv, RowInv, NoDeleteBeside, NEW s \in Sessions, Commit(s)
    PROVE  RowInv'
<1>1. hosts' = Draft(s) /\ End(s, TRUE) /\ pc[s] = "commit"
  BY DEF Commit
<1>2. /\ TypeOK /\ LockInv(s) /\ IdInv(s) /\ WorkInv(s) /\ None # Same
      /\ None \notin HostRow /\ Same \notin HostRow
  BY EdgeAssumption DEF TypeInv, RowInv, SessionRows
<1>3. DistinctIds(hosts)'
  BY <1>1, <1>2 DEF IdInv, DistinctIds, Draft
<1>4. SessionRows(s)' /\ OthersSame(s)
  BY <1>1, <1>3, EndOwnRows
<1>5. CASE Untouched(s)
  <2>1. hosts' = hosts
    BY <1>1, <1>2, <1>5 DEF Draft, Untouched, TypeOK
  <2> QED
    BY <1>1, <1>2, <2>1, EndRows
<1>6. CASE ~Untouched(s)
  <2>1. writer = s
    BY <1>2, <1>6 DEF LockInv
  <2>2. ASSUME NEW t \in Sessions, t # s PROVE SessionRows(t)'
    <3>1. /\ pc'[t] = pc[t] /\ job'[t] = job[t] /\ push'[t] = push[t] /\ mine'[t] = mine[t]
          /\ SessionRows(t) /\ Untouched(t)
      BY <1>4, <2>1, <2>2 DEF OthersSame, RowInv, SessionRows, LockInv
    <3>2. LockInv(t)'
      BY <3>1, EdgeAssumption DEF SessionRows, LockInv, Untouched
    <3>3. WorkInv(t)'
      BY <3>1 DEF SessionRows, WorkInv
    <3>4. Draft(t)' = [d \in Domains |-> hosts'[d]]
      BY <3>1 DEF Draft, Untouched
    <3>5. ASSUME NEW d \in Domains, push[t].seen[d] # None
          PROVE  hosts'[d] # None /\ hosts'[d].id = push[t].seen[d].id
      <4>1. pc[t] # "idle"
        BY <3>1, <3>5 DEF SessionRows, LockInv, NoPush
      <4>2. "delete" \notin Ops
        BY <1>1, <2>2, <4>1 DEF RowInv, DeletesAlone
      <4>3. mine[s][d] # None
        BY <1>2, <4>2 DEF LockInv
      <4>4. hosts[d] # None /\ hosts[d].id = push[t].seen[d].id
        BY <3>1, <3>5 DEF SessionRows, IdInv
      <4>5. mine[s][d] # Same => mine[s][d].id = hosts[d].id
        BY <1>2, <4>3, <4>4 DEF IdInv
      <4>6. hosts'[d] = IF mine[s][d] = Same THEN hosts[d] ELSE mine[s][d]
        BY <1>1 DEF Draft
      <4> QED
        BY <4>3, <4>4, <4>5, <4>6
    <3>6. IdInv(t)'
      BY <1>3, <3>1, <3>4, <3>5 DEF IdInv, DistinctIds, Untouched
    <3> QED
      BY <3>2, <3>3, <3>6 DEF SessionRows
  <2>3. DeletesAlone'
    BY <1>1, <1>4 DEF RowInv, DeletesAlone, OthersSame
  <2> QED
    BY <1>3, <1>4, <2>2, <2>3 DEF RowInv
<1> QED
  BY <1>5, <1>6

(* The end of a session, by commit, rollback or a request that fails.      *)
LEMMA FinishIds ==
    ASSUME TypeInv, RowInv, NoDeleteBeside, NEW s \in Sessions, Finish(s)
    PROVE  RowInv'
<1>1. CASE Commit(s)
  BY <1>1, CommitIds
<1>2. CASE Done(s)
  <2>1. /\ pc[s] = "done" /\ Goto(s, "idle") /\ job' = [job EXCEPT ![s] = NoJob]
        /\ UNCHANGED <<hosts, writer, push, mine>>
    BY <1>2 DEF Done, db
  <2>2. pc'[s] = "idle" /\ job'[s] = NoJob /\ OthersSame(s)
    BY <2>1 DEF OthersSame, Goto, TypeInv, TypeOK
  <2>3. SessionRows(s) /\ push[s] = NoPush /\ Untouched(s)
    BY <2>1 DEF RowInv, SessionRows, LockInv
  <2>4. LockInv(s)'
    BY <2>1, <2>2, <2>3, EdgeAssumption DEF LockInv, Untouched, NoJob
  <2>5. IdInv(s)'
    <3>1. Draft(s)' = Draft(s)
      BY <2>1 DEF Draft
    <3> QED
      BY <2>1, <2>3, <3>1 DEF SessionRows, IdInv, DistinctIds
  <2>6. WorkInv(s)'
    BY <2>1, <2>2, <2>3 DEF WorkInv, InPush, PushLabels, NoPush
  <2> QED
    BY <2>1, <2>2, <2>4, <2>5, <2>6, RowStep DEF SessionRows
<1>3. CASE Rejected(s) \/ Refused(s)
  <2>1. pc[s] # "idle" /\ Rollback(s)
    BY <1>3 DEF Rejected, NoSuchRow, Locked, Refused
  <2> QED
    BY <2>1, RollbackRows
<1>4. CASE RequestFails(s)
  <2>1. pc[s] # "idle" /\ (Rollback(s) \/ PushFails(s))
    BY <1>4 DEF RequestFails, Rotating, Pushes
  <2> QED
    BY <2>1, RollbackRows, PushFailsRows
<1> QED
  BY <1>1, <1>2, <1>3, <1>4 DEF Finish

(* A killed process leaves no row behind.                                  *)
LEMMA KillIds ==
    ASSUME TypeInv, RowInv, NoDeleteBeside, NEW S \in SUBSET Sessions, Kill(S)
    PROVE  RowInv'
<1>1. /\ pc' = [s \in Sessions |-> IF s \in S THEN "idle" ELSE pc[s]]
      /\ job' = [s \in Sessions |-> IF s \in S THEN NoJob ELSE job[s]]
      /\ push' = [s \in Sessions |-> IF s \in S THEN NoPush ELSE push[s]]
      /\ mine' = [s \in Sessions |-> IF s \in S THEN [d \in Domains |-> Same] ELSE mine[s]]
      /\ writer' = IF writer \in S THEN None ELSE writer
      /\ hosts' = hosts
  BY DEF Kill, Close
<1>2. DistinctIds(hosts) /\ \A s \in Sessions : SessionRows(s)
  BY DEF RowInv
<1>3. ASSUME NEW t \in Sessions PROVE SessionRows(t)'
  <2>1. CASE t \in S
    <3>1. /\ pc'[t] = "idle" /\ job'[t] = NoJob /\ push'[t] = NoPush
          /\ mine'[t] = [d \in Domains |-> Same]
      BY <1>1, <2>1
    <3>2. Draft(t)' = [d \in Domains |-> hosts[d]]
      BY <1>1, <3>1 DEF Draft
    <3>3. LockInv(t)' /\ WorkInv(t)'
      BY <3>1, EdgeAssumption
         DEF LockInv, WorkInv, Untouched, NoJob, NoPush, InPush, PushLabels
    <3>4. IdInv(t)'
      BY <1>1, <1>2, <3>1, <3>2 DEF IdInv, DistinctIds, NoPush
    <3> QED
      BY <3>3, <3>4 DEF SessionRows
  <2>2. CASE t \notin S
    <3>1. /\ pc'[t] = pc[t] /\ job'[t] = job[t] /\ push'[t] = push[t] /\ mine'[t] = mine[t]
          /\ writer = t => writer' = t
      BY <1>1, <2>2
    <3>2. Draft(t)' = Draft(t)
      BY <1>1, <3>1 DEF Draft
    <3>3. LockInv(t)' /\ WorkInv(t)'
      BY <1>2, <3>1 DEF SessionRows, LockInv, WorkInv, Untouched
    <3>4. IdInv(t)'
      BY <1>1, <1>2, <3>1, <3>2 DEF SessionRows, IdInv, DistinctIds
    <3> QED
      BY <3>3, <3>4 DEF SessionRows
  <2> QED
    BY <2>1, <2>2
<1>4. DeletesAlone'
  BY <1>1 DEF RowInv, DeletesAlone
<1>5. DistinctIds(hosts)'
  BY <1>1, <1>2 DEF DistinctIds
<1> QED
  BY <1>3, <1>4, <1>5 DEF RowInv

(* The ids of the rows, whatever fails.                                    *)
LEMMA RowsInit == Init => RowInv
<1> SUFFICES ASSUME Init PROVE RowInv
  OBVIOUS
<1>1. ASSUME NEW s \in Sessions PROVE SessionRows(s)
  <2>1. /\ pc[s] = "idle" /\ job[s] = NoJob /\ push[s] = NoPush
        /\ mine[s] = [d \in Domains |-> Same] /\ hosts = [d \in Domains |-> None]
    BY DEF Init
  <2>2. Draft(s) = hosts
    BY <2>1 DEF Draft
  <2>3. LockInv(s) /\ WorkInv(s)
    BY <2>1, EdgeAssumption
       DEF LockInv, WorkInv, Untouched, NoJob, NoPush, InPush, PushLabels
  <2>4. IdInv(s)
    BY <2>1, <2>2 DEF IdInv, DistinctIds, NoPush
  <2> QED
    BY <2>3, <2>4 DEF SessionRows
<1> QED
  BY <1>1 DEF Init, RowInv, DeletesAlone, DistinctIds

(* Every step keeps the ids.                                                *)
LEMMA RowsNext ==
    ASSUME TypeInv, RowInv, NoDeleteBeside, [Next]_vars
    PROVE  RowInv'
<1>1. ASSUME NEW s \in Sessions, Install(s) \/ Push(s) \/ Finish(s) PROVE RowInv'
  BY <1>1, InstallIds, PushIds, FinishIds
<1>2. ASSUME NEW s \in Commands, Kill({s}) PROVE RowInv'
  BY <1>2, KillIds DEF Sessions
<1>3. CASE Kill(Requests)
  BY <1>3, KillIds DEF Sessions
<1>4. CASE Reset \/ UNCHANGED vars
  <2>1. UNCHANGED <<hosts, writer, pc, job, push, mine>>
    BY <1>4 DEF Reset, vars, db, local
  <2>2. \A s \in Sessions : Draft(s)' = Draft(s)
    BY <2>1 DEF Draft
  <2>3. ASSUME NEW s \in Sessions PROVE SessionRows(s)'
    BY <2>1, <2>2 DEF RowInv, SessionRows, LockInv, IdInv, WorkInv, Untouched, DistinctIds
  <2> QED
    BY <2>1, <2>3 DEF RowInv, DeletesAlone, DistinctIds
<1> QED
  BY <1>1, <1>2, <1>3, <1>4 DEF Next

(* Every statement reaches the row that its session loaded or inserted, as *)
(* long as no deletion runs beside another session.                        *)
THEOREM RowsHold ==
    ASSUME NoDeleteBeside
    PROVE  Spec => [](TypeInv /\ RowInv)
<1>1. Init => TypeInv /\ RowInv
  BY InitTypes, RowsInit
<1>2. TypeInv /\ RowInv /\ [Next]_vars => (TypeInv /\ RowInv)'
  BY NextTypes, RowsNext
<1> QED
  BY <1>1, <1>2, PTL DEF Spec

-----------------------------------------------------------------------------
(* Ownership.  NPM gives an id out only once as long as it keeps its data, *)
(* so an id that a session has seen names one domain for ever; the         *)
(* invariant follows the id from the look-up to the row.                   *)

\* The id h, if it is one, was given out for domain d.
Owned(h, d) ==
    h \in HostIds => h < nextHost /\ (proxies[h] = None \/ proxies[h].domain = d)

\* Labels at which a session is about to write a host, or to book it.
OwnLabels == {"write", "verify", "book"}

Below == \A h \in HostIds : proxies[h] # None => h < nextHost

OwnInv ==
    /\ Below
    /\ \A d \in Domains : hosts[d] # None => Owned(hosts[d].npm, d)
    /\ \A s \in Sessions, d \in Domains :
          mine[s][d] \notin {None, Same} => Owned(mine[s][d].npm, d)
    /\ \A s \in Sessions : pc[s] \in OwnLabels => Owned(push[s].target, push[s].d)

-----------------------------------------------------------------------------
(* What a step does to the proxy hosts of NPM, and to a session.           *)

\* Ids that were given out name the domain they named, or nothing any more.
Kept ==
    /\ nextHost' >= nextHost
    /\ \A h \in HostIds : h < nextHost /\ proxies'[h] # None =>
           proxies[h] # None /\ proxies'[h].domain = proxies[h].domain

SameRows(t) == mine'[t] = mine[t] \/ mine'[t] = [d \in Domains |-> Same]

SameTarget(t) ==
    pc'[t] \in OwnLabels =>
        /\ pc[t] \in OwnLabels
        /\ push'[t].target = push[t].target
        /\ push'[t].d = push[t].d

Frame == \A t \in Sessions : SameRows(t) /\ SameTarget(t)

(* The host of an id keeps its domain.                                     *)
LEMMA OwnedKept ==
    ASSUME TypeOK, TypeOK', Kept, NEW h, NEW d, Owned(h, d)
    PROVE  Owned(h, d)'
  BY EdgeAssumption DEF TypeOK, Kept, Owned, HostIds

(* A step that leaves the proxy hosts of NPM alone.                        *)
LEMMA ProxiesSame ==
    ASSUME TypeOK, Below, proxies' = proxies, nextHost' = nextHost
    PROVE  Kept /\ Below'
  BY EdgeAssumption DEF TypeOK, Kept, Below

(* A step that leaves the table and the ids in the sessions alone.         *)
LEMMA FrameStep ==
    ASSUME TypeInv, TypeInv', OwnInv, Kept, Below', hosts' = hosts, Frame
    PROVE  OwnInv'
<1>0. TypeOK /\ TypeOK'
  BY DEF TypeInv
<1>1. ASSUME NEW d \in Domains, hosts'[d] # None PROVE Owned(hosts[d].npm, d)'
  BY <1>0, <1>1, OwnedKept DEF OwnInv
<1>2. ASSUME NEW t \in Sessions, NEW d \in Domains, mine'[t][d] \notin {None, Same}
      PROVE  mine'[t][d] = mine[t][d]
  BY <1>2 DEF Frame, SameRows
<1>3. ASSUME NEW t \in Sessions, NEW d \in Domains, mine'[t][d] \notin {None, Same}
      PROVE  Owned(mine[t][d].npm, d)'
  BY <1>0, <1>2, <1>3, OwnedKept DEF OwnInv
<1>4. ASSUME NEW t \in Sessions, pc'[t] \in OwnLabels
      PROVE  /\ push'[t].target = push[t].target /\ push'[t].d = push[t].d
             /\ Owned(push[t].target, push[t].d)'
  BY <1>0, <1>4, OwnedKept DEF OwnInv, Frame, SameTarget
<1>5. \A d \in Domains : hosts'[d] # None => Owned(hosts[d].npm, d)'
  BY <1>1
<1>6. \A t \in Sessions, d \in Domains :
         mine'[t][d] \notin {None, Same} => Owned(mine[t][d].npm, d)'
  BY <1>3
<1>7. \A t \in Sessions : pc'[t] \in OwnLabels => Owned(push[t].target, push[t].d)'
  BY <1>4
<1> QED
  BY <1>5, <1>6, <1>7 DEF OwnInv

(* A step of s to a label where it holds no target.                        *)
LEMMA LabelFrame ==
    ASSUME TypeInv, NEW s \in Sessions, NEW l, l \notin OwnLabels, Goto(s, l), mine' = mine,
           \A t \in Sessions \ {s} : push'[t] = push[t]
    PROVE  Frame
  BY DEF TypeInv, TypeOK, Goto, Frame, SameRows, SameTarget

(* The end of a session, by whichever way.                                 *)
LEMMA EndFrame ==
    ASSUME TypeInv, NEW s \in Sessions, NEW good, End(s, good)
    PROVE  Frame
<1>1. PICK l \in {"attach", "done", "idle"} : Goto(s, l)
  BY DEF End
<1> QED
  BY <1>1 DEF End, Close, TypeInv, TypeOK, Goto, Frame, SameRows, SameTarget, OwnLabels

(* A push that fails.                                                      *)
LEMMA PushFailsFrame ==
    ASSUME TypeInv, NEW s \in Sessions, PushFails(s)
    PROVE  hosts' = hosts /\ Frame
<1>1. ASSUME Goto(s, "commit"), UNCHANGED <<writer, local>> PROVE Frame
  BY <1>1, LabelFrame DEF OwnLabels, local
<1>2. ASSUME End(s, FALSE) PROVE Frame
  BY <1>2, EndFrame
<1>3. ASSUME Goto(s, "next"), UNCHANGED <<writer, rot, push, mine>> PROVE Frame
  BY <1>3, LabelFrame DEF OwnLabels
<1>4. hosts' = hosts
  BY DEF PushFails
<1> QED
  BY <1>1, <1>2, <1>3, <1>4 DEF PushFails

-----------------------------------------------------------------------------
(* The invariant, action by action.                                        *)

(* A rollback.                                                             *)
LEMMA RollbackOwn ==
    ASSUME TypeInv, TypeInv', OwnInv, NEW s \in Sessions, Rollback(s)
    PROVE  OwnInv'
<1>1. Kept /\ Below'
  BY ProxiesSame DEF Rollback, npm, TypeInv, OwnInv
<1> QED
  BY <1>1, EndFrame, FrameStep DEF Rollback

(* A step that leaves hosts and NPM's proxies alone and ends at a label  *)
(* without a target.                                                     *)
LEMMA QuietStep ==
    ASSUME TypeInv, TypeInv', OwnInv, NEW s \in Sessions, NEW l, l \notin OwnLabels,
           Goto(s, l), UNCHANGED <<hosts, proxies, nextHost, mine>>,
           \A t \in Sessions \ {s} : push'[t] = push[t]
    PROVE  OwnInv'
<1>1. Kept /\ Below'
  BY ProxiesSame DEF TypeInv, OwnInv
<1> QED
  BY <1>1, LabelFrame, FrameStep

(* The steps that install a certificate.                                    *)
LEMMA InstallOwn ==
    ASSUME TypeInv, TypeInv', OwnInv, NEW s \in Sessions, Install(s)
    PROVE  OwnInv'
<1> USE DEF db, npm, local
<1>0. TypeOK
  BY DEF TypeInv
<1>1. CASE BeginInstall(s)
  <2>1. PICK l \in {"issue", "obtain", "check", "settled", "supersede"} : Goto(s, l)
    BY <1>1 DEF BeginInstall
  <2> QED
    BY <1>1, <2>1, QuietStep DEF BeginInstall, OwnLabels
<1>2. CASE Check(s)
  <2>1. PICK l \in {"settled", "supersede"} : Goto(s, l)
    BY <1>2 DEF Check
  <2> QED
    BY <1>2, <2>1, QuietStep DEF Check, OwnLabels
<1>3. CASE Settled(s)
  BY <1>0, <1>3, ProxiesSame, EndFrame, FrameStep DEF Settled, OwnInv
<1>4. CASE Supersede(s) \/ Post(s) \/ Upload(s) \/ UploadRefused(s) \/ Repoint(s)
           \/ Repointed(s) \/ Drop(s) \/ Swept(s)
  <2>1. PICK l \in {"post", "upload", "repoint", "discard", "move", "sweep", "previous"} :
          Goto(s, l)
    BY <1>4 DEF Supersede, Post, Upload, UploadRefused, Repoint, Repointed, Drop, Swept
  <2>2. UNCHANGED <<hosts, proxies, nextHost, mine, push>>
    BY <1>4 DEF Supersede, Post, Upload, UploadRefused, Repoint, Repointed, Drop, Swept
  <2> QED
    BY <2>1, <2>2, QuietStep DEF OwnLabels
<1>5. CASE Discard(s)
  BY <1>0, <1>5, ProxiesSame, EndFrame, FrameStep DEF Discard, OwnInv
<1>6. CASE Move(s)
  <2>1. Kept /\ Below'
    BY <1>0, <1>6, EdgeAssumption DEF Move, Kept, Below, OwnInv, TypeOK, Live, Proxy
  <2>2. Frame
    BY <1>6 DEF Move, Frame, SameRows, SameTarget
  <2> QED
    BY <1>6, <2>1, <2>2, FrameStep DEF Move
<1>7. CASE MoveRefused(s)
  <2>1. Frame
    BY <1>7 DEF MoveRefused, Frame, SameRows, SameTarget
  <2> QED
    BY <1>0, <1>7, <2>1, ProxiesSame, FrameStep DEF MoveRefused, OwnInv
<1>8. CASE Moved(s)
  <2>1. CASE Rollback(s)
    BY <2>1, RollbackOwn
  <2>2. CASE Goto(s, rot[s].then) /\ UNCHANGED <<db, npm, local>>
    <3>1. rot[s].then \notin OwnLabels
      BY <1>0 DEF TypeOK, Rotation, OwnLabels
    <3> QED
      BY <2>2, <3>1, QuietStep
  <2> QED
    BY <1>8, <2>1, <2>2 DEF Moved
<1>9. CASE Sweep(s)
  <2>1. PICK l \in {"drop", "sweep"} : Goto(s, l)
    BY <1>9 DEF Sweep
  <2> QED
    BY <1>9, <2>1, QuietStep DEF Sweep, OwnLabels
<1>10. CASE Previous(s)
  <2>1. PICK l \in {"move", "commit"} : Goto(s, l)
    BY <1>10 DEF Previous
  <2> QED
    BY <1>10, <2>1, QuietStep DEF Previous, OwnLabels
<1>11. CASE Obtain(s)
  <2>1. PICK l \in {"previous", "issue"} : Goto(s, l)
    BY <1>11 DEF Obtain
  <2> QED
    BY <1>11, <2>1, QuietStep DEF Obtain, OwnLabels
<1>12. CASE Issue(s)
  <2>1. UNCHANGED <<hosts, proxies, nextHost>>
    BY <1>12 DEF Issue
  <2>2. CASE Goto(s, "previous") /\ UNCHANGED <<writer, job, push, mine>>
    BY <2>1, <2>2, QuietStep DEF OwnLabels
  <2>3. CASE End(s, FALSE)
    BY <1>0, <2>1, <2>3, ProxiesSame, EndFrame, FrameStep DEF OwnInv
  <2> QED
    BY <1>12, <2>2, <2>3 DEF Issue
<1> QED
  BY <1>1, <1>2, <1>3, <1>4, <1>5, <1>6, <1>7, <1>8, <1>9, <1>10, <1>11, <1>12 DEF Install

(* The steps that push a host: the look-up finds an id of the domain, the   *)
(* creation is given a new one, and the booking keeps what was pushed.      *)
LEMMA PushOwn ==
    ASSUME TypeInv, TypeInv', RowInv, OwnInv, NEW s \in Sessions, Push(s)
    PROVE  OwnInv'
<1> USE DEF db, npm, local
<1>0. TypeOK /\ TypeOK' /\ SessionInv(s)
  BY DEF TypeInv
<1>1. CASE BeginHost(s)
  <2>1. PICK l \in {"erase", "flush"} : Goto(s, l)
    BY <1>1 DEF BeginHost
  <2>2. \A t \in Sessions \ {s} : push'[t] = push[t]
    BY <1>0, <1>1 DEF BeginHost, TypeOK
  <2>3. UNCHANGED <<hosts, proxies, nextHost, mine>>
    BY <1>1 DEF BeginHost
  <2> QED
    BY <2>1, <2>2, <2>3, QuietStep DEF OwnLabels
<1>2. CASE BeginResync(s) \/ NextHost(s) \/ Find(s)
  <2>1. PICK l \in {"next", "find", "lookup"} : Goto(s, l)
    BY <1>2 DEF BeginResync, NextHost, Find
  <2>2. \A t \in Sessions \ {s} : push'[t] = push[t]
    BY <1>0, <1>2 DEF BeginResync, NextHost, Find, TypeOK
  <2>3. UNCHANGED <<hosts, proxies, nextHost, mine>>
    BY <1>2 DEF BeginResync, NextHost, Find
  <2> QED
    BY <2>1, <2>2, <2>3, QuietStep DEF OwnLabels
<1>3. CASE Attach(s)
  <2>1. CASE Rollback(s)
    BY <2>1, RollbackOwn
  <2>2. CASE /\ push' = [push EXCEPT ![s] = [NoPush EXCEPT !.todo = Unattached, !.seen = hosts]]
             /\ Goto(s, "next")
             /\ UNCHANGED <<db, npm, job, rot, mine>>
    <3>1. \A t \in Sessions \ {s} : push'[t] = push[t]
      BY <1>0, <2>2 DEF TypeOK
    <3> QED
      BY <2>2, <3>1, QuietStep DEF OwnLabels
  <2> QED
    BY <1>3, <2>1, <2>2 DEF Attach
<1>4. CASE LastHost(s)
  <2>1. CASE Rollback(s)
    BY <2>1, RollbackOwn
  <2>2. CASE Goto(s, "commit") /\ UNCHANGED <<db, npm, local>>
    BY <2>2, QuietStep DEF OwnLabels
  <2> QED
    BY <1>4, <2>1, <2>2 DEF LastHost
<1>5. CASE Unchanged(s) \/ Reject(s)
  <2>1. PICK l \in {"find", "undo"} : Goto(s, l) /\ UNCHANGED <<db, npm, local>>
    BY <1>5 DEF Unchanged, Reject
  <2> QED
    BY <2>1, QuietStep DEF OwnLabels
<1>6. CASE Erase(s)
  <2>1. /\ Goto(s, "flush") /\ hosts' = hosts /\ nextHost' = nextHost
        /\ mine' = mine /\ push' = push
    BY <1>6 DEF Erase
  <2>2. \A h \in HostIds : proxies'[h] \in {None, proxies[h]}
    BY <1>0, <1>6 DEF Erase, TypeOK
  <2>3. Kept /\ Below'
    BY <1>0, <2>1, <2>2, EdgeAssumption DEF Kept, Below, OwnInv, TypeOK
  <2> QED
    BY <2>1, <2>3, LabelFrame, FrameStep DEF OwnLabels
<1>7. CASE Insert(s) \/ Flush(s) \/ Remove(s)
  <2>1. PICK l \in {"commit", "find"} : Goto(s, l)
    BY <1>7 DEF Insert, Flush, Remove
  <2>2. UNCHANGED <<hosts, proxies, nextHost, push>>
    BY <1>7 DEF Insert, Flush, Remove
  <2>3. ASSUME NEW t \in Sessions, NEW d \in Domains, mine'[t][d] \notin {None, Same}
        PROVE  Owned(mine'[t][d].npm, d)
    <3>1. CASE mine'[t][d] = mine[t][d]
      BY <2>3, <3>1 DEF OwnInv
    <3>2. CASE mine'[t][d].npm = None
      BY <3>2, EdgeAssumption DEF Owned
    <3>3. CASE mine'[t][d] = hosts[d]
      BY <2>3, <3>3 DEF OwnInv
    <3>4. ASSUME Insert(s) PROVE mine'[t][d] = mine[t][d] \/ mine'[t][d].npm = None
      <4>1. PICK i : mine' = [mine EXCEPT ![s][push[s].d] = [id |-> i, npm |-> None, cert |-> None]]
        BY <3>4 DEF Insert
      <4> QED
        BY <1>0, <4>1 DEF TypeOK
    <3>5. ASSUME Flush(s) \/ Remove(s)
          PROVE  mine'[t][d] \in {mine[t][d], hosts[d], None}
      BY <1>0, <3>5 DEF Flush, Remove, TypeOK
    <3> QED
      BY <1>7, <2>3, <3>1, <3>2, <3>3, <3>4, <3>5
  <2> QED
    BY <1>0, <2>1, <2>2, <2>3 DEF OwnInv, Below, Owned, TypeOK, Goto, OwnLabels
<1>8. CASE Lookup(s)
  <2>1. PICK h \in HostIds \cup {None} :
          Found(push[s].d, h) /\ push' = [push EXCEPT ![s].target = h]
    BY <1>8 DEF Lookup
  <2>2. Owned(h, push[s].d)
    BY <1>0, <2>1, EdgeAssumption DEF Found, ProxyOf, Live, Owned, OwnInv, Below, TypeOK
  <2>3. pc' = [pc EXCEPT ![s] = "write"] /\ UNCHANGED <<hosts, proxies, nextHost, mine>>
    BY <1>8 DEF Lookup, Goto
  <2>4. /\ push'[s].target = h /\ push'[s].d = push[s].d
        /\ \A t \in Sessions \ {s} : push'[t] = push[t]
    BY <1>0, <2>1 DEF TypeOK, Pushing
  <2> QED
    BY <1>0, <2>2, <2>3, <2>4 DEF OwnInv, Below, Owned, TypeOK
<1>9. CASE Put(s)
  <2>1. /\ pc[s] = "write" /\ Goto(s, "verify")
        /\ UNCHANGED <<hosts, nextHost, mine, push>>
    BY <1>9 DEF Put
  <2>2. Kept /\ Below'
    BY <1>0, <1>9, EdgeAssumption DEF Put, Kept, Below, OwnInv, TypeOK, Live, Proxy
  <2>3. Frame
    BY <1>0, <2>1 DEF Frame, SameRows, SameTarget, Goto, TypeOK, OwnLabels
  <2> QED
    BY <2>1, <2>2, <2>3, FrameStep
<1>10. CASE Create(s)
  <2>1. push[s].d \in Domains /\ nextHost \in HostIds
    BY <1>0, <1>10 DEF Create, SessionInv, PushLabels
  <2>2. /\ proxies' = [proxies EXCEPT ![nextHost] = [domain |-> push[s].d, cert |-> push[s].cert]]
        /\ nextHost' = nextHost + 1
        /\ UNCHANGED <<hosts, mine>>
        /\ pc' = [pc EXCEPT ![s] = "verify"]
    BY <1>10 DEF Create, Goto
  <2>3. Kept /\ Below'
    BY <1>0, <2>1, <2>2 DEF Kept, Below, OwnInv, TypeOK, HostIds
  <2>4. /\ push'[s].target = nextHost /\ push'[s].d = push[s].d
        /\ \A t \in Sessions \ {s} : push'[t] = push[t]
    BY <1>0, <1>10 DEF Create, TypeOK, Pushing
  <2>5. Owned(push[s].target, push[s].d)'
    BY <1>0, <2>1, <2>2, <2>4 DEF Owned, TypeOK, HostIds
  <2>6. ASSUME NEW t \in Sessions \ {s}, pc'[t] \in OwnLabels
        PROVE  Owned(push[t].target, push[t].d)'
    BY <1>0, <2>2, <2>3, <2>4, <2>6, OwnedKept DEF OwnInv, TypeOK
  <2>7. \A t \in Sessions : pc'[t] \in OwnLabels => Owned(push[t].target, push[t].d)'
    BY <2>5, <2>6
  <2>8. ASSUME NEW d \in Domains, hosts'[d] # None PROVE Owned(hosts[d].npm, d)'
    BY <1>0, <2>2, <2>3, <2>8, OwnedKept DEF OwnInv
  <2>9. ASSUME NEW t \in Sessions, NEW d \in Domains, mine'[t][d] \notin {None, Same}
        PROVE  Owned(mine[t][d].npm, d)'
    BY <1>0, <2>2, <2>3, <2>9, OwnedKept DEF OwnInv
  <2> QED
    BY <2>3, <2>7, <2>8, <2>9 DEF OwnInv
<1>11. CASE WriteRefused(s)
  BY <1>0, <1>11, PushFailsFrame, ProxiesSame, FrameStep DEF WriteRefused, OwnInv
<1>12. CASE Accept(s)
  <2>1. pc[s] = "verify" /\ Goto(s, "book") /\ UNCHANGED <<db, npm, local>>
    BY <1>12 DEF Accept
  <2>2. Frame
    BY <1>0, <2>1 DEF Frame, SameRows, SameTarget, Goto, TypeOK, OwnLabels
  <2> QED
    BY <1>0, <2>1, <2>2, ProxiesSame, FrameStep DEF OwnInv
<1>13. CASE Undo(s)
  <2>1. /\ nextHost' = nextHost
        /\ \A h \in HostIds : proxies'[h] # None =>
               proxies[h] # None /\ proxies'[h].domain = proxies[h].domain
    BY <1>0, <1>13 DEF Undo, TypeOK, Proxy
  <2>2. Kept /\ Below'
    BY <1>0, <2>1, EdgeAssumption DEF Kept, Below, OwnInv, TypeOK
  <2> QED
    BY <1>13, <2>2, PushFailsFrame, FrameStep DEF Undo
<1>14. CASE Book(s)
  <2>1. /\ push[s].d \in Domains /\ Owned(push[s].target, push[s].d)
        /\ Reached(s) = {push[s].d}
    BY <1>0, <1>14, ReachesItsRow
       DEF Book, SessionInv, PushLabels, OwnInv, OwnLabels, InPush
  <2>2. UNCHANGED <<hosts, proxies, nextHost, push>>
    BY <1>14 DEF Book
  <2>3. PICK l \in {"commit", "next"} : Goto(s, l)
    BY <1>14 DEF Book
  <2>4. Owned(Booked(s, push[s].d).npm, push[s].d)
    <3>1. /\ Booked(s, push[s].d).npm \in {Draft(s)[push[s].d].npm, push[s].target}
          /\ Draft(s)[push[s].d] \in HostRow
      BY <1>0, <2>1, BookedTypes
    <3>2. Owned(Draft(s)[push[s].d].npm, push[s].d)
      <4>1. CASE mine[s][push[s].d] = Same
        BY <2>1, <3>1, <4>1, EdgeAssumption DEF Draft, OwnInv
      <4>2. CASE mine[s][push[s].d] # Same
        BY <2>1, <3>1, <4>2, EdgeAssumption DEF Draft, OwnInv
      <4> QED
        BY <4>1, <4>2
    <3> QED
      BY <2>1, <3>1, <3>2
  <2>5. ASSUME NEW t \in Sessions, NEW d \in Domains, mine'[t][d] \notin {None, Same}
        PROVE  Owned(mine'[t][d].npm, d)
    <3>1. mine'[t][d] = mine[t][d] \/ (d = push[s].d /\ mine'[t][d] = Booked(s, d))
      <4>1. CASE mine' = mine
        BY <4>1
      <4>2. CASE mine' = [mine EXCEPT ![s] =
                   [e \in Domains |-> IF e \in Reached(s) THEN Booked(s, e) ELSE mine[s][e]]]
        BY <1>0, <2>1, <4>2 DEF TypeOK
      <4> QED
        BY <1>14, <4>1, <4>2 DEF Book
    <3> QED
      BY <2>4, <2>5, <3>1 DEF OwnInv
  <2> QED
    BY <1>0, <2>2, <2>3, <2>5 DEF OwnInv, Below, Owned, TypeOK, Goto, OwnLabels
<1> QED
  BY <1>1, <1>2, <1>3, <1>4, <1>5, <1>6, <1>7, <1>8, <1>9, <1>10, <1>11, <1>12, <1>13,
     <1>14 DEF Push
(* The end of a session: a commit makes its rows the table.                *)
LEMMA FinishOwn ==
    ASSUME TypeInv, TypeInv', OwnInv, NEW s \in Sessions, Finish(s)
    PROVE  OwnInv'
<1> USE DEF db, npm, local
<1>0. TypeOK /\ TypeOK'
  BY DEF TypeInv
<1>1. CASE Commit(s)
  <2>1. hosts' = Draft(s) /\ UNCHANGED <<proxies, nextHost>> /\ End(s, TRUE)
    BY <1>1 DEF Commit
  <2>2. Kept /\ Below'
    BY <1>0, <2>1, ProxiesSame DEF OwnInv
  <2>3. Frame
    BY <2>1, EndFrame
  <2>4. ASSUME NEW d \in Domains, Draft(s)[d] # None PROVE Owned(Draft(s)[d].npm, d)
    <3>1. CASE mine[s][d] = Same
      BY <2>4, <3>1 DEF Draft, OwnInv
    <3>2. CASE mine[s][d] # Same
      BY <2>4, <3>2 DEF Draft, OwnInv
    <3> QED
      BY <3>1, <3>2
  <2>5. ASSUME NEW d \in Domains, hosts'[d] # None PROVE Owned(hosts[d].npm, d)'
    BY <1>0, <2>1, <2>2, <2>4, <2>5 DEF Owned, TypeOK
  <2>6. ASSUME NEW t \in Sessions, NEW d \in Domains, mine'[t][d] \notin {None, Same}
        PROVE  Owned(mine[t][d].npm, d)'
    <3>1. mine'[t][d] = mine[t][d]
      BY <2>3, <2>6 DEF Frame, SameRows
    <3> QED
      BY <2>1, <2>6, <3>1 DEF OwnInv, Owned
  <2>7. ASSUME NEW t \in Sessions, pc'[t] \in OwnLabels
        PROVE  Owned(push[t].target, push[t].d)'
    BY <2>1, <2>3, <2>7 DEF OwnInv, Owned, Frame, SameTarget
  <2> QED
    BY <2>2, <2>5, <2>6, <2>7 DEF OwnInv
<1>2. CASE Done(s)
  <2>1. Goto(s, "idle") /\ UNCHANGED <<hosts, proxies, nextHost, mine, push>>
    BY <1>2 DEF Done
  <2> QED
    BY <2>1, QuietStep DEF OwnLabels
<1>3. CASE Rejected(s) \/ Refused(s)
  BY <1>3, RollbackOwn DEF Rejected, Refused
<1>4. CASE RequestFails(s)
  <2>1. CASE Rollback(s)
    BY <2>1, RollbackOwn
  <2>2. CASE PushFails(s) /\ UNCHANGED npm
    BY <1>0, <2>2, PushFailsFrame, ProxiesSame, FrameStep DEF OwnInv
  <2> QED
    BY <1>4, <2>1, <2>2 DEF RequestFails
<1> QED
  BY <1>1, <1>2, <1>3, <1>4 DEF Finish

(* A killed process leaves what it has booked to a rollback.               *)
LEMMA KillOwn ==
    ASSUME TypeInv, TypeInv', OwnInv, NEW S \in SUBSET Sessions, Kill(S)
    PROVE  OwnInv'
<1>1. Kept /\ Below'
  BY ProxiesSame DEF Kill, npm, TypeInv, OwnInv
<1>2. Frame
  BY DEF Kill, Close, Frame, SameRows, SameTarget, OwnLabels
<1> QED
  BY <1>1, <1>2, FrameStep DEF Kill

(* The invariant is inductive as long as NPM keeps its data.               *)
LEMMA OwnNext ==
    ASSUME "reset" \notin Faults, TypeInv, TypeInv', RowInv, OwnInv, [Next]_vars
    PROVE  OwnInv'
<1>1. ASSUME NEW s \in Sessions, Install(s) \/ Push(s) \/ Finish(s) PROVE OwnInv'
  BY <1>1, InstallOwn, PushOwn, FinishOwn
<1>2. ASSUME NEW s \in Commands, Kill({s}) PROVE OwnInv'
  BY <1>2, KillOwn DEF Sessions
<1>3. CASE Kill(Requests)
  BY <1>3, KillOwn DEF Sessions
<1>4. ~Reset
  BY DEF Reset
<1>5. CASE UNCHANGED vars
  BY <1>5 DEF vars, db, npm, local, OwnInv, Below, Owned
<1> QED
  BY <1>1, <1>2, <1>3, <1>4, <1>5 DEF Next

(* Nothing has an id at first.                                             *)
LEMMA OwnInit == Init => OwnInv
  BY EdgeAssumption DEF Init, OwnInv, Below, Owned, OwnLabels

(* HostService.delete deletes in NPM the host of the domain it was asked    *)
(* to delete, for any number of sessions, hosts and certificates, with      *)
(* torn and failing pushes and killed processes.  Two things are left out,  *)
(* as both give an id out again: NPM's when its data is reset, and a row's  *)
(* when one session deletes it while another, that loaded it, is pushing.   *)
THEOREM RowsNameTheirHosts ==
    ASSUME "reset" \notin Faults, NoDeleteBeside
    PROVE  Spec => []RowsNameOwnProxy
<1>1. TypeInv /\ OwnInv => RowsNameOwnProxy
  BY DEF TypeInv, TypeOK, OwnInv, Owned, RowsNameOwnProxy, Live
<1>2. TypeInv /\ TypeInv' /\ RowInv /\ OwnInv /\ [Next]_vars => OwnInv'
  BY OwnNext
<1> QED
  BY <1>1, <1>2, OwnInit, RowsHold, PTL DEF Spec
=============================================================================
