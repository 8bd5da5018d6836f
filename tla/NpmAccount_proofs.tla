-------------------------- MODULE NpmAccount_proofs --------------------------
(***************************************************************************)
(* Theorems about NpmAccount, for any number of runs, passwords, attempts  *)
(* and faults: types, no bootstrap reports success on an account that is   *)
(* not edgekit's, and none changes an account that is.                     *)
(***************************************************************************)
EXTENDS NpmAccount, TLAPS

\* Where a run that holds a token can only hold one of an account of edgekit's.
Owned == {"secret", "confirm", "created", "setauth", "again", "me"}

\* A token is one of the present account; it is given for the shipped one only
\* to a run that is about to rename it.
TokenInv ==
    \A r \in Runs : token[r] =>
        /\ account # None
        /\ pc[r] \in Owned => account.email = "ours"

\* Only the run that created the user sets its password.
MadeInv == \A r \in Runs : pc[r] \in {"created", "setauth"} => made[r]

Inv == TypeOK /\ TokenInv /\ MadeInv

-----------------------------------------------------------------------------
(* Types.                                                                  *)

Credentials == [email : {"ours"}, secret : Secrets \cup {"changeme", "unset"}]

\* What the steps of a run do to its label, its attempts and its result.
Course ==
    /\ pc' \in [Runs -> Labels]
    /\ left' \in [Runs -> Nat]
    /\ \A r \in Runs : pc'[r] \in Waiting => left'[r] \in 1..Tries[pc'[r]]
    /\ result' \in [Runs -> {"none", "done", "failed"}]

(* A step is entered with all its attempts.                                *)
LEMMA EnterTypes ==
    ASSUME TypeOK, NEW r \in Runs, NEW label \in Labels, Enter(r, label),
           result' \in [Runs -> {"none", "done", "failed"}]
    PROVE  Course
<1>1. pc' = [pc EXCEPT ![r] = label]
  BY DEF Enter, Goto
<1>2. CASE label \in Waiting
  <2>1. left' = [left EXCEPT ![r] = Tries[label]] /\ Tries[label] \in Nat \ {0}
    BY <1>2, AccountAssumption DEF Enter
  <2> QED
    BY <1>1, <2>1 DEF TypeOK, Course
<1>3. CASE label \notin Waiting
  <2>1. left' = [left EXCEPT ![r] = 0]
    BY <1>3 DEF Enter
  <2> QED
    BY <1>1, <1>3, <2>1 DEF TypeOK, Course
<1> QED
  BY <1>2, <1>3

LEMMA EndTypes ==
    ASSUME TypeOK, NEW r \in Runs, NEW outcome \in {"none", "done", "failed"}, End(r, outcome)
    PROVE  Course
<1>1. result' \in [Runs -> {"none", "done", "failed"}]
  BY DEF End, TypeOK
<1>2. "idle" \in Labels
  BY DEF Labels
<1> QED
  BY <1>1, <1>2, EnterTypes DEF End

(* A label that asks again has attempts left.                              *)
LEMMA AskTypes ==
    ASSUME TypeOK, NEW r \in Runs, pc[r] \in Waiting, left[r] > 1,
           left' = [left EXCEPT ![r] = @ - 1], UNCHANGED <<pc, result>>
    PROVE  Course
<1>1. Tries[pc[r]] \in Nat /\ left[r] \in 2..Tries[pc[r]]
  BY AccountAssumption DEF TypeOK
<1> QED
  BY <1>1 DEF TypeOK, Course

LEMMA StayTypes ==
    ASSUME TypeOK, UNCHANGED <<pc, left, result>>
    PROVE  Course
  BY DEF TypeOK, Course

LEMMA FaultTypes ==
    ASSUME TypeOK
    PROVE  /\ Calm => faults' \in 0..MaxFaults
           /\ \A f : Fault(f) \/ Operator(f) => faults' \in 0..MaxFaults
  BY AccountAssumption DEF TypeOK, Calm, Fault, Operator

(* What is left of TypeOK.                                                 *)
LEMMA TypesOf ==
    ASSUME Course,
           image' \in Images, service' \in {"gone", "starting", "listening", "ready"},
           account' \in Account \cup {None}, config' \in Credentials,
           creds' \in [Runs -> Credentials], token' \in [Runs -> BOOLEAN],
           made' \in [Runs -> BOOLEAN], faults' \in 0..MaxFaults
    PROVE  TypeOK'
  BY DEF Course, TypeOK, Credentials

(* The answers and the operator's actions on the account.                  *)
LEMMA AccountTypes ==
    ASSUME TypeOK
    PROVE  /\ Shipped \in Account
           /\ account # None => \A w \in Secrets \cup {"changeme", "unset"} :
                  [account EXCEPT !.secret = w] \in Account
           /\ account # None => [account EXCEPT !.email = "ours"] \in Account
           /\ \A r \in Runs : creds[r] \in Credentials
  BY DEF TypeOK, Account, Credentials, Shipped

LEMMA OfferedTypes ==
    ASSUME TypeOK, NEW r \in Runs
    PROVE  Accepts(Offered(r)) => account # None
  BY AccountAssumption DEF TypeOK, Accepts, Offered, Shipped, Credentials, Account

(* The steps of a run keep the types.                                      *)
LEMMA StepTypes ==
    ASSUME Inv, NEW r \in Runs, Step(r)
    PROVE  TypeOK'
<1> USE DEF npm
<1>0. TypeOK /\ TokenInv
  BY DEF Inv
<1>1. CASE Deploy(r)
  <2>1. Course
    BY <1>0, <1>1, EnterTypes DEF Deploy, Labels, Waiting, TypeOK
  <2>2. faults' \in 0..MaxFaults
    BY <1>0, <1>1, FaultTypes DEF Deploy
  <2> QED
    BY <1>0, <1>1, <2>1, <2>2, TypesOf DEF Deploy, TypeOK, Credentials
<1>2. CASE Ready(r)
  <2>1. Course
    BY <1>0, <1>2, EnterTypes DEF Ready, Labels, Waiting, TypeOK
  <2>2. faults' \in 0..MaxFaults
    BY <1>0, <1>2, FaultTypes DEF Ready
  <2> QED
    BY <1>0, <1>2, <2>1, <2>2, TypesOf DEF Ready, TypeOK, Credentials
<1>3. CASE NotReady(r)
  <2>1. Course
    <3>1. CASE left[r] > 1 /\ left' = [left EXCEPT ![r] = @ - 1] /\ UNCHANGED <<pc, result>>
      BY <1>0, <1>3, <3>1, AskTypes DEF NotReady, Waiting
    <3>2. CASE End(r, "failed")
      BY <1>0, <3>2, EndTypes
    <3> QED
      BY <1>3, <3>1, <3>2 DEF NotReady
  <2>2. faults' \in 0..MaxFaults
    BY <1>0, <1>3, FaultTypes DEF NotReady
  <2> QED
    BY <1>0, <1>3, <2>1, <2>2, TypesOf DEF NotReady, TypeOK, Credentials
<1>4. CASE LoginAccepted(r)
  <2>1. Course
    BY <1>0, <1>4, EnterTypes DEF LoginAccepted, Accepted, Labels, Waiting, TypeOK
  <2>2. faults' \in 0..MaxFaults
    BY <1>0, <1>4, FaultTypes DEF LoginAccepted
  <2> QED
    BY <1>0, <1>4, <2>1, <2>2, TypesOf DEF LoginAccepted, TypeOK, Credentials
<1>5. CASE LoginRejected(r)
  <2>1. Course
    <3>1. CASE left[r] > 1 /\ left' = [left EXCEPT ![r] = @ - 1] /\ UNCHANGED <<pc, result>>
      BY <1>0, <1>5, <3>1, AskTypes DEF LoginRejected, Logins
    <3>2. CASE GiveUp(pc[r]) # "failed" /\ Enter(r, GiveUp(pc[r])) /\ UNCHANGED result
      <4>1. GiveUp(pc[r]) \in Labels
        BY <3>2 DEF GiveUp, Labels, Waiting
      <4> QED
        BY <1>0, <3>2, <4>1, EnterTypes DEF TypeOK
    <3>3. CASE End(r, "failed")
      BY <1>0, <3>3, EndTypes
    <3> QED
      BY <1>5, <3>1, <3>2, <3>3 DEF LoginRejected
  <2>2. faults' \in 0..MaxFaults
    BY <1>0, <1>5, FaultTypes DEF LoginRejected
  <2> QED
    BY <1>0, <1>5, <2>1, <2>2, TypesOf DEF LoginRejected, TypeOK, Credentials
<1>6. CASE Unanswered(r) \/ Refused(r)
  <2>1. Course
    BY <1>0, <1>6, EndTypes DEF Unanswered, Refused
  <2>2. faults' \in 0..MaxFaults
    BY <1>0, <1>6, FaultTypes DEF Unanswered, Refused
  <2>3. UNCHANGED <<npm, config, creds, token, made>>
    BY <1>6 DEF Unanswered, Refused
  <2> QED
    BY <1>0, <2>1, <2>2, <2>3, TypesOf DEF TypeOK, Credentials
<1>7. CASE PutEmail(r)
  <2>1. Course
    BY <1>0, <1>7, EnterTypes, EndTypes DEF PutEmail, Labels, Waiting, TypeOK
  <2>2. faults' \in 0..MaxFaults
    BY <1>0, <1>7, FaultTypes DEF PutEmail
  <2>3. account # None
    BY <1>0, <1>7, OfferedTypes DEF PutEmail, Authorised, TokenInv
  <2>4. account' \in Account
    BY <1>0, <1>7, <2>3, AccountTypes DEF PutEmail
  <2> QED
    BY <1>0, <1>7, <2>1, <2>2, <2>4, TypesOf DEF PutEmail, TypeOK, Credentials
<1>8. CASE PutSecret(r)
  <2>1. Course
    BY <1>0, <1>8, EnterTypes, EndTypes DEF PutSecret, Labels, Waiting, TypeOK
  <2>2. faults' \in 0..MaxFaults
    BY <1>0, <1>8, FaultTypes DEF PutSecret
  <2>3. account # None
    BY <1>0, <1>8, OfferedTypes DEF PutSecret, Authorised, TokenInv
  <2>4. account' \in Account
    BY <1>0, <1>8, <2>3, AccountTypes DEF PutSecret, Credentials
  <2> QED
    BY <1>0, <1>8, <2>1, <2>2, <2>4, TypesOf DEF PutSecret, TypeOK, Credentials
<1>9. CASE CreateUser(r)
  <2>1. Course
    BY <1>0, <1>9, EnterTypes, EndTypes DEF CreateUser, Labels, Waiting, TypeOK
  <2>2. faults' \in 0..MaxFaults
    BY <1>0, <1>9, FaultTypes DEF CreateUser
  <2>3. account' \in Account
    BY <1>0, <1>9, AccountTypes DEF CreateUser, Account, Credentials
  <2> QED
    BY <1>0, <1>9, <2>1, <2>2, <2>3, TypesOf DEF CreateUser, TypeOK, Credentials
<1>10. CASE SetAuth(r)
  <2>1. Course
    BY <1>0, <1>10, EnterTypes DEF SetAuth, Labels, Waiting, TypeOK
  <2>2. faults' \in 0..MaxFaults
    BY <1>0, <1>10, FaultTypes DEF SetAuth
  <2>3. account' \in Account \cup {None}
    <3>1. creds[r].secret \in Secrets \cup {"changeme", "unset"}
      BY <1>0, AccountTypes DEF Credentials
    <3>2. CASE account # None /\ account' = [account EXCEPT !.secret = creds[r].secret]
      BY <1>0, <3>1, <3>2, AccountTypes
    <3>3. CASE account' = account
      BY <1>0, <3>3 DEF TypeOK
    <3> QED
      BY <1>10, <3>2, <3>3 DEF SetAuth
  <2> QED
    BY <1>0, <1>10, <2>1, <2>2, <2>3, TypesOf DEF SetAuth, TypeOK, Credentials
<1>11. CASE Me(r)
  <2>1. Course
    BY <1>0, <1>11, EndTypes DEF Me
  <2>2. faults' \in 0..MaxFaults
    BY <1>0, <1>11, FaultTypes DEF Me
  <2> QED
    BY <1>0, <1>11, <2>1, <2>2, TypesOf DEF Me, TypeOK, Credentials
<1>12. CASE Down(r) \/ Wipe(r) \/ Up(r)
  <2>1. Course
    BY <1>0, <1>12, EnterTypes, EndTypes DEF Down, Wipe, Up, Labels, Waiting, TypeOK
  <2>2. faults' \in 0..MaxFaults
    BY <1>0, <1>12, FaultTypes DEF Down, Wipe, Up
  <2> QED
    BY <1>0, <1>12, <2>1, <2>2, TypesOf DEF Down, Wipe, Up, TypeOK, Credentials
<1> QED
  BY <1>1, <1>2, <1>3, <1>4, <1>5, <1>6, <1>7, <1>8, <1>9, <1>10, <1>11, <1>12 DEF Step

(* Every step keeps the types.                                             *)
LEMMA NextTypes ==
    ASSUME Inv, [Next]_vars
    PROVE  TypeOK'
<1> USE DEF npm, local
<1>0. TypeOK
  BY DEF Inv
<1>1. CASE Listen \/ Seed \/ Restart
  <2>1. Course
    BY <1>0, <1>1, StayTypes DEF Listen, Seed, Restart
  <2>2. faults' \in 0..MaxFaults
    BY <1>0, <1>1, FaultTypes DEF Listen, Seed, Restart
  <2> QED
    BY <1>0, <1>1, <2>1, <2>2, TypesOf, AccountTypes DEF Listen, Seed, Restart, TypeOK, Credentials
<1>2. ASSUME NEW r \in Runs, Begin(r) PROVE TypeOK'
  <2>1. Course
    BY <1>0, <1>2, EnterTypes DEF Begin, Labels, Waiting, TypeOK
  <2>2. faults' \in 0..MaxFaults
    BY <1>0, <1>2, FaultTypes DEF Begin
  <2> QED
    BY <1>0, <1>2, <2>1, <2>2, TypesOf DEF Begin, TypeOK, Credentials
<1>3. ASSUME NEW r \in Runs, Step(r) PROVE TypeOK'
  BY <1>3, StepTypes
<1>4. ASSUME NEW r \in Runs, Kill(r) PROVE TypeOK'
  <2>1. Course
    BY <1>0, <1>4, EndTypes DEF Kill
  <2>2. faults' \in 0..MaxFaults
    BY <1>0, <1>4, FaultTypes DEF Kill
  <2> QED
    BY <1>0, <1>4, <2>1, <2>2, TypesOf DEF Kill, TypeOK, Credentials
<1>5. CASE Form \/ Password \/ Change
  <2>1. Course
    BY <1>0, <1>5, StayTypes DEF Form, Password, Change
  <2>2. faults' \in 0..MaxFaults
    BY <1>0, <1>5, FaultTypes DEF Form, Password, Change
  <2>3. config' \in Credentials /\ account' \in Account \cup {None}
    BY <1>0, <1>5 DEF Form, Password, Change, Ours, Credentials, Account, TypeOK
  <2> QED
    BY <1>0, <1>5, <2>1, <2>2, <2>3, TypesOf DEF Form, Password, Change, TypeOK, Credentials
<1>6. CASE UNCHANGED vars
  BY <1>0, <1>6 DEF vars, TypeOK
<1> QED
  BY <1>1, <1>2, <1>3, <1>4, <1>5, <1>6 DEF Next, Boot
-----------------------------------------------------------------------------
(* Tokens, and the user a run created.                                     *)

(* Offered credentials are accepted by an account that is NPM's present    *)
(* one; except when probing, they are edgekit's.                           *)
LEMMA AcceptedAccount ==
    ASSUME TypeOK, NEW r \in Runs, Accepts(Offered(r))
    PROVE  /\ account # None
           /\ pc[r] \notin {"probe", "email", "secret"} => account.email = "ours"
<1>1. account # None
  BY OfferedTypes
<1>2. creds[r] \in Credentials
  BY AccountTypes
<1> QED
  BY <1>1, <1>2 DEF Accepts, Offered, Credentials

(* The account keeps its existence and its owner: so do the tokens of the  *)
(* runs that are not at this step.                                         *)
LEMMA OthersKeep ==
    ASSUME Inv, NEW r \in Runs,
           \A s \in Runs \ {r} : pc'[s] = pc[s] /\ token'[s] = token[s] /\ made'[s] = made[s],
           account # None => account' # None,
           account # None => (account.email = "ours" => account'.email = "ours"),
           token'[r] => account' # None /\ (pc'[r] \in Owned => account'.email = "ours"),
           pc'[r] \in {"created", "setauth"} => made'[r]
    PROVE  TokenInv' /\ MadeInv'
<1>1. ASSUME NEW s \in Runs, token'[s]
      PROVE  account' # None /\ (pc'[s] \in Owned => account'.email = "ours")
  <2>1. CASE s = r
    BY <1>1, <2>1
  <2>2. CASE s # r
    BY <1>1, <2>2 DEF Inv, TokenInv
  <2> QED
    BY <2>1, <2>2
<1>2. ASSUME NEW s \in Runs, pc'[s] \in {"created", "setauth"}
      PROVE  made'[s]
  <2>1. CASE s = r
    BY <1>2, <2>1
  <2>2. CASE s # r
    BY <1>2, <2>2 DEF Inv, MadeInv
  <2> QED
    BY <2>1, <2>2
<1> QED
  BY <1>1, <1>2 DEF TokenInv, MadeInv

(* A step that moves only its own run.                                     *)
LEMMA MovesOwn ==
    ASSUME TypeOK, NEW r \in Runs, NEW label, Enter(r, label)
    PROVE  pc'[r] = label /\ \A s \in Runs \ {r} : pc'[s] = pc[s]
  BY DEF Enter, Goto, TypeOK

LEMMA StepOwners ==
    ASSUME Inv, NEW r \in Runs, Step(r)
    PROVE  TokenInv' /\ MadeInv'
<1> USE DEF npm
<1>0. TypeOK /\ TokenInv /\ MadeInv
  BY DEF Inv
<1>1. CASE Deploy(r) \/ Ready(r)
  <2>1. PICK label \in {"wait", "own"} : Enter(r, label)
    BY <1>1 DEF Deploy, Ready
  <2>2. pc[r] \in {"deploy", "wait"}
    BY <1>1 DEF Deploy, Ready
  <2>3. UNCHANGED <<account, token, made>>
    BY <1>1 DEF Deploy, Ready
  <2>4. pc'[r] = label /\ \A s \in Runs \ {r} : pc'[s] = pc[s]
    BY <1>0, <2>1, MovesOwn
  <2>5. token'[r] => account' # None /\ (pc'[r] \in Owned => account'.email = "ours")
    BY <1>0, <2>1, <2>3, <2>4 DEF TokenInv, Owned
  <2> QED
    BY <2>1, <2>3, <2>4, <2>5, OthersKeep
<1>2. CASE NotReady(r) \/ LoginRejected(r) \/ Unanswered(r) \/ Refused(r) \/ Up(r) \/ Down(r)
  <2>1. \/ UNCHANGED pc
        \/ \E label \in {"idle", "wipe", "probe", "create", "failed"} : Enter(r, label)
        \/ pc[r] = "created" /\ Enter(r, "setauth")
    BY <1>2 DEF NotReady, LoginRejected, Unanswered, Refused, Up, Down, End, GiveUp, Logins, Waiting
  <2>2. UNCHANGED <<account, token, made>>
    BY <1>2 DEF NotReady, LoginRejected, Unanswered, Refused, Up, Down
  <2>3. CASE UNCHANGED pc
    BY <1>0, <2>2, <2>3 DEF TokenInv, MadeInv
  <2>4. ASSUME NEW label \in {"idle", "wipe", "probe", "create", "failed"}, Enter(r, label)
        PROVE  TokenInv' /\ MadeInv'
    <3>1. pc'[r] = label /\ \A s \in Runs \ {r} : pc'[s] = pc[s]
      BY <1>0, <2>4, MovesOwn
    <3>2. token'[r] => account' # None /\ (pc'[r] \in Owned => account'.email = "ours")
      BY <1>0, <2>2, <3>1 DEF TokenInv, Owned
    <3> QED
      BY <2>2, <3>1, <3>2, OthersKeep
  <2>5. CASE pc[r] = "created" /\ Enter(r, "setauth")
    <3>1. pc'[r] = "setauth" /\ \A s \in Runs \ {r} : pc'[s] = pc[s]
      BY <1>0, <2>5, MovesOwn
    <3>2. token'[r] => account' # None /\ (pc'[r] \in Owned => account'.email = "ours")
      BY <1>0, <2>2, <2>5, <3>1 DEF TokenInv, Owned
    <3>3. made'[r]
      BY <1>0, <2>2, <2>5 DEF MadeInv
    <3> QED
      BY <2>2, <3>1, <3>2, <3>3, OthersKeep
  <2> QED
    BY <2>1, <2>3, <2>4, <2>5
<1>3. CASE LoginAccepted(r)
  <2>1. Enter(r, Accepted(pc[r])) /\ UNCHANGED <<account, made>>
        /\ pc[r] \in Logins /\ Accepts(Offered(r))
    BY <1>3 DEF LoginAccepted
  <2>2. pc'[r] = Accepted(pc[r]) /\ \A s \in Runs \ {r} : pc'[s] = pc[s]
    BY <1>0, <2>1, MovesOwn
  <2>3. \A s \in Runs \ {r} : token'[s] = token[s]
    BY <1>0, <1>3 DEF LoginAccepted, TypeOK
  <2>4. account # None /\ (pc[r] # "probe" => account.email = "ours")
    BY <1>0, <2>1, AcceptedAccount DEF Logins, Waiting
  <2>5. pc'[r] \in Owned => account'.email = "ours"
    BY <2>1, <2>2, <2>4 DEF Accepted, Owned
  <2>6. pc'[r] \notin {"created", "setauth"}
    BY <2>2 DEF Accepted
  <2> QED
    BY <2>1, <2>2, <2>3, <2>4, <2>5, <2>6, OthersKeep
<1>4. CASE PutEmail(r)
  <2>1. Authorised(r) /\ account' = [account EXCEPT !.email = "ours"] /\ UNCHANGED <<token, made>>
    BY <1>4 DEF PutEmail
  <2>2. PICK label \in {"secret", "idle"} : Enter(r, label)
    BY <1>4 DEF PutEmail, End
  <2>3. account # None
    BY <1>0, <2>1, OfferedTypes DEF Authorised, TokenInv
  <2>4. account' \in Account /\ account'.email = "ours"
    BY <1>0, <2>1, <2>3, AccountTypes DEF TypeOK, Account
  <2>5. account' # None
    BY <2>4, AccountAssumption DEF Account
  <2>6. pc'[r] = label /\ \A s \in Runs \ {r} : pc'[s] = pc[s]
    BY <1>0, <2>2, MovesOwn
  <2> QED
    BY <2>1, <2>2, <2>4, <2>5, <2>6, OthersKeep
<1>5. CASE PutSecret(r) \/ SetAuth(r)
  <2>1. UNCHANGED <<token, made>> /\ pc[r] \in {"secret", "setauth"}
    BY <1>5 DEF PutSecret, SetAuth
  <2>2. PICK label \in {"confirm", "idle", "again"} : Enter(r, label)
    BY <1>5 DEF PutSecret, SetAuth, End
  <2>3. account' = account \/ (account # None /\ account' = [account EXCEPT !.secret = creds[r].secret])
    <3>1. PutSecret(r) => account # None
      BY <1>0, OfferedTypes DEF PutSecret, Authorised, TokenInv
    <3> QED
      BY <1>5, <3>1 DEF PutSecret, SetAuth
  <2>4. account # None => account' # None /\ account'.email = account.email
    <3>1. SUFFICES ASSUME account # None, account' = [account EXCEPT !.secret = creds[r].secret]
                   PROVE  account' # None /\ account'.email = account.email
      BY <2>3
    <3>2. account \in Account /\ creds[r].secret \in Secrets \cup {"changeme", "unset"}
      BY <1>0, <3>1, AccountTypes DEF TypeOK, Credentials
    <3>3. account' \in Account /\ account'.email = account.email
      BY <3>1, <3>2 DEF Account
    <3> QED
      BY <3>3, AccountAssumption DEF Account
  <2>5. pc'[r] = label /\ \A s \in Runs \ {r} : pc'[s] = pc[s]
    BY <1>0, <2>2, MovesOwn
  <2>6. token'[r] => account' # None /\ (pc'[r] \in Owned => account'.email = "ours")
    BY <1>0, <2>1, <2>4 DEF TokenInv, Owned
  <2> QED
    BY <2>1, <2>2, <2>4, <2>5, <2>6, OthersKeep
<1>6. CASE CreateUser(r)
  <2>1. account = None /\ UNCHANGED token
    BY <1>6 DEF CreateUser
  <2>2. account' \in Account /\ account'.email = "ours"
    BY <1>0, <1>6, AccountTypes DEF CreateUser, Account, Credentials
  <2>3. account' # None
    BY <2>2, AccountAssumption DEF Account
  <2>4. (Enter(r, "created") /\ made' = [made EXCEPT ![r] = TRUE])
        \/ (Enter(r, "idle") /\ UNCHANGED made)
    BY <1>6 DEF CreateUser, End
  <2>5. pc'[r] \in {"created", "idle"} /\ \A s \in Runs \ {r} : pc'[s] = pc[s]
    BY <1>0, <2>4, MovesOwn
  <2>6. /\ \A s \in Runs \ {r} : made'[s] = made[s]
        /\ pc'[r] \in {"created", "setauth"} => made'[r]
    <3>1. CASE Enter(r, "created") /\ made' = [made EXCEPT ![r] = TRUE]
      BY <1>0, <3>1 DEF TypeOK
    <3>2. CASE Enter(r, "idle") /\ UNCHANGED made
      BY <1>0, <3>2, MovesOwn
    <3> QED
      BY <2>4, <3>1, <3>2
  <2> QED
    BY <2>1, <2>2, <2>3, <2>5, <2>6, OthersKeep
<1>7. CASE Me(r)
  <2>1. Enter(r, "idle") /\ UNCHANGED <<account, token, made>>
    BY <1>7 DEF Me, End
  <2>2. pc'[r] = "idle" /\ \A s \in Runs \ {r} : pc'[s] = pc[s]
    BY <1>0, <2>1, MovesOwn
  <2> QED
    BY <1>0, <2>1, <2>2, OthersKeep DEF TokenInv, Owned
<1>8. CASE Wipe(r)
  <2>1. \A s \in Runs : ~token'[s]
    BY <1>8 DEF Wipe
  <2>2. Enter(r, "up") /\ UNCHANGED made
    BY <1>8 DEF Wipe
  <2>3. pc'[r] = "up" /\ \A s \in Runs \ {r} : pc'[s] = pc[s]
    BY <1>0, <2>2, MovesOwn
  <2> QED
    BY <1>0, <2>1, <2>2, <2>3 DEF TokenInv, MadeInv
<1> QED
  BY <1>1, <1>2, <1>3, <1>4, <1>5, <1>6, <1>7, <1>8 DEF Step

LEMMA NextOwners ==
    ASSUME Inv, [Next]_vars
    PROVE  TokenInv' /\ MadeInv'
<1> USE DEF npm, local
<1>0. TypeOK /\ TokenInv /\ MadeInv
  BY DEF Inv
<1>1. CASE Listen \/ Seed \/ Restart \/ Form \/ Password \/ Change \/ UNCHANGED vars
  <2>1. UNCHANGED <<pc, token, made>>
    BY <1>1 DEF Listen, Seed, Restart, Form, Password, Change, vars
  <2>2. account # None => account' = account \/ (account' \in Ours /\ account'.email = "ours")
    BY <1>1 DEF Listen, Seed, Restart, Form, Password, Change, vars, Ours
  <2>3. None \notin Ours
    BY AccountAssumption DEF Ours
  <2> QED
    BY <1>0, <2>1, <2>2, <2>3 DEF TokenInv, MadeInv
<1>2. ASSUME NEW r \in Runs, Begin(r) PROVE TokenInv' /\ MadeInv'
  <2>1. Enter(r, "deploy") \/ Enter(r, "down")
    BY <1>2 DEF Begin
  <2>2. pc'[r] \in {"deploy", "down"} /\ \A s \in Runs \ {r} : pc'[s] = pc[s]
    BY <1>0, <2>1, MovesOwn
  <2>3. /\ ~token'[r]
        /\ \A s \in Runs \ {r} : token'[s] = token[s] /\ made'[s] = made[s]
        /\ UNCHANGED account
    BY <1>0, <1>2 DEF Begin, TypeOK
  <2> QED
    BY <2>2, <2>3, OthersKeep
<1>3. ASSUME NEW r \in Runs, Step(r) PROVE TokenInv' /\ MadeInv'
  BY <1>3, StepOwners
<1>4. ASSUME NEW r \in Runs, Kill(r) PROVE TokenInv' /\ MadeInv'
  <2>1. Enter(r, "idle") /\ UNCHANGED <<account, token, made>>
    BY <1>4 DEF Kill, End
  <2>2. pc'[r] = "idle" /\ \A s \in Runs \ {r} : pc'[s] = pc[s]
    BY <1>0, <2>1, MovesOwn
  <2> QED
    BY <1>0, <2>1, <2>2, OthersKeep DEF TokenInv, Owned
<1> QED
  BY <1>1, <1>2, <1>3, <1>4 DEF Next, Boot

LEMMA InitInv == Init => Inv
<1> SUFFICES ASSUME Init PROVE Inv
  OBVIOUS
<1>1. TypeOK
  BY AccountAssumption DEF Init, TypeOK, Ours, Labels, Waiting
<1>2. TokenInv /\ MadeInv
  BY DEF Init, TokenInv, MadeInv
<1> QED
  BY <1>1, <1>2 DEF Inv

LEMMA NextInv == Inv /\ [Next]_vars => Inv'
  BY NextTypes, NextOwners DEF Inv

LEMMA Invariant == Spec => []Inv
  BY InitInv, NextInv, PTL DEF Spec

-----------------------------------------------------------------------------
(* The theorems.                                                           *)

(* Every variable keeps its type, whatever the images do and the runs meet.*)
THEOREM AccountTypeCorrect == Spec => []TypeOK
  BY Invariant, PTL DEF Inv

(* Only the last request of the bootstrap reports success, and it is       *)
(* answered for an account of edgekit's alone.                             *)
LEMMA ReportStep ==
    ASSUME Inv, [Next]_vars, NEW r \in Runs, result'[r] = "done", result[r] # "done"
    PROVE  account # None /\ account.email # "shipped"
<1> USE DEF npm, local
<1>0. TypeOK /\ TokenInv
  BY DEF Inv
<1>1. ASSUME NEW s \in Runs, Step(s) PROVE s = r /\ Me(r)
  <2>1. CASE Deploy(s) \/ Ready(s) \/ LoginAccepted(s) \/ SetAuth(s) \/ Down(s) \/ Wipe(s)
    BY <2>1 DEF Deploy, Ready, LoginAccepted, SetAuth, Down, Wipe
  <2>2. CASE NotReady(s) \/ LoginRejected(s) \/ Unanswered(s) \/ Refused(s) \/ Up(s)
             \/ PutEmail(s) \/ PutSecret(s) \/ CreateUser(s)
    <3>1. UNCHANGED result \/ (\E o \in {"none", "failed"} : result' = [result EXCEPT ![s] = o])
      BY <2>2 DEF NotReady, LoginRejected, Unanswered, Refused, Up, PutEmail, PutSecret,
                  CreateUser, End
    <3> QED
      BY <1>0, <3>1 DEF TypeOK
  <2>3. CASE Me(s)
    <3>1. result' = [result EXCEPT ![s] = "done"]
      BY <2>3 DEF Me, End
    <3> QED
      BY <1>0, <2>3, <3>1 DEF TypeOK
  <2> QED
    BY <1>1, <2>1, <2>2, <2>3 DEF Step
<1>2. ASSUME NEW s \in Runs, Begin(s) \/ Kill(s) PROVE FALSE
  <2>1. result' = [result EXCEPT ![s] = "none"]
    BY <1>2 DEF Begin, Kill, End
  <2> QED
    BY <1>0, <2>1 DEF TypeOK
<1>3. ~(Boot \/ Restart \/ Form \/ Password \/ Change \/ UNCHANGED vars)
  BY DEF Boot, Listen, Seed, Restart, Form, Password, Change, vars
<1>4. Me(r)
  BY <1>1, <1>2, <1>3 DEF Next
<1>5. pc[r] = "me" /\ Authorised(r)
  BY <1>4 DEF Me
<1>6. account # None /\ account.email = "ours"
  BY <1>0, <1>5, AcceptedAccount DEF Authorised, TokenInv, Owned
<1> QED
  BY <1>6

THEOREM SuccessIsSecured == Spec => SecuredWhenReported
<1>1. Inv /\ [Next]_vars =>
        [\A r \in Runs : result'[r] = "done" /\ result[r] # "done" =>
             account # None /\ account.email # "shipped"]_vars
  BY ReportStep
<1> QED
  BY <1>1, Invariant, PTL DEF Spec, SecuredWhenReported

(* An account of edgekit's is wiped, given a password by a run that has    *)
(* created a user, or changed by the operator, never by another step.      *)
LEMMA KeepStep ==
    ASSUME Inv, [Next]_vars, account' # account, account \in Ours
    PROVE  \/ account' = None /\ \E r \in Runs : pc[r] = "wipe"
           \/ \E r \in Runs : pc[r] = "setauth" /\ made[r]
           \/ Change
<1> USE DEF npm, local
<1>0. TypeOK /\ MadeInv
  BY DEF Inv
<1>1. account # None /\ account.email = "ours" /\ account.secret # "changeme"
  BY AccountAssumption DEF Ours
<1>2. ASSUME NEW r \in Runs, Step(r)
      PROVE  \/ account' = None /\ pc[r] = "wipe"
             \/ pc[r] = "setauth" /\ made[r]
  <2>1. ~(Deploy(r) \/ Ready(r) \/ NotReady(r) \/ LoginAccepted(r) \/ LoginRejected(r)
          \/ Unanswered(r) \/ Refused(r) \/ Me(r) \/ Down(r) \/ Up(r))
    BY DEF Deploy, Ready, NotReady, LoginAccepted, LoginRejected, Unanswered, Refused, Me, Down, Up
  <2>2. ~PutEmail(r)
    <3>1. [account EXCEPT !.email = "ours"] = account
      BY <1>1 DEF Ours
    <3> QED
      BY <3>1 DEF PutEmail
  <2>3. ~PutSecret(r) /\ ~CreateUser(r)
    BY <1>1 DEF PutSecret, CreateUser
  <2>4. SetAuth(r) => pc[r] = "setauth" /\ made[r]
    BY <1>0 DEF SetAuth, MadeInv
  <2>5. Wipe(r) => account' = None /\ pc[r] = "wipe"
    BY DEF Wipe
  <2> QED
    BY <1>2, <2>1, <2>2, <2>3, <2>4, <2>5 DEF Step
<1>3. ASSUME NEW r \in Runs, Begin(r) \/ Kill(r) PROVE FALSE
  BY <1>3 DEF Begin, Kill
<1>4. ~(Listen \/ Seed \/ Restart \/ Form \/ Password \/ UNCHANGED vars)
  BY <1>1 DEF Listen, Seed, Restart, Form, Password, vars
<1> QED
  BY <1>2, <1>3, <1>4 DEF Next, Boot

(* bootstrap_admin leaves an account of edgekit's alone, for any number of *)
(* runs, images and faults: but for resets, the operator and a run that    *)
(* has created a user and sets its password, no step changes one.          *)
THEOREM OwnAccountKept == Spec => OwnAccountStays
<1>1. Inv /\ [Next]_vars =>
        [account' # account /\ account \in Ours =>
           \/ account' = None /\ \E r \in Runs : pc[r] = "wipe"
           \/ \E r \in Runs : pc[r] = "setauth" /\ made[r]
           \/ Change]_vars
  BY KeepStep
<1> QED
  BY <1>1, Invariant, PTL DEF Spec, OwnAccountStays

=============================================================================
