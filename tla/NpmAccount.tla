----------------------------- MODULE NpmAccount -----------------------------
(***************************************************************************)
(* The administrator's account of Nginx Proxy Manager (NPM), and how       *)
(* edgekit comes to own it: the container is deployed, its API comes up    *)
(* before its users exist, and the bootstrap then finds its own            *)
(* credentials accepted, rotates the shipped ones in two requests, or      *)
(* creates the first user.  Which of these applies depends on the image.   *)
(*                                                                         *)
(* A run is a process that provisions or resets NPM.  Each request is a    *)
(* step; between two of them the container may restart, the answer may be  *)
(* lost, the process may die, and another run may do the same.             *)
(***************************************************************************)
EXTENDS Naturals

CONSTANTS
    Runs,      \* processes that provision or reset NPM
    Secrets,   \* passwords an operator may choose
    Images,    \* "legacy", "setup", "noauth": the images NPM may be
    Tries,     \* label of a waiting step -> how often it asks
    Ops,       \* "provision", "reset", "form", "password", "change"
    Faults,    \* "crash", "lost", "refused", "restart"
    MaxFaults, \* bound: faults and operator's actions in a behaviour
    None

\* Steps that poll: for the listener, and for a login.
Waiting == {"wait", "own", "probe", "confirm", "created", "again"}
Logins  == Waiting \ {"wait"}
Labels  == Waiting \cup {"idle", "deploy", "email", "secret", "create", "setauth", "me",
                         "down", "wipe", "up"}

ASSUME AccountAssumption ==
    /\ Images \subseteq {"legacy", "setup", "noauth"} /\ Images # {}
    /\ Tries \in [Waiting -> Nat \ {0}]
    /\ MaxFaults \in Nat
    /\ Secrets # {} /\ "changeme" \notin Secrets /\ "unset" \notin Secrets
    /\ \A e \in {"shipped", "ours"}, w \in Secrets \cup {"changeme", "unset"} :
           [email |-> e, secret |-> w] # None

VARIABLES
    image,    \* which account NPM seeds, and whether a new user gets a password
    service,  \* the container: "gone", "starting", "listening", "ready"
    account,  \* NPM's only user, or None
    config,   \* npm.admin_email and npm.admin_password of config.yaml
    pc,       \* where each run is
    creds,    \* the credentials a run read from the configuration
    token,    \* the run holds a token of the present NPM
    made,     \* the run holds the id of a user it created
    left,     \* how often a waiting step still asks
    result,   \* how the bootstrap step of the last provisioning ended
    faults    \* what went wrong so far

npm   == <<image, service, account>>
local == <<creds, token, made, left>>
vars  == <<npm, config, pc, local, result, faults>>

Account == [email : {"shipped", "ours"}, secret : Secrets \cup {"changeme", "unset"}]
Ours    == [email : {"ours"}, secret : Secrets]
Shipped == [email |-> "shipped", secret |-> "changeme"]

Init ==
    /\ image \in Images
    /\ service = "gone"
    /\ account = None
    /\ config \in Ours
    /\ pc = [r \in Runs |-> "idle"]
    /\ creds \in [Runs -> {config}]
    /\ token = [r \in Runs |-> FALSE]
    /\ made = [r \in Runs |-> FALSE]
    /\ left = [r \in Runs |-> 0]
    /\ result = [r \in Runs |-> "none"]
    /\ faults = 0

-----------------------------------------------------------------------------
(* Helpers.                                                                *)

Goto(r, label) == pc' = [pc EXCEPT ![r] = label]

\* A waiting step starts with all its attempts.
Enter(r, label) ==
    /\ Goto(r, label)
    /\ left' = [left EXCEPT ![r] = IF label \in Waiting THEN Tries[label] ELSE 0]

End(r, outcome) ==
    /\ Enter(r, "idle")
    /\ result' = [result EXCEPT ![r] = outcome]

Fault(f) == f \in Faults /\ faults < MaxFaults /\ faults' = faults + 1

\* An action of an operator that TLC counts among the disturbances.
Operator(op) == op \in Ops /\ faults < MaxFaults /\ faults' = faults + 1

Calm == faults' = faults

-----------------------------------------------------------------------------
(* NPM itself.                                                             *)

\* The listener answers before the first migrations have run.
Listen ==
    /\ service = "starting"
    /\ service' = "listening"
    /\ UNCHANGED <<image, account, config, pc, local, result>> /\ Calm

\* Images before 2.13 seed an account, later ones wait for the first user.
Seed ==
    /\ service = "listening"
    /\ service' = "ready"
    /\ account' = IF account = None /\ image = "legacy" THEN Shipped ELSE account
    /\ UNCHANGED <<image, config, pc, local, result>> /\ Calm

Restart ==
    /\ service \in {"listening", "ready"}
    /\ Fault("restart")
    /\ service' = "starting"
    /\ UNCHANGED <<image, account, config, pc, local, result>>

-----------------------------------------------------------------------------
(* Provisioning: the container, then the account.                          *)

Begin(r) ==
    /\ pc[r] = "idle"
    /\ \/ "provision" \in Ops /\ Enter(r, "deploy") /\ Calm
       \/ Operator("reset") /\ Enter(r, "down")
    /\ creds' = [creds EXCEPT ![r] = config]
    /\ token' = [token EXCEPT ![r] = FALSE]
    /\ made' = [made EXCEPT ![r] = FALSE]
    /\ result' = [result EXCEPT ![r] = "none"]
    /\ UNCHANGED <<npm, config>>

\* A failed deployment does not keep the bootstrap from being tried.
Deploy(r) ==
    /\ pc[r] = "deploy"
    /\ \/ service' = (IF service = "gone" THEN "starting" ELSE service) /\ Calm
       \/ service' = service /\ Fault("refused")
    /\ Enter(r, "wait")
    /\ UNCHANGED <<image, account, config, creds, token, made, result>>

\* wait_until_ready: any answer below 500 will do; what fails is asked again.
Ready(r) ==
    /\ pc[r] = "wait"
    /\ service \in {"listening", "ready"}
    /\ Enter(r, "own")
    /\ UNCHANGED <<npm, config, creds, token, made, result>> /\ Calm

NotReadyForever(r) ==            \* mutant: no end to the attempts
    /\ pc[r] = "wait"
    /\ service \in {"gone", "starting"}
    /\ left' = [left EXCEPT ![r] = @ - 1]
    /\ UNCHANGED <<npm, config, pc, creds, token, made, result>> /\ Calm

NotReady(r) ==
    /\ pc[r] = "wait"
    /\ service \in {"gone", "starting"}
    /\ \/ /\ left[r] > 1
          /\ left' = [left EXCEPT ![r] = @ - 1]
          /\ UNCHANGED <<pc, result>>
       \/ left[r] = 1 /\ End(r, "failed")
    /\ UNCHANGED <<npm, config, creds, token, made>> /\ Calm

\* The credentials a login step offers, ...
Offered(r) == IF pc[r] \in {"probe", "email", "secret"} THEN Shipped ELSE creds[r]

Accepts(c) == service = "ready" /\ account = c

\* A token of an NPM that was wiped is answered with 401, and the client logs in again.
Authorised(r) == service = "ready" /\ (token[r] \/ Accepts(Offered(r)))

\* ... what follows when they are accepted, and when they never are.
Accepted(label) == IF label = "probe" THEN "email" ELSE "me"

GiveUpForce(label) ==            \* mutant: resets the password of the account it finds
    CASE label = "own"     -> "probe"
      [] label = "probe"   -> "setauth"
      [] label = "created" -> "setauth"
      [] OTHER             -> "failed"

GiveUp(label) ==
    CASE label = "own"     -> "probe"
      [] label = "probe"   -> "create"
      [] label = "created" -> "setauth"
      [] OTHER             -> "failed"

LoginAccepted(r) ==
    /\ pc[r] \in Logins
    /\ Accepts(Offered(r))
    /\ Enter(r, Accepted(pc[r]))
    /\ token' = [token EXCEPT ![r] = TRUE]
    /\ UNCHANGED <<npm, config, creds, made, result>> /\ Calm

\* Rejected, or an answer that is an error: both are asked again.
LoginRejected(r) ==
    /\ pc[r] \in Logins
    /\ \/ service # "gone" /\ ~Accepts(Offered(r)) /\ Calm
       \/ Fault("refused")
    /\ \/ left[r] > 1 /\ left' = [left EXCEPT ![r] = @ - 1] /\ UNCHANGED <<pc, result>>
       \/ left[r] = 1 /\ GiveUp(pc[r]) # "failed" /\ Enter(r, GiveUp(pc[r])) /\ UNCHANGED result
       \/ left[r] = 1 /\ GiveUp(pc[r]) = "failed" /\ End(r, "failed")
    /\ UNCHANGED <<npm, config, creds, token, made>>

\* A request that gets no answer: httpx's error is no NPMError, so that not even
\* a login is asked again, and the step ends.
Unanswered(r) ==
    /\ pc[r] \in Logins \cup {"email", "secret", "create", "setauth", "me"}
    /\ \/ service \in {"gone", "starting"} /\ Calm
       \/ Fault("lost")
    /\ End(r, "failed")
    /\ UNCHANGED <<npm, config, creds, token, made>>

\* The shipped account is renamed in one request ...
PutEmail(r) ==
    /\ pc[r] = "email"
    /\ Authorised(r)
    /\ account' = [account EXCEPT !.email = "ours"]
    /\ \/ Enter(r, "secret") /\ UNCHANGED result /\ Calm
       \/ Fault("lost") /\ End(r, "failed")
    /\ UNCHANGED <<image, service, config, creds, token, made>>

\* ... and given a password in another, which names the current one.
PutSecret(r) ==
    /\ pc[r] = "secret"
    /\ Authorised(r) /\ account.secret = "changeme"
    /\ account' = [account EXCEPT !.secret = creds[r].secret]
    /\ \/ Enter(r, "confirm") /\ UNCHANGED result /\ Calm
       \/ Fault("lost") /\ End(r, "failed")
    /\ UNCHANGED <<image, service, config, creds, token, made>>

\* POST /users needs no token as long as NPM has no user.
CreateUser(r) ==
    /\ pc[r] = "create"
    /\ service = "ready" /\ account = None
    /\ account' = [email |-> "ours",
                   secret |-> IF image = "noauth" THEN "unset" ELSE creds[r].secret]
    /\ \/ /\ Enter(r, "created") /\ UNCHANGED result /\ Calm
          /\ made' = [made EXCEPT ![r] = TRUE]
       \/ Fault("lost") /\ End(r, "failed") /\ UNCHANGED made
    /\ UNCHANGED <<image, service, config, creds, token>>

\* The password is set without a token, and the answer is not looked at.
SetAuth(r) ==
    /\ pc[r] = "setauth"
    /\ service = "ready"
    /\ \/ account # None /\ account' = [account EXCEPT !.secret = creds[r].secret]
       \/ account' = account
    /\ Enter(r, "again")
    /\ UNCHANGED <<image, service, config, creds, token, made, result>> /\ Calm

\* A change that NPM refuses ends the step.
Refused(r) ==
    /\ \/ pc[r] \in {"email", "secret", "create", "me"} /\ Fault("refused")
       \/ pc[r] \in {"email", "secret", "me"} /\ service # "gone" /\ ~Authorised(r) /\ Calm
       \/ pc[r] = "secret" /\ Authorised(r) /\ account.secret # "changeme" /\ Calm
       \/ pc[r] = "create" /\ service # "gone" /\ ~(service = "ready" /\ account = None) /\ Calm
    /\ End(r, "failed")
    /\ UNCHANGED <<npm, config, creds, token, made>>

MeAssumed(r) ==                  \* mutant: what was logged in to is not asked again
    /\ pc[r] = "me"
    /\ End(r, "done")
    /\ UNCHANGED <<npm, config, creds, token, made>> /\ Calm

Me(r) ==
    /\ pc[r] = "me"
    /\ Authorised(r)
    /\ End(r, "done")
    /\ UNCHANGED <<npm, config, creds, token, made>> /\ Calm

-----------------------------------------------------------------------------
(* edgekit npm reset, and the operator.                                    *)

Down(r) ==
    /\ pc[r] = "down"
    /\ service' = "gone"
    /\ Enter(r, "wipe")
    /\ UNCHANGED <<image, account, config, creds, token, made, result>> /\ Calm

Wipe(r) ==
    /\ pc[r] = "wipe"
    /\ account' = None
    /\ token' = [s \in Runs |-> FALSE]
    /\ Enter(r, "up")
    /\ UNCHANGED <<image, service, config, creds, made, result>> /\ Calm

Up(r) ==
    /\ pc[r] = "up"
    /\ service' = IF service = "gone" THEN "starting" ELSE service
    /\ End(r, "none")
    /\ UNCHANGED <<image, account, config, creds, token, made>> /\ Calm

Kill(r) ==
    /\ pc[r] # "idle"
    /\ Fault("crash")
    /\ End(r, "none")
    /\ UNCHANGED <<npm, config, creds, token, made>>

\* The settings form stores what it is given; the command logs in first.
Form ==
    /\ Operator("form")
    /\ config' \in Ours
    /\ UNCHANGED <<npm, pc, local, result>>

Password ==
    /\ Operator("password")
    /\ service = "ready"
    /\ account # None /\ account.email = "ours"
    /\ config' = account
    /\ UNCHANGED <<npm, pc, local, result>>

\* The password is changed in NPM's own interface.
Change ==
    /\ Operator("change")
    /\ service = "ready"
    /\ account \in Ours
    /\ account' \in Ours \ {account}
    /\ UNCHANGED <<image, service, config, pc, local, result>>

-----------------------------------------------------------------------------

Boot == Listen \/ Seed

Step(r) ==
    \/ Deploy(r) \/ Ready(r) \/ NotReady(r)
    \/ LoginAccepted(r) \/ LoginRejected(r) \/ Unanswered(r)
    \/ PutEmail(r) \/ PutSecret(r) \/ CreateUser(r) \/ SetAuth(r) \/ Refused(r) \/ Me(r)
    \/ Down(r) \/ Wipe(r) \/ Up(r)

Next ==
    \/ Boot \/ Restart
    \/ \E r \in Runs : Begin(r) \/ Step(r) \/ Kill(r)
    \/ Form \/ Password \/ Change

Spec == Init /\ [][Next]_vars

\* Containers start, processes are scheduled, and somebody provisions again.
FairSpec == Spec /\ WF_vars(Boot) /\ \A r \in Runs : WF_vars(Step(r)) /\ WF_vars(Begin(r))

-----------------------------------------------------------------------------
(* Properties.                                                             *)

(* Every variable keeps its type, and no step asks more often than it may. *)
TypeOK ==
    /\ image \in Images
    /\ service \in {"gone", "starting", "listening", "ready"}
    /\ account \in Account \cup {None}
    /\ config \in [email : {"ours"}, secret : Secrets \cup {"changeme", "unset"}]
    /\ pc \in [Runs -> Labels]
    /\ creds \in [Runs -> [email : {"ours"}, secret : Secrets \cup {"changeme", "unset"}]]
    /\ token \in [Runs -> BOOLEAN]
    /\ made \in [Runs -> BOOLEAN]
    /\ left \in [Runs -> Nat]
    /\ \A r \in Runs : pc[r] \in Waiting => left[r] \in 1..Tries[pc[r]]
    /\ result \in [Runs -> {"none", "done", "failed"}]
    /\ faults \in 0..MaxFaults

(* A bootstrap that reports success leaves no NPM without an account and   *)
(* none on the shipped login, whoever wiped, restarted or changed it       *)
(* meanwhile: NPMClient.bootstrap_admin raises when none of its three ways *)
(* applies, and me() asks with a token of the NPM that is there.           *)
SecuredWhenReported ==
    [][\A r \in Runs : result'[r] = "done" /\ result[r] # "done" =>
           account # None /\ account.email # "shipped"]_vars

(* An account that edgekit owns is not changed by provisioning, however    *)
(* many runs bootstrap at once: only by the operator, by a reset, or by a  *)
(* run that has created a user and could not log in, which sets a password *)
(* without looking whose account is there - its own, unless another run    *)
(* has wiped NPM since and a user was created anew.                        *)
OwnAccountStays ==
    [][account' # account /\ account \in Ours =>
           \/ account' = None /\ \E r \in Runs : pc[r] = "wipe"
           \/ \E r \in Runs : pc[r] = "setauth" /\ made[r]
           \/ Change]_vars

(* With an image that creates its first user whole, provisioning again     *)
(* ends with NPM on credentials that were configured (and OwnAccountStays  *)
(* then keeps them), whatever was refused, lost, killed, wiped or          *)
(* restarted before.                                                       *)
Converges == image = "setup" => <>[](account \in Ours)

=============================================================================
