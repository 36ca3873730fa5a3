------------------------- MODULE HostAuthentication -------------------------
(***************************************************************************)
(* The host's authentication state machine, `HostAuthentication' of        *)
(* crates/rd-engine/src/authentication.rs: one connection, a latched login *)
(* request, the primary factor (a password or a local click), an optional  *)
(* second factor and the grant of permissions that results.                *)
(*                                                                         *)
(* The peer is arbitrary: every action takes any message.  The three       *)
(* providers (attempt policy, approval, second factor) answer              *)
(* nondeterministically, as the traits allow.  Permissions is the set of   *)
(* the features that are true, so `intersect' is \cap.                     *)
(***************************************************************************)
EXTENDS Naturals

CONSTANTS
    Features,       \* keyboard, clipboard, audio, file
    Ids,            \* non-empty values of LoginRequest.my_id
    NoId,           \* the empty my_id
    NoRequest,      \* HostAuthentication.request = None
    Configs         \* the HostAuthConfig values to consider

Permissions == SUBSET Features

Policies == {"PasswordOnly", "ClickOnly", "PasswordOrClick"}

HostAuthConfig ==
    [policy : Policies, ceiling : Permissions,
     password_permissions : Permissions, factor : BOOLEAN]

(* What a LoginRequest tells the host.  `fault' is the first check on the  *)
(* message's shape that fails: the target, the role union, os_login.       *)
(* `password' is the response as `Passwords::verify' sees it, `disable'    *)
(* the features its options switch off, `modern' a version >= 1.2.0.       *)
LoginRequest ==
    [fault : {"none", "target", "role", "os_login"},
     my_id : Ids \cup {NoId}, password : {"empty", "wrong", "right"},
     disable : Permissions, modern : BOOLEAN]

(* The part of a request that is retained: no credential is. *)
Claims == [my_id : Ids, disable : Permissions, modern : BOOLEAN]

Retained(req) ==
    [my_id |-> req.my_id, disable |-> req.disable, modern |-> req.modern]

(* Approval: Pending, Denied or Approved(Permissions). *)
Approval ==
    [kind : {"Pending", "Denied"}, grant : {{}}]
      \cup [kind : {"Approved"}, grant : Permissions]

FactorResult == {"Verified", "Wrong", "Unsupported"}

HostAuthState ==
    {"AwaitLogin", "AwaitApproval", "Await2Fa", "Authorized", "Closed"}

Messages ==
    {"None", "Offline", "No permission", "OS login unsupported",
     "Connection not allowed", "Attempts", "Wrong Password",
     "Empty Password", "2FA Required", "Wrong 2FA Code",
     "2FA verification unsupported"}

AuthAction ==
    [kind : {"Error", "PendingApproval", "Authorized", "Ignored"},
     message : Messages, permissions : Permissions]

ASSUME ConfigsAssumption == Configs \subseteq HostAuthConfig
ASSUME NoIdAssumption == NoId \notin Ids
ASSUME NoRequestAssumption == NoRequest \notin Claims

VARIABLES
    config,     \* HostAuthConfig, fixed when the session is created
    state,      \* HostAuthState
    request,    \* the latched request, or NoRequest
    grant,      \* Permissions
    action,     \* the AuthAction the last call returned
    basis       \* history: what the answers of the providers to the latest
                \* login amount to (see `Basis')

authVars == <<config, state, request, grant, action, basis>>

(* What has been shown for the latest login request: which primary factor  *)
(* succeeded and what it offers, and whether a second factor did.  It is   *)
(* computed from the providers' answers alone, never from `state'.         *)
Basis == [by : {"nothing", "password", "approval"},
          offered : Permissions, factor : BOOLEAN]

NoBasis == [by |-> "nothing", offered |-> {}, factor |-> FALSE]

AuthTypeOK ==
    /\ config \in Configs
    /\ state \in HostAuthState
    /\ request \in Claims \cup {NoRequest}
    /\ grant \in Permissions
    /\ action \in AuthAction
    /\ basis \in Basis

----------------------------------------------------------------------------
(* The actions' shared endings. *)

Ignored == [kind |-> "Ignored", message |-> "None", permissions |-> {}]

Error(message) == [kind |-> "Error", message |-> message, permissions |-> {}]

PendingApproval ==
    [kind |-> "PendingApproval", message |-> "None", permissions |-> {}]

(* close(): the grant and the request go with the state. *)
CloseFields ==
    /\ state' = "Closed"
    /\ grant' = {}
    /\ request' = NoRequest

(* error(message, terminal = true) *)
Terminal(message) ==
    /\ CloseFields
    /\ action' = Error(message)

AuthorizeIgnoringOptions(granted, claims) ==    \* mutant
    /\ state' = "Authorized"
    /\ grant' = granted
    /\ action' = [kind |-> "Authorized", message |-> "None",
                  permissions |-> granted]

(* authorize(): the viewer's options can only remove from what was granted. *)
Authorize(granted, claims) ==
    /\ state' = "Authorized"
    /\ grant' = granted \ claims.disable
    /\ action' = [kind |-> "Authorized", message |-> "None",
                  permissions |-> granted \ claims.disable]

AfterPrimaryAnnouncingSuccess(granted, claims) ==       \* mutant
    IF config.factor
    THEN /\ state' = "Await2Fa"
         /\ grant' = granted
         /\ action' = [kind |-> "Authorized", message |-> "None",
                       permissions |-> granted]
    ELSE Authorize(granted, claims)

(* after_primary(): the second factor, where one is required. *)
AfterPrimary(granted, claims) ==
    IF config.factor
    THEN /\ state' = "Await2Fa"
         /\ grant' = granted
         /\ action' = Error("2FA Required")
    ELSE Authorize(granted, claims)

(* The dispatch of poll_approval() on the provider's answer, for the       *)
(* request `claims', with `pending' the answer to a pending approval.      *)
Consult(verdict, claims, pending) ==
    \/ /\ verdict.kind = "Pending"
       /\ state' = "AwaitApproval"
       /\ action' = pending
       /\ UNCHANGED grant
       /\ request' = claims
    \/ /\ verdict.kind = "Denied"
       /\ Terminal("Connection not allowed")
    \/ /\ verdict.kind = "Approved"
       /\ AfterPrimary(verdict.grant \cap config.ceiling, claims)
       /\ request' = claims

ApprovalBasis(verdict) ==
    IF verdict.kind = "Approved"
    THEN [by |-> "approval", offered |-> verdict.grant, factor |-> FALSE]
    ELSE NoBasis

----------------------------------------------------------------------------
(* login(request).  `allowed' is the answer of attempts.allow(false). *)

LoginRefusalForgettingTheFirst(req) ==      \* mutant
    CASE req.fault = "target"   -> "Offline"
      [] req.fault = "role"     -> "No permission"
      [] req.fault = "os_login" -> "OS login unsupported"
      [] OTHER                  ->
           IF req.my_id = NoId THEN "Connection not allowed" ELSE "None"

LoginRefusal(req) ==
    CASE req.fault = "target"   -> "Offline"
      [] req.fault = "role"     -> "No permission"
      [] req.fault = "os_login" -> "OS login unsupported"
      [] OTHER                  ->
           IF \/ request # NoRequest /\ request.my_id # req.my_id
              \/ req.my_id = NoId
           THEN "Connection not allowed"
           ELSE "None"

(* Whether this request's password is looked at at all. *)
TriesPassword(req) ==
    config.policy # "ClickOnly" /\ req.password # "empty"

LoginIgnored ==
    /\ state \in {"Closed", "Authorized"}
    /\ action' = Ignored
    /\ UNCHANGED <<state, request, grant, basis>>

LoginRefused(req) ==
    /\ LoginRefusal(req) # "None"
    /\ Terminal(LoginRefusal(req))
    /\ basis' = NoBasis

(* The attempt policy refuses: back to AwaitLogin, the request is not replaced. *)
LoginRateLimited ==
    /\ state' = "AwaitLogin"
    /\ action' = Error("Attempts")
    /\ basis' = NoBasis
    /\ UNCHANGED <<request, grant>>

LoginByPassword(req) ==
    /\ request' = Retained(req)
    /\ AfterPrimary(config.password_permissions \cap config.ceiling,
                    Retained(req))
    /\ basis' = [by |-> "password", offered |-> config.password_permissions,
                 factor |-> FALSE]

LoginWithoutPassword(req, verdict) ==
    \/ /\ config.policy = "PasswordOnly"
       /\ state' = "AwaitLogin"
       /\ request' = Retained(req)
       /\ action' = Error(IF req.password = "empty"
                          THEN "Empty Password" ELSE "Wrong Password")
       /\ basis' = NoBasis
       /\ UNCHANGED grant
    \/ /\ config.policy # "PasswordOnly"
       /\ Consult(verdict, Retained(req),
                  IF config.policy = "PasswordOrClick" /\ req.password # "empty"
                  THEN Error("Wrong Password") ELSE PendingApproval)
       /\ basis' = ApprovalBasis(verdict)

LoginAccepted(req, allowed, verdict) ==
    /\ LoginRefusal(req) = "None"
    /\ \/ TriesPassword(req) /\ ~allowed /\ LoginRateLimited
       \/ /\ TriesPassword(req) /\ allowed /\ req.password = "right"
          /\ LoginByPassword(req)
       \/ /\ ~TriesPassword(req) \/ (allowed /\ req.password = "wrong")
          /\ LoginWithoutPassword(req, verdict)

Login(req, allowed, verdict) ==
    /\ UNCHANGED config
    /\ \/ LoginIgnored
       \/ /\ state \notin {"Closed", "Authorized"}
          /\ LoginRefused(req) \/ LoginAccepted(req, allowed, verdict)

----------------------------------------------------------------------------
(* poll_approval() *)
PollApproval(verdict) ==
    /\ UNCHANGED config
    /\ \/ /\ state # "AwaitApproval" \/ request = NoRequest
          /\ action' = Ignored
          /\ UNCHANGED <<state, request, grant, basis>>
       \/ /\ state = "AwaitApproval"
          /\ request # NoRequest
          /\ Consult(verdict, request, PendingApproval)
          /\ basis' = ApprovalBasis(verdict)

(* second_factor(code).  `allowed' is attempts.allow(true), `result' what  *)
(* the provider's verify says of the code.                                 *)
FactorMessage(result) ==
    IF result = "Wrong" THEN "Wrong 2FA Code" ELSE "2FA verification unsupported"

SecondFactorUnsupportedPasses(allowed, result) ==       \* mutant
    /\ UNCHANGED config
    /\ \/ /\ state # "Await2Fa"
          /\ action' = Ignored
          /\ UNCHANGED <<state, request, grant, basis>>
       \/ /\ state = "Await2Fa"
          /\ Authorize(grant, request)
          /\ basis' = [basis EXCEPT !.factor = (allowed /\ result = "Verified")]
          /\ UNCHANGED request

SecondFactor(allowed, result) ==
    /\ UNCHANGED config
    /\ \/ /\ state # "Await2Fa"
          /\ action' = Ignored
          /\ UNCHANGED <<state, request, grant, basis>>
       \/ /\ state = "Await2Fa" /\ ~allowed
          /\ action' = Error("Attempts")
          /\ UNCHANGED <<state, request, grant, basis>>
       \/ /\ state = "Await2Fa" /\ allowed /\ result = "Verified"
          /\ Authorize(grant, request)
          /\ basis' = [basis EXCEPT !.factor = TRUE]
          /\ UNCHANGED request
       \/ /\ state = "Await2Fa" /\ allowed /\ result # "Verified"
          /\ action' = Error(FactorMessage(result))
          /\ UNCHANGED <<state, request, grant, basis>>

(* close() *)
Close ==
    /\ CloseFields
    /\ action' = Ignored
    /\ UNCHANGED <<config, basis>>

----------------------------------------------------------------------------
AuthInit ==
    /\ config \in Configs
    /\ state = "AwaitLogin"
    /\ request = NoRequest
    /\ grant = {}
    /\ action = Ignored
    /\ basis = NoBasis

AuthNext ==
    \/ \E req \in LoginRequest, allowed \in BOOLEAN, verdict \in Approval :
         Login(req, allowed, verdict)
    \/ \E verdict \in Approval : PollApproval(verdict)
    \/ \E allowed \in BOOLEAN, result \in FactorResult :
         SecondFactor(allowed, result)
    \/ Close

AuthSpec == AuthInit /\ [][AuthNext]_authVars

----------------------------------------------------------------------------
(* The session is Authorized only on evidence given for the request that   *)
(* is latched: the primary factor the policy asks for succeeded for that   *)
(* very request (not for an earlier login of the same connection), and,    *)
(* where a second factor is required, it was verified after it.            *)
AuthorizedIsEarned ==
    state = "Authorized" =>
        /\ request # NoRequest
        /\ basis.by # "nothing"
        /\ basis.by = "password" => config.policy # "ClickOnly"
        /\ basis.by = "approval" => config.policy # "PasswordOnly"
        /\ config.factor => basis.factor

(* What an authorized viewer may do is bounded by three parties at once:   *)
(* the local ceiling, what the successful primary factor offers, and what  *)
(* the viewer's own latched options switched off.                          *)
GrantIsBounded ==
    /\ grant \subseteq config.ceiling
    /\ state = "Authorized" =>
         grant \subseteq basis.offered \ request.disable

(* A login retry never changes the identity under which the connection was *)
(* first accepted, an Authorized session never goes back to a waiting      *)
(* state, and a Closed one never leaves Closed.                            *)
IdentityIsLatched ==
    [][/\ request # NoRequest /\ request' # NoRequest
             => request'.my_id = request.my_id
       /\ state = "Authorized" => state' \in {"Authorized", "Closed"}
       /\ state = "Closed" => state' = "Closed"]_authVars
=============================================================================
