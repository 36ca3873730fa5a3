---------------------- MODULE HostAuthentication_proofs ----------------------
(***************************************************************************)
(* Theorems about HostAuthentication and AuthPeers, for every set of       *)
(* features, ids and configurations, every order of the permission reports *)
(* and every stock of requests.                                            *)
(*                                                                         *)
(* AuthorizedIsEarned is not inductive: a second factor turns Await2Fa     *)
(* into Authorized without looking at the primary factor again, so the     *)
(* primary evidence and the bound on the grant have to hold in Await2Fa    *)
(* already, and a request has to be latched wherever one is used.          *)
(***************************************************************************)
EXTENDS MCAuth, SequenceTheorems, TLAPS

(* The primary factor of the latched request succeeded, by a way the       *)
(* policy allows, and the grant is within what it offers.                  *)
PrimaryDone ==
    /\ request # NoRequest
    /\ basis.by # "nothing"
    /\ basis.by = "password" => config.policy # "ClickOnly"
    /\ basis.by = "approval" => config.policy # "PasswordOnly"
    /\ grant \subseteq basis.offered

AuthInv ==
    /\ AuthTypeOK
    /\ state = "AwaitApproval" => request # NoRequest /\ config.policy # "PasswordOnly"
    /\ state \in {"Await2Fa", "Authorized"} => PrimaryDone
    /\ grant \subseteq config.ceiling
    /\ state = "Authorized" => /\ config.factor => basis.factor
                               /\ grant \cap request.disable = {}

(* A configuration is well typed: the providers' permissions are sets of   *)
(* features.                                                               *)
LEMMA ConfigType ==
    ASSUME config \in Configs
    PROVE  /\ config.ceiling \in Permissions
           /\ config.password_permissions \in Permissions
           /\ config.policy \in Policies
           /\ config.factor \in BOOLEAN
BY ConfigsAssumption DEF HostAuthConfig

(* What is retained of a request whose my_id is not empty is a claim, and  *)
(* no claim is NoRequest.                                                  *)
LEMMA RetainedType ==
    ASSUME NEW req \in LoginRequest, req.my_id # NoId
    PROVE  Retained(req) \in Claims /\ Retained(req) # NoRequest
BY NoRequestAssumption DEF Retained, Claims, LoginRequest

(* The answers that carry no grant are well typed. *)
LEMMA AnswerType ==
    /\ \A m \in Messages : Error(m) \in AuthAction
    /\ Ignored \in AuthAction
    /\ PendingApproval \in AuthAction
BY DEF AuthAction, Messages, Error, Ignored, PendingApproval, Permissions

(* after_primary keeps the invariant: called with a grant within the       *)
(* ceiling and within what the successful primary factor offers, it ends   *)
(* in Await2Fa or, where no second factor is required, in Authorized.      *)
LEMMA AfterPrimaryStep ==
    ASSUME AuthInv, config' = config,
           NEW granted \in Permissions, NEW claims \in Claims,
           NEW by \in {"password", "approval"}, NEW offered \in Permissions,
           by = "password" => config.policy # "ClickOnly",
           by = "approval" => config.policy # "PasswordOnly",
           granted \subseteq config.ceiling, granted \subseteq offered,
           request' = claims,
           basis' = [by |-> by, offered |-> offered, factor |-> FALSE],
           AfterPrimary(granted, claims)
    PROVE  AuthInv'
<1>1. claims # NoRequest
  BY NoRequestAssumption
<1>2. claims.disable \in Permissions
  BY DEF Claims
<1>3. config.factor \in BOOLEAN
  BY ConfigType DEF AuthInv, AuthTypeOK
<1>4. CASE config.factor
  <2>1. state' = "Await2Fa" /\ grant' = granted /\ action' = Error("2FA Required")
    BY <1>4 DEF AfterPrimary
  <2>2. AuthTypeOK'
    BY <2>1 DEF AuthInv, AuthTypeOK, HostAuthState, AuthAction, Messages, Error,
                Basis, Permissions
  <2> QED
    BY <1>1, <2>1, <2>2 DEF AuthInv, PrimaryDone
<1>5. CASE ~config.factor
  <2>1. /\ state' = "Authorized"
        /\ grant' = granted \ claims.disable
        /\ action' = [kind |-> "Authorized", message |-> "None",
                      permissions |-> granted \ claims.disable]
    BY <1>5 DEF AfterPrimary, Authorize
  <2>2. AuthTypeOK'
    BY <2>1 DEF AuthInv, AuthTypeOK, HostAuthState, AuthAction, Messages,
                Basis, Permissions
  <2> QED
    BY <1>1, <1>5, <2>1, <2>2 DEF AuthInv, PrimaryDone
<1> QED
  BY <1>3, <1>4, <1>5

(* The dispatch on the approval provider's answer keeps the invariant: an  *)
(* approval is evidence for the request it was asked about.                *)
LEMMA ConsultStep ==
    ASSUME AuthInv, config' = config, config.policy # "PasswordOnly",
           NEW verdict \in Approval, NEW claims \in Claims,
           NEW pending \in AuthAction,
           Consult(verdict, claims, pending), basis' = ApprovalBasis(verdict)
    PROVE  AuthInv'
<1>1. claims # NoRequest
  BY NoRequestAssumption
<1>2. verdict.grant \in Permissions
  BY DEF Approval, Permissions
<1>3. config.ceiling \in Permissions
  BY ConfigType DEF AuthInv, AuthTypeOK
<1>4. CASE verdict.kind = "Pending"
  <2>1. /\ state' = "AwaitApproval" /\ action' = pending
        /\ grant' = grant /\ request' = claims
    BY <1>4 DEF Consult
  <2>2. basis' = NoBasis
    BY <1>4 DEF ApprovalBasis
  <2> QED
    BY <1>1, <2>1, <2>2 DEF AuthInv, AuthTypeOK, HostAuthState, NoBasis, Basis,
                            Permissions
<1>5. CASE verdict.kind = "Denied"
  <2>1. /\ state' = "Closed" /\ grant' = {} /\ request' = NoRequest
        /\ action' = Error("Connection not allowed")
    BY <1>5 DEF Consult, Terminal, CloseFields
  <2>2. basis' = NoBasis
    BY <1>5 DEF ApprovalBasis
  <2>3. action' \in AuthAction
    BY <2>1, AnswerType DEF Messages
  <2>4. AuthTypeOK'
    <3>1. basis' \in Basis
      BY <2>2 DEF NoBasis, Basis, Permissions
    <3>2. grant' \in Permissions /\ state' \in HostAuthState
      BY <2>1 DEF Permissions, HostAuthState
    <3> QED
      BY <2>1, <2>3, <3>1, <3>2 DEF AuthInv, AuthTypeOK
  <2> QED
    BY <2>1, <2>4 DEF AuthInv
<1>6. CASE verdict.kind = "Approved"
  <2>1. AfterPrimary(verdict.grant \cap config.ceiling, claims) /\ request' = claims
    BY <1>6 DEF Consult
  <2>2. basis' = [by |-> "approval", offered |-> verdict.grant, factor |-> FALSE]
    BY <1>6 DEF ApprovalBasis
  <2>3. verdict.grant \cap config.ceiling \in Permissions
    BY <1>2 DEF Permissions
  <2> QED
    BY <1>2, <2>1, <2>2, <2>3, AfterPrimaryStep
<1> QED
  BY <1>4, <1>5, <1>6 DEF Approval

(* A refused or a failed login leaves nothing granted beyond the ceiling   *)
(* and no evidence; a successful one is what AfterPrimaryStep describes.   *)
LEMMA LoginStep ==
    ASSUME AuthInv, NEW req \in LoginRequest, NEW allowed \in BOOLEAN,
           NEW verdict \in Approval, Login(req, allowed, verdict)
    PROVE  AuthInv'
<1>1. config' = config
  BY DEF Login
<1>2. CASE LoginIgnored
  BY <1>1, <1>2 DEF LoginIgnored, AuthInv, AuthTypeOK, PrimaryDone, Ignored,
                    AuthAction, Messages, Permissions
<1>3. CASE LoginRefused(req)
  <2>1. LoginRefusal(req) \in Messages
    BY DEF LoginRefusal, Messages
  <2> QED
    BY <1>1, <1>3, <2>1 DEF LoginRefused, Terminal, CloseFields, AuthInv,
          AuthTypeOK, HostAuthState, NoBasis, Basis, Permissions, AuthAction, Error
<1>4. CASE LoginAccepted(req, allowed, verdict)
  <2>1. req.my_id # NoId
    BY <1>4 DEF LoginAccepted, LoginRefusal
  <2>2. Retained(req) \in Claims /\ Retained(req) # NoRequest
    BY <2>1, RetainedType
  <2>3. CASE TriesPassword(req) /\ ~allowed /\ LoginRateLimited
    BY <1>1, <2>3 DEF LoginRateLimited, AuthInv, AuthTypeOK, HostAuthState,
          NoBasis, Basis, Permissions, AuthAction, Messages, Error
  <2>4. CASE /\ TriesPassword(req) /\ allowed /\ req.password = "right"
             /\ LoginByPassword(req)
    <3>1. /\ config.password_permissions \in Permissions
          /\ config.password_permissions \cap config.ceiling \in Permissions
      BY ConfigType DEF AuthInv, AuthTypeOK, Permissions
    <3>2. config.policy # "ClickOnly"
      BY <2>4 DEF TriesPassword
    <3>3. /\ request' = Retained(req)
          /\ AfterPrimary(config.password_permissions \cap config.ceiling, Retained(req))
          /\ basis' = [by |-> "password", offered |-> config.password_permissions,
                       factor |-> FALSE]
      BY <2>4 DEF LoginByPassword
    <3> QED
      BY <1>1, <2>2, <3>1, <3>2, <3>3, AfterPrimaryStep
  <2>5. CASE LoginWithoutPassword(req, verdict)
    <3>1. CASE config.policy = "PasswordOnly"
      <4>1. action' \in AuthAction
        <5>1. action' \in {Error("Empty Password"), Error("Wrong Password")}
          BY <2>5, <3>1 DEF LoginWithoutPassword
        <5> QED
          BY <5>1, AnswerType DEF Messages
      <4>2. /\ state' = "AwaitLogin" /\ request' = Retained(req)
            /\ grant' = grant /\ basis' = NoBasis
        BY <2>5, <3>1 DEF LoginWithoutPassword
      <4>3. AuthTypeOK'
        BY <1>1, <2>2, <4>1, <4>2 DEF AuthInv,
              AuthTypeOK, HostAuthState, NoBasis, Basis, Permissions
      <4> QED
        BY <1>1, <4>2, <4>3 DEF AuthInv
    <3>2. CASE config.policy # "PasswordOnly"
      <4> DEFINE pending ==
            IF config.policy = "PasswordOrClick" /\ req.password # "empty"
            THEN Error("Wrong Password") ELSE PendingApproval
      <4>1. pending \in AuthAction
        BY DEF AuthAction, Messages, Error, PendingApproval, Permissions
      <4>2. Consult(verdict, Retained(req), pending) /\ basis' = ApprovalBasis(verdict)
        BY <2>5, <3>2 DEF LoginWithoutPassword
      <4> HIDE DEF pending
      <4> QED
        BY <1>1, <2>2, <3>2, <4>1, <4>2, ConsultStep
    <3> QED
      BY <3>1, <3>2
  <2> QED
    BY <1>4, <2>3, <2>4, <2>5 DEF LoginAccepted
<1> QED
  BY <1>2, <1>3, <1>4 DEF Login

(* poll_approval() keeps the invariant. *)
LEMMA PollApprovalStep ==
    ASSUME AuthInv, NEW verdict \in Approval, PollApproval(verdict)
    PROVE  AuthInv'
<1>1. config' = config
  BY DEF PollApproval
<1>2. CASE action' = Ignored /\ UNCHANGED <<state, request, grant, basis>>
  BY <1>1, <1>2 DEF AuthInv, AuthTypeOK, PrimaryDone, Ignored,
                    AuthAction, Messages, Permissions
<1>3. CASE /\ state = "AwaitApproval" /\ request # NoRequest
           /\ Consult(verdict, request, PendingApproval)
           /\ basis' = ApprovalBasis(verdict)
  <2>1. request \in Claims /\ config.policy # "PasswordOnly"
    BY <1>3 DEF AuthInv, AuthTypeOK
  <2>2. PendingApproval \in AuthAction
    BY DEF AuthAction, Messages, PendingApproval, Permissions
  <2> QED
    BY <1>1, <1>3, <2>1, <2>2, ConsultStep
<1> QED
  BY <1>2, <1>3 DEF PollApproval

(* second_factor(code) keeps the invariant: only a verified code leaves    *)
(* Await2Fa, and the primary evidence is already there.                    *)
LEMMA SecondFactorStep ==
    ASSUME AuthInv, NEW allowed \in BOOLEAN, NEW result \in FactorResult,
           SecondFactor(allowed, result)
    PROVE  AuthInv'
<1>1. config' = config
  BY DEF SecondFactor
<1>2. CASE /\ UNCHANGED <<state, request, grant, basis>>
           /\ action' \in {Ignored, Error("Attempts"), Error(FactorMessage(result))}
  <2>1. action' \in AuthAction
    BY <1>2, AnswerType DEF FactorMessage, Messages
  <2> QED
    BY <1>1, <1>2, <2>1 DEF AuthInv, AuthTypeOK, PrimaryDone
<1>3. CASE /\ state = "Await2Fa"
           /\ Authorize(grant, request)
           /\ basis' = [basis EXCEPT !.factor = TRUE]
           /\ UNCHANGED request
  <2>1. /\ state' = "Authorized" /\ grant' = grant \ request.disable
        /\ action' = [kind |-> "Authorized", message |-> "None",
                      permissions |-> grant \ request.disable]
    BY <1>3 DEF Authorize
  <2>2. /\ basis'.by = basis.by /\ basis'.offered = basis.offered
        /\ basis'.factor = TRUE /\ basis' \in Basis
    BY <1>3 DEF AuthInv, AuthTypeOK, Basis
  <2>3. PrimaryDone /\ grant \in Permissions
    BY <1>3 DEF AuthInv, AuthTypeOK
  <2>4. AuthTypeOK'
    BY <1>1, <1>3, <2>1, <2>2, <2>3 DEF AuthInv, AuthTypeOK, HostAuthState,
          AuthAction, Messages, Permissions
  <2> QED
    BY <1>1, <1>3, <2>1, <2>2, <2>3, <2>4 DEF AuthInv, PrimaryDone
<1> QED
  BY <1>2, <1>3 DEF SecondFactor

(* The invariant is inductive. *)
LEMMA AuthInvInductive == AuthInv /\ [AuthNext]_authVars => AuthInv'
<1> SUFFICES ASSUME AuthInv, [AuthNext]_authVars PROVE AuthInv'
  OBVIOUS
<1>1. CASE \E req \in LoginRequest, allowed \in BOOLEAN, verdict \in Approval :
             Login(req, allowed, verdict)
  BY <1>1, LoginStep
<1>2. CASE \E verdict \in Approval : PollApproval(verdict)
  BY <1>2, PollApprovalStep
<1>3. CASE \E allowed \in BOOLEAN, result \in FactorResult :
             SecondFactor(allowed, result)
  BY <1>3, SecondFactorStep
<1>4. CASE Close
  BY <1>4 DEF Close, CloseFields, AuthInv, AuthTypeOK, HostAuthState, Ignored,
              AuthAction, Messages, Permissions
<1>5. CASE UNCHANGED authVars
  BY <1>5 DEF authVars, AuthInv, AuthTypeOK, PrimaryDone
<1> QED
  BY <1>1, <1>2, <1>3, <1>4, <1>5 DEF AuthNext

(* A new session satisfies the invariant. *)
LEMMA AuthInvInit == AuthInit => AuthInv
BY DEF AuthInit, AuthInv, AuthTypeOK, HostAuthState, Ignored, AuthAction,
       Messages, Permissions, NoBasis, Basis

(* Every reachable state of the host's authentication is well typed. *)
THEOREM AuthTypeCorrect == AuthSpec => []AuthTypeOK
<1>1. AuthInv => AuthTypeOK
  BY DEF AuthInv
<1> QED
  BY <1>1, AuthInvInit, AuthInvInductive, PTL DEF AuthSpec

(* Whatever the peer sends and in whatever order, an Authorized session    *)
(* has been earned by the latched request itself: login(), poll_approval() *)
(* and second_factor() never carry evidence from one request to the next.  *)
THEOREM AuthorizationTheorem == AuthSpec => []AuthorizedIsEarned
<1>1. AuthInv => AuthorizedIsEarned
  BY DEF AuthInv, AuthorizedIsEarned, PrimaryDone
<1> QED
  BY <1>1, AuthInvInit, AuthInvInductive, PTL DEF AuthSpec

(* The grant never exceeds the ceiling, what the primary factor offers or  *)
(* what the viewer left enabled.                                           *)
THEOREM GrantTheorem == AuthSpec => []GrantIsBounded
<1>1. AuthInv => GrantIsBounded
  BY DEF AuthInv, GrantIsBounded, PrimaryDone
<1> QED
  BY <1>1, AuthInvInit, AuthInvInductive, PTL DEF AuthSpec

(* What no single call does: change the identity of a latched request, or  *)
(* leave Authorized for a waiting state, or leave Closed at all.           *)
Latched ==
    /\ request # NoRequest /\ request' # NoRequest => request'.my_id = request.my_id
    /\ state = "Authorized" => state' \in {"Authorized", "Closed"}
    /\ state = "Closed" => state' = "Closed"

(* What consulting the provider makes of the request.                      *)
LEMMA ConsultRequest ==
    ASSUME NEW verdict, NEW claims, NEW pending, Consult(verdict, claims, pending)
    PROVE  request' \in {claims, NoRequest}
BY DEF Consult, Terminal, CloseFields

LEMMA LatchedStep == [AuthNext]_authVars => Latched
<1> SUFFICES ASSUME [AuthNext]_authVars PROVE Latched
  OBVIOUS
<1>1. ASSUME NEW req \in LoginRequest, NEW allowed \in BOOLEAN, NEW verdict \in Approval,
             Login(req, allowed, verdict)
      PROVE  Latched
  <2>1. CASE LoginIgnored
    BY <2>1 DEF LoginIgnored, Latched
  <2>2. CASE LoginRefused(req) /\ state \notin {"Closed", "Authorized"}
    BY <2>2 DEF LoginRefused, Terminal, CloseFields, Latched
  <2>3. CASE LoginAccepted(req, allowed, verdict) /\ state \notin {"Closed", "Authorized"}
    <3>1. request # NoRequest => request.my_id = req.my_id
      BY <2>3 DEF LoginAccepted, LoginRefusal
    <3>2. Retained(req).my_id = req.my_id
      BY DEF Retained
    <3>3. request' \in {request, Retained(req), NoRequest}
      BY <2>3, ConsultRequest DEF LoginAccepted, LoginRateLimited, LoginByPassword,
                                  LoginWithoutPassword
    <3> QED
      BY <2>3, <3>1, <3>2, <3>3 DEF Latched
  <2> QED
    BY <1>1, <2>1, <2>2, <2>3 DEF Login
<1>2. ASSUME NEW verdict \in Approval, PollApproval(verdict)
      PROVE  Latched
  <2>1. request' \in {request, NoRequest}
    BY <1>2, ConsultRequest DEF PollApproval
  <2>2. state = "AwaitApproval" \/ state' = state
    BY <1>2 DEF PollApproval
  <2> QED
    BY <2>1, <2>2 DEF Latched
<1>3. ASSUME NEW allowed \in BOOLEAN, NEW result \in FactorResult,
             SecondFactor(allowed, result)
      PROVE  Latched
  BY <1>3 DEF SecondFactor, Authorize, Latched
<1>4. CASE Close
  BY <1>4 DEF Close, CloseFields, Latched
<1>5. CASE UNCHANGED authVars
  BY <1>5 DEF authVars, Latched
<1> QED
  BY <1>1, <1>2, <1>3, <1>4, <1>5 DEF AuthNext

(* A retry of the login never changes the identity a connection was first  *)
(* accepted under, an authorized session never waits again, and a closed   *)
(* one stays closed (login(), poll_approval(), second_factor(), close()).  *)
THEOREM LatchTheorem == AuthSpec => IdentityIsLatched
<1>1. [AuthNext]_authVars =>
        [/\ request # NoRequest /\ request' # NoRequest => request'.my_id = request.my_id
         /\ state = "Authorized" => state' \in {"Authorized", "Closed"}
         /\ state = "Closed" => state' = "Closed"]_authVars
  BY LatchedStep DEF Latched
<1> QED
  BY <1>1, PTL DEF AuthSpec, IdentityIsLatched

----------------------------------------------------------------------------
(* A viewer and a host over one connection (AuthPeers).                    *)
(*                                                                         *)
(* What the two agree on when nothing is in flight says nothing about the  *)
(* states in between, so the invariant is about the stream on its way to   *)
(* the viewer, the records in flight followed by those the host has still  *)
(* to write: what the viewer will have been told when it has read all of   *)
(* it suits the state the host is in now.  A stream is a parameter here,   *)
(* as are the viewer v, the state h and the grant g of the host.           *)

(* The records that decide the viewer's state, and what they make of it.   *)
Decides(m) == m.type \in {"LoginError", "PeerInfo"}
Effect(m) == IF m.type = "PeerInfo" THEN "Active" ELSE StateAfterError(m.error)

(* What a viewer that has read everything may take itself for.             *)
Suits(told, h) ==
    /\ told = "Active" <=> h = "Authorized"
    /\ told = "Await2Fa" => h = "Await2Fa"
    /\ told = "AwaitApproval" => h = "AwaitApproval"

(* The last record that decides suits the host; without one, the viewer    *)
(* does as it is.                                                          *)
LastWord(s, v, h) ==
    /\ \A i \in 1..Len(s) :
         Decides(s[i]) /\ (\A j \in 1..Len(s) : i < j => ~Decides(s[j]))
           => Suits(Effect(s[i]), h)
    /\ (\A i \in 1..Len(s) : ~Decides(s[i])) => Suits(v.state, h)

(* After a success nothing decides any more, and only an authorized host   *)
(* has sent one or reported a permission.                                  *)
Final(s, v, h) ==
    /\ \A i, j \in 1..Len(s) : s[i].type = "PeerInfo" /\ i < j => ~Decides(s[j])
    /\ v.state = "Active" => h = "Authorized" /\ \A i \in 1..Len(s) : ~Decides(s[i])
    /\ \A i \in 1..Len(s) : s[i].type \in {"PeerInfo", "Permission"} => h = "Authorized"

(* Every report tells the grant, and a feature on which viewer and grant   *)
(* differ is still to be reported.                                         *)
Reported(s, v, h, g) ==
    /\ \A i \in 1..Len(s) :
         s[i].type = "Permission" => (s[i].enabled <=> s[i].feature \in g)
    /\ h = "Authorized" =>
         \A f \in Features :
           \/ \E i \in 1..Len(s) : s[i].type = "Permission" /\ s[i].feature = f
           \/ f \in v.permissions <=> f \in g

(* What the viewer makes of a record that does not end its session.        *)
Takes(m, v, w) ==
    \/ /\ m.type = "Hash" /\ v.state = "AwaitHash" /\ w.state = "AwaitLogin"
       /\ w.permissions = v.permissions
    \/ /\ Decides(m) /\ v.state # "Active" /\ w.state = Effect(m)
       /\ w.permissions = v.permissions
    \/ /\ m.type = "Permission" /\ w.state = v.state
       /\ w.permissions = Recorded(v.permissions, m)
    \/ /\ v.state = "Active" /\ m.type \in {"Hash", "LoginError", "PeerInfo"}
       /\ w.state = v.state /\ w.permissions = v.permissions

(* No error makes a viewer Active. *)
LEMMA ErrorIsNoSuccess == \A m : StateAfterError(m) \in {"Await2Fa", "AwaitApproval", "AwaitLogin"}
BY DEF StateAfterError

(* Reading one record keeps the last word. *)
LEMMA LastWordTaken ==
    ASSUME NEW s \in Seq(FromHost), s # <<>>, NEW v, NEW w, NEW h,
           LastWord(s, v, h), Final(s, v, h), Takes(s[1], v, w)
    PROVE  LastWord(Tail(s), w, h)
<1> DEFINE t == Tail(s)
<1>1. /\ Len(s) \in Nat /\ Len(s) >= 1 /\ Len(t) = Len(s) - 1
      /\ \A i \in 1..Len(t) : t[i] = s[i + 1]
  BY HeadTailProperties, EmptySeq, LenProperties
<1> HIDE DEF t
<1>2. \A i \in 1..Len(t) : i + 1 \in 1..Len(s)
  BY <1>1
<1>3. \A j \in 2..Len(s) : j - 1 \in 1..Len(t) /\ t[j - 1] = s[j]
  BY <1>1
<1>4. ASSUME NEW i \in 1..Len(t), Decides(t[i]),
             \A j \in 1..Len(t) : i < j => ~Decides(t[j])
      PROVE  Suits(Effect(t[i]), h)
  <2>1. i + 1 \in 1..Len(s) /\ t[i] = s[i + 1]
    BY <1>1, <1>2
  <2>2. ASSUME NEW j \in 1..Len(s), i + 1 < j PROVE ~Decides(s[j])
    <3>1. j \in 2..Len(s) /\ i < j - 1
      BY <2>1, <2>2, <1>1
    <3> QED
      BY <1>3, <1>4, <3>1
  <2> QED
    BY <1>4, <2>1, <2>2 DEF LastWord
<1>5. ASSUME \A i \in 1..Len(t) : ~Decides(t[i]) PROVE Suits(w.state, h)
  <2>1. \A j \in 2..Len(s) : ~Decides(s[j])
    BY <1>3, <1>5
  <2>2. \A j \in 1..Len(s) : j = 1 \/ j \in 2..Len(s)
    BY <1>1
  <2>3. 1 \in 1..Len(s)
    BY <1>1
  <2>4. CASE Decides(s[1])
    <3>1. Suits(Effect(s[1]), h)
      <4>1. \A j \in 1..Len(s) : 1 < j => ~Decides(s[j])
        BY <2>1, <2>2
      <4> QED
        BY <2>3, <2>4, <4>1 DEF LastWord
    <3>2. v.state # "Active"
      BY <2>3, <2>4 DEF Final
    <3>3. w.state = Effect(s[1])
      BY <2>4, <3>2 DEF Takes, Decides
    <3> QED
      BY <3>1, <3>3
  <2>5. CASE ~Decides(s[1])
    <3>1. Suits(v.state, h)
      BY <2>1, <2>2, <2>5 DEF LastWord
    <3>2. \/ w.state = v.state
          \/ v.state = "AwaitHash" /\ w.state = "AwaitLogin"
      BY <2>5 DEF Takes
    <3> QED
      BY <3>1, <3>2 DEF Suits
  <2> QED
    BY <2>4, <2>5
<1> QED
  BY <1>4, <1>5 DEF LastWord, t

(* Reading one record leaves a success final. *)
LEMMA FinalTaken ==
    ASSUME NEW s \in Seq(FromHost), s # <<>>, NEW v, NEW w, NEW h,
           Final(s, v, h), Takes(s[1], v, w)
    PROVE  Final(Tail(s), w, h)
<1> DEFINE t == Tail(s)
<1>1. /\ Len(s) \in Nat /\ Len(s) >= 1 /\ Len(t) = Len(s) - 1
      /\ \A i \in 1..Len(t) : t[i] = s[i + 1]
  BY HeadTailProperties, EmptySeq, LenProperties
<1> HIDE DEF t
<1>2. \A i \in 1..Len(t) : i + 1 \in 1..Len(s) /\ t[i] = s[i + 1] /\ 1 < i + 1
  BY <1>1
<1>3. 1 \in 1..Len(s)
  BY <1>1
<1>4. ASSUME NEW i \in 1..Len(t), NEW j \in 1..Len(t), t[i].type = "PeerInfo", i < j
      PROVE  ~Decides(t[j])
  <2>1. i + 1 < j + 1
    BY <1>4, <1>1
  <2> QED
    BY <1>2, <1>4, <2>1 DEF Final
<1>5. \A i \in 1..Len(t) : t[i].type \in {"PeerInfo", "Permission"} => h = "Authorized"
  BY <1>2 DEF Final
<1>6. ASSUME w.state = "Active"
      PROVE  h = "Authorized" /\ \A i \in 1..Len(t) : ~Decides(t[i])
  <2>1. CASE v.state = "Active"
    BY <1>2, <2>1 DEF Final
  <2>2. CASE v.state # "Active"
    <3>1. s[1].type = "PeerInfo"
      BY <1>6, <2>2, ErrorIsNoSuccess DEF Takes, Effect
    <3> QED
      BY <1>2, <1>3, <3>1 DEF Final
  <2> QED
    BY <2>1, <2>2
<1> QED
  BY <1>4, <1>5, <1>6 DEF Final, t

(* Reading one record: a report settles its feature, nothing else touches  *)
(* the permissions.                                                        *)
LEMMA ReportedTaken ==
    ASSUME NEW s \in Seq(FromHost), s # <<>>, NEW v, NEW w, NEW h, NEW g,
           Reported(s, v, h, g), Takes(s[1], v, w)
    PROVE  Reported(Tail(s), w, h, g)
<1> DEFINE t == Tail(s)
<1>1. /\ Len(s) \in Nat /\ Len(s) >= 1 /\ Len(t) = Len(s) - 1
      /\ \A i \in 1..Len(t) : t[i] = s[i + 1]
  BY HeadTailProperties, EmptySeq, LenProperties
<1> HIDE DEF t
<1>2. \A i \in 1..Len(t) : i + 1 \in 1..Len(s) /\ t[i] = s[i + 1]
  BY <1>1
<1>3. \A j \in 1..Len(s) : j = 1 \/ (j - 1 \in 1..Len(t) /\ t[j - 1] = s[j])
  BY <1>1
<1>4. 1 \in 1..Len(s)
  BY <1>1
<1>5. \A i \in 1..Len(t) : t[i].type = "Permission" => (t[i].enabled <=> t[i].feature \in g)
  BY <1>2 DEF Reported
<1>6. ASSUME h = "Authorized", NEW f \in Features,
             ~ \E i \in 1..Len(t) : t[i].type = "Permission" /\ t[i].feature = f
      PROVE  f \in w.permissions <=> f \in g
  <2>1. CASE s[1].type = "Permission" /\ s[1].feature = f
    <3>1. w.permissions = Recorded(v.permissions, s[1])
      BY <2>1 DEF Takes, Decides
    <3>2. s[1].enabled <=> f \in g
      BY <1>4, <2>1 DEF Reported
    <3> QED
      BY <2>1, <3>1, <3>2 DEF Recorded
  <2>2. CASE ~(s[1].type = "Permission" /\ s[1].feature = f)
    <3>1. ~ \E i \in 1..Len(s) : s[i].type = "Permission" /\ s[i].feature = f
      BY <1>3, <1>6, <2>2
    <3>2. f \in v.permissions <=> f \in g
      BY <1>6, <3>1 DEF Reported
    <3>3. f \in w.permissions <=> f \in v.permissions
      BY <2>2 DEF Takes, Recorded
    <3> QED
      BY <3>2, <3>3
  <2> QED
    BY <2>1, <2>2
<1> QED
  BY <1>5, <1>6 DEF Reported, t

(* What the host writes in answer to a login it decides: one record that   *)
(* decides, then reports of the grant if it is a success.                  *)
Reply(q, h, g) ==
    /\ q # <<>> /\ Decides(q[1]) /\ Suits(Effect(q[1]), h)
    /\ \A i \in 2..Len(q) : ~Decides(q[i])
    /\ \A i \in 1..Len(q) : q[i].type \in {"PeerInfo", "Permission"} => h = "Authorized"
    /\ \A i \in 1..Len(q) :
         q[i].type = "Permission" => (q[i].enabled <=> q[i].feature \in g)
    /\ h = "Authorized" =>
         \A f \in Features :
           \E i \in 1..Len(q) : q[i].type = "Permission" /\ q[i].feature = f

(* The reply becomes the last word of the stream it is written to. *)
LEMMA ReplyIsLastWord ==
    ASSUME NEW s \in Seq(FromHost), NEW q \in Seq(FromHost), NEW v,
           NEW h, NEW k, NEW d,
           h # "Authorized", Final(s, v, h), Reply(q, k, d)
    PROVE  /\ LastWord(s \o q, v, k)
           /\ Final(s \o q, v, k)
           /\ Reported(s \o q, v, k, d)
<1> DEFINE t == s \o q
<1>1. /\ Len(s) \in Nat /\ Len(q) \in Nat /\ Len(t) = Len(s) + Len(q)
      /\ \A i \in 1..Len(s) + Len(q) : t[i] = IF i <= Len(s) THEN s[i] ELSE q[i - Len(s)]
  BY ConcatProperties, LenProperties
<1>2. Len(q) >= 1
  BY EmptySeq DEF Reply
<1> HIDE DEF t
<1>3. \A i \in 1..Len(t) : \/ i \in 1..Len(s) /\ t[i] = s[i]
                           \/ i - Len(s) \in 1..Len(q) /\ t[i] = q[i - Len(s)] /\ i > Len(s)
  BY <1>1
<1>4. \A i \in 1..Len(q) : i + Len(s) \in 1..Len(t) /\ t[i + Len(s)] = q[i]
  BY <1>1
<1>5. 1 + Len(s) \in 1..Len(t) /\ t[1 + Len(s)] = q[1]
  BY <1>2, <1>4
<1>6. \A i \in 1..Len(t) : Decides(t[i]) => i <= 1 + Len(s)
  <2> SUFFICES ASSUME NEW i \in 1..Len(t), i > 1 + Len(s) PROVE ~Decides(t[i])
    BY <1>1
  <2>1. i - Len(s) \in 2..Len(q) /\ t[i] = q[i - Len(s)]
    BY <1>1
  <2> QED
    BY <2>1 DEF Reply
<1>7. \A i \in 1..Len(s) : s[i].type \notin {"PeerInfo", "Permission"}
  BY DEF Final
<1>8. v.state # "Active"
  BY DEF Final
<1>9. LastWord(t, v, k)
  <2>1. ASSUME NEW i \in 1..Len(t), Decides(t[i]),
               \A j \in 1..Len(t) : i < j => ~Decides(t[j])
        PROVE  Suits(Effect(t[i]), k)
    <3>1. ~(i < 1 + Len(s))
      BY <1>5, <2>1 DEF Reply
    <3>2. i = 1 + Len(s)
      BY <1>1, <1>6, <2>1, <3>1
    <3> QED
      BY <1>5, <3>2 DEF Reply
  <2>2. \E i \in 1..Len(t) : Decides(t[i])
    BY <1>5 DEF Reply
  <2> QED
    BY <2>1, <2>2 DEF LastWord
<1>10. Final(t, v, k)
  <2>1. ASSUME NEW i \in 1..Len(t), NEW j \in 1..Len(t), t[i].type = "PeerInfo", i < j
        PROVE  ~Decides(t[j])
    <3>1. i > Len(s)
      <4>1. CASE i \in 1..Len(s) /\ t[i] = s[i]
        <5>1. s[i].type # "PeerInfo"
          BY <1>7, <4>1
        <5> QED
          BY <2>1, <4>1, <5>1
      <4>2. CASE i > Len(s)
        BY <4>2
      <4> QED
        BY <1>3, <4>1, <4>2
    <3>2. Len(s) \in Nat /\ i \in Int /\ j \in Int
      BY <1>1
    <3>3. ~(j <= 1 + Len(s))
      BY <2>1, <3>1, <3>2
    <3> QED
      BY <1>6, <3>3
  <2>2. \A i \in 1..Len(t) : t[i].type \in {"PeerInfo", "Permission"} => k = "Authorized"
    BY <1>3, <1>7 DEF Reply
  <2> QED
    BY <1>8, <2>1, <2>2 DEF Final
<1>11. Reported(t, v, k, d)
  <2>1. ASSUME NEW i \in 1..Len(t), t[i].type = "Permission"
        PROVE  t[i].enabled <=> t[i].feature \in d
    <3>1. CASE i \in 1..Len(s) /\ t[i] = s[i]
      <4>1. s[i].type # "Permission"
        BY <1>7, <3>1
      <4> QED
        BY <2>1, <3>1, <4>1
    <3>2. CASE i - Len(s) \in 1..Len(q) /\ t[i] = q[i - Len(s)]
      <4>1. q[i - Len(s)].type = "Permission"
        BY <2>1, <3>2
      <4>2. q[i - Len(s)].enabled <=> q[i - Len(s)].feature \in d
        BY <3>2, <4>1 DEF Reply
      <4> QED
        BY <3>2, <4>2
    <3> QED
      BY <1>3, <3>1, <3>2
  <2>2. ASSUME k = "Authorized", NEW f \in Features
        PROVE  \E i \in 1..Len(t) : t[i].type = "Permission" /\ t[i].feature = f
    <3>1. PICK i \in 1..Len(q) : q[i].type = "Permission" /\ q[i].feature = f
      BY <2>2 DEF Reply
    <3> QED
      BY <1>4, <3>1
  <2> QED
    BY <2>1, <2>2 DEF Reported
<1> QED
  BY <1>9, <1>10, <1>11 DEF t

(* A pending approval that is not explained needs no explanation to a      *)
(* viewer that was not asked for a code.                                   *)
LEMMA SilenceSuits ==
    ASSUME NEW s \in Seq(FromHost), NEW v, NEW h, NEW d,
           h \notin {"Authorized", "Await2Fa"},
           LastWord(s, v, h), Final(s, v, h)
    PROVE  /\ LastWord(s, v, "AwaitApproval")
           /\ Final(s, v, "AwaitApproval")
           /\ Reported(s, v, "AwaitApproval", d)
<1>1. \A told : Suits(told, h) => Suits(told, "AwaitApproval")
  BY DEF Suits
<1>2. LastWord(s, v, "AwaitApproval")
  BY <1>1 DEF LastWord
<1>3. \A i \in 1..Len(s) : s[i].type \notin {"PeerInfo", "Permission"}
  BY DEF Final
<1>4. v.state # "Active"
  BY DEF Final
<1> QED
  BY <1>2, <1>3, <1>4 DEF Final, Reported

(* A login submitted again takes nothing back that has been said. *)
LEMMA RetrySuits ==
    ASSUME NEW s \in Seq(FromHost), NEW v, NEW w, NEW h, NEW g,
           v.state # "Active", w.state = "AwaitLogin", w.permissions = v.permissions,
           LastWord(s, v, h), Final(s, v, h), Reported(s, v, h, g)
    PROVE  /\ LastWord(s, w, h)
           /\ Final(s, w, h)
           /\ Reported(s, w, h, g)
<1>1. Suits(v.state, h) => Suits(w.state, h)
  BY DEF Suits
<1> QED
  BY <1>1 DEF LastWord, Final, Reported

(* What a call of login(), second_factor() or poll_approval() that         *)
(* HostSession makes amounts to: nothing, an error that suits the state it *)
(* leaves, a pending approval, or the authorization.  An approval that is  *)
(* not explained to an old viewer is never awaited after a code was asked  *)
(* for: only a password would have led there, and the login that carries   *)
(* one awaits an approval only where no password is looked at.             *)
HostSays ==
    \/ action' = Ignored /\ UNCHANGED <<state, request, grant>>
    \/ /\ state # "Authorized" /\ state' # "Authorized"
       /\ \E m \in Messages :
            /\ action' = Error(m)
            /\ state' = "Closed" \/ Suits(StateAfterError(m), state')
    \/ /\ state # "Authorized" /\ state' = "AwaitApproval"
       /\ action' = PendingApproval /\ request' # NoRequest
       /\ request'.modern \/ state # "Await2Fa"
    \/ /\ state # "Authorized" /\ state' = "Authorized"
       /\ action'.kind = "Authorized" /\ action'.permissions = grant'

(* Evidence by approval is there only when the provider has decided. *)
Decided == basis.by = "approval" => decision.kind # "Pending"

(* What the errors make of a viewer. *)
LEMMA Errors ==
    /\ StateAfterError("2FA Required") = "Await2Fa"
    /\ StateAfterError("Wrong 2FA Code") = "Await2Fa"
    /\ StateAfterError("2FA verification unsupported") = "Await2Fa"
    /\ StateAfterError("No Password Access") = "AwaitApproval"
    /\ \A m \in {"Wrong Password", "Empty Password", "Attempts"} :
         StateAfterError(m) = "AwaitLogin"
BY DEF StateAfterError

LEMMA AfterPrimarySays ==
    ASSUME NEW granted, NEW claims, AfterPrimary(granted, claims), state # "Authorized"
    PROVE  HostSays
<1>1. CASE state' = "Await2Fa" /\ action' = Error("2FA Required")
  <2>1. "2FA Required" \in Messages
    BY DEF Messages
  <2> QED
    BY <1>1, <2>1, Errors DEF HostSays, Suits
<1>2. CASE Authorize(granted, claims)
  <2>1. action'.kind = "Authorized" /\ action'.permissions = grant'
    BY <1>2 DEF Authorize
  <2> QED
    BY <1>2, <2>1 DEF Authorize, HostSays
<1> QED
  BY <1>1, <1>2 DEF AfterPrimary

LEMMA ConsultSays ==
    ASSUME NEW verdict \in Approval, NEW claims, NEW pending,
           Consult(verdict, claims, pending), state # "Authorized", claims # NoRequest,
           \/ pending = Error("Wrong Password")
           \/ /\ pending = PendingApproval
              /\ claims.modern \/ verdict.kind # "Pending" \/ state # "Await2Fa"
    PROVE  HostSays
<1>1. CASE verdict.kind = "Pending"
  <2>1. state' = "AwaitApproval" /\ action' = pending /\ request' = claims
    BY <1>1 DEF Consult
  <2>2. "Wrong Password" \in Messages
    BY DEF Messages
  <2>3. Suits(StateAfterError("Wrong Password"), "AwaitApproval")
    BY Errors DEF Suits
  <2> QED
    BY <1>1, <2>1, <2>2, <2>3 DEF HostSays
<1>2. CASE verdict.kind = "Denied"
  <2>1. state' = "Closed" /\ action' = Error("Connection not allowed")
    BY <1>2 DEF Consult, Terminal, CloseFields
  <2>2. "Connection not allowed" \in Messages
    BY DEF Messages
  <2> QED
    BY <2>1, <2>2 DEF HostSays
<1>3. CASE verdict.kind = "Approved"
  BY <1>3, AfterPrimarySays DEF Consult
<1> QED
  BY <1>1, <1>2, <1>3 DEF Approval

LEMMA LoginSays ==
    ASSUME AuthInv, Decided, decision \in Approval,
           NEW req \in Requests, NEW allowed \in BOOLEAN,
           Login(req, allowed, decision)
    PROVE  HostSays
<1>1. CASE LoginIgnored
  BY <1>1 DEF LoginIgnored, HostSays
<1>2. CASE LoginRefused(req) /\ state \notin {"Closed", "Authorized"}
  <2>1. LoginRefusal(req) \in Messages
    BY DEF LoginRefusal, Messages
  <2>2. state' = "Closed" /\ action' = Error(LoginRefusal(req))
    BY <1>2 DEF LoginRefused, Terminal, CloseFields
  <2> QED
    BY <1>2, <2>1, <2>2 DEF HostSays
<1>3. CASE LoginAccepted(req, allowed, decision) /\ state \notin {"Closed", "Authorized"}
  <2>1. CASE LoginRateLimited
    <3>1. state' = "AwaitLogin" /\ action' = Error("Attempts") /\ "Attempts" \in Messages
      BY <2>1 DEF LoginRateLimited, Messages
    <3>2. Suits(StateAfterError("Attempts"), "AwaitLogin")
      BY Errors DEF Suits
    <3> QED
      BY <1>3, <3>1, <3>2 DEF HostSays
  <2>2. CASE LoginByPassword(req)
    BY <1>3, <2>2, AfterPrimarySays DEF LoginByPassword
  <2>3. CASE /\ ~TriesPassword(req) \/ (allowed /\ req.password = "wrong")
             /\ LoginWithoutPassword(req, decision)
    <3>1. CASE config.policy = "PasswordOnly"
      <4>1. /\ state' = "AwaitLogin"
            /\ \E m \in {"Empty Password", "Wrong Password"} : action' = Error(m)
        BY <2>3, <3>1 DEF LoginWithoutPassword
      <4>2. \A m \in {"Empty Password", "Wrong Password"} :
              m \in Messages /\ Suits(StateAfterError(m), "AwaitLogin")
        BY Errors DEF Suits, Messages
      <4> QED
        BY <1>3, <4>1, <4>2 DEF HostSays
    <3>2. CASE config.policy # "PasswordOnly"
      <4> DEFINE pending ==
            IF config.policy = "PasswordOrClick" /\ req.password # "empty"
            THEN Error("Wrong Password") ELSE PendingApproval
      <4>1. Consult(decision, Retained(req), pending)
        BY <2>3, <3>2 DEF LoginWithoutPassword
      <4>2. pending = Error("Wrong Password") \/ pending = PendingApproval
        OBVIOUS
      <4>3. ASSUME decision.kind = "Pending", state = "Await2Fa"
            PROVE  Retained(req).modern
        <5>1. config.policy # "ClickOnly"
          <6>1. PrimaryDone
            BY <4>3 DEF AuthInv
          <6>2. basis.by = "password"
            BY <4>3, <6>1 DEF PrimaryDone, Decided, AuthInv, AuthTypeOK, Basis
          <6> QED
            BY <6>1, <6>2 DEF PrimaryDone
        <5>2. req.password # "right"
          BY <2>3, <5>1 DEF TriesPassword
        <5> QED
          BY <5>2, VersionAssumption DEF Retained
      <4>4. Retained(req) # NoRequest
        BY RetainedType, RequestsAssumption
      <4> HIDE DEF pending
      <4> QED
        BY <1>3, <4>1, <4>2, <4>3, <4>4, ConsultSays
    <3> QED
      BY <3>1, <3>2
  <2> QED
    BY <1>3, <2>1, <2>2, <2>3 DEF LoginAccepted
<1> QED
  BY <1>1, <1>2, <1>3 DEF Login

LEMMA PollApprovalSays ==
    ASSUME decision \in Approval, PollApproval(decision)
    PROVE  HostSays
<1>1. CASE action' = Ignored /\ UNCHANGED <<state, request, grant, basis>>
  BY <1>1 DEF HostSays
<1>2. CASE /\ state = "AwaitApproval" /\ request # NoRequest
           /\ Consult(decision, request, PendingApproval)
  BY <1>2, ConsultSays
<1> QED
  BY <1>1, <1>2 DEF PollApproval

LEMMA SecondFactorSays ==
    ASSUME NEW allowed \in BOOLEAN, NEW result \in FactorResult,
           SecondFactor(allowed, result)
    PROVE  HostSays
<1>1. CASE action' = Ignored /\ UNCHANGED <<state, request, grant, basis>>
  BY <1>1 DEF HostSays
<1>2. CASE /\ state = "Await2Fa" /\ state' = "Await2Fa"
           /\ action' = Error("Attempts") \/ action' = Error(FactorMessage(result))
  <2>1. FactorMessage(result) \in {"Wrong 2FA Code", "2FA verification unsupported"}
    BY DEF FactorMessage
  <2>2. \A m \in {"Attempts", "Wrong 2FA Code", "2FA verification unsupported"} :
          m \in Messages /\ Suits(StateAfterError(m), "Await2Fa")
    BY Errors DEF Suits, Messages
  <2>3. \E m \in {"Attempts", "Wrong 2FA Code", "2FA verification unsupported"} :
          action' = Error(m)
    BY <1>2, <2>1
  <2> QED
    BY <1>2, <2>2, <2>3 DEF HostSays
<1>3. CASE state = "Await2Fa" /\ Authorize(grant, request)
  <2>1. action'.kind = "Authorized" /\ action'.permissions = grant'
    BY <1>3 DEF Authorize
  <2> QED
    BY <1>3, <2>1 DEF Authorize, HostSays
<1> QED
  BY <1>1, <1>2, <1>3 DEF SecondFactor

(* The request a login leaves behind carries the identity it came with. *)
LEMMA LoginRequestKept ==
    ASSUME NEW req, NEW allowed, NEW verdict, Login(req, allowed, verdict)
    PROVE  request' \in {request, Retained(req), NoRequest}
BY ConsultRequest DEF Login, LoginIgnored, LoginRefused, Terminal, CloseFields,
      LoginAccepted, LoginRateLimited, LoginByPassword, LoginWithoutPassword

(* The providers' evidence follows the decision. *)
LEMMA DecidedStep ==
    ASSUME Decided, decision' = decision,
           \/ basis' \in {NoBasis, basis, ApprovalBasis(decision)}
           \/ basis'.by \in {"password", basis.by}
    PROVE  Decided'
BY DEF Decided, NoBasis, ApprovalBasis

LEMMA LoginDecided ==
    ASSUME Decided, decision' = decision, NEW req, NEW allowed,
           Login(req, allowed, decision)
    PROVE  Decided'
<1>1. \/ basis' \in {NoBasis, basis, ApprovalBasis(decision)}
      \/ basis' = [by |-> "password", offered |-> config.password_permissions,
                   factor |-> FALSE]
  BY DEF Login, LoginIgnored, LoginRefused,
      LoginAccepted, LoginRateLimited, LoginByPassword, LoginWithoutPassword
<1>2. \/ basis' \in {NoBasis, basis, ApprovalBasis(decision)}
      \/ basis'.by = "password"
  BY <1>1
<1> QED
  BY <1>2, DecidedStep

LEMMA SecondFactorDecided ==
    ASSUME AuthInv, Decided, decision' = decision, NEW allowed, NEW result,
           SecondFactor(allowed, result)
    PROVE  Decided'
<1>1. basis' = basis \/ basis' = [basis EXCEPT !.factor = TRUE]
  BY DEF SecondFactor
<1>2. basis'.by = basis.by
  BY <1>1 DEF AuthInv, AuthTypeOK, Basis
<1> QED
  BY <1>2, DecidedStep

(* The records of the host, told apart by their types. *)
LEMMA HostRecords ==
    /\ Hash \in FromHost /\ PeerInfo \in FromHost /\ CloseReason \in FromHost
    /\ Hash.type = "Hash" /\ PeerInfo.type = "PeerInfo" /\ CloseReason.type = "Close"
    /\ \A m \in FromHost : m.type = "PeerInfo" => m = PeerInfo
    /\ \A e \in LoginError : /\ ErrorResponse(e) \in FromHost
                             /\ ErrorResponse(e).type = "LoginError"
                             /\ ErrorResponse(e).error = e
<1>1. /\ Hash \in FromHost /\ PeerInfo \in FromHost /\ CloseReason \in FromHost
      /\ Hash.type = "Hash" /\ PeerInfo.type = "PeerInfo" /\ CloseReason.type = "Close"
  BY DEF FromHost, Hash, PeerInfo, CloseReason
<1>2. \A m \in FromHost : m.type = "PeerInfo" => m = PeerInfo
  BY DEF FromHost, Hash, PeerInfo, CloseReason
<1>3. \A e \in LoginError : /\ ErrorResponse(e) \in FromHost
                            /\ ErrorResponse(e).type = "LoginError"
                            /\ ErrorResponse(e).error = e
  BY DEF FromHost, ErrorResponse
<1> QED
  BY <1>1, <1>2, <1>3

(* A record that answers alone is a reply when it suits the state. *)
LEMMA ErrorReply ==
    ASSUME NEW e \in LoginError, NEW h, NEW g,
           h # "Authorized", Suits(StateAfterError(e), h)
    PROVE  /\ <<ErrorResponse(e)>> \in Seq(FromHost)
           /\ Reply(<<ErrorResponse(e)>>, h, g)
<1> DEFINE m == ErrorResponse(e)
<1>1. m \in FromHost /\ m.type = "LoginError" /\ m.error = e
  BY HostRecords
<1> HIDE DEF m
<1>2. Len(<<m>>) = 1 /\ <<m>>[1] = m /\ <<m>> # <<>> /\ <<m>> \in Seq(FromHost)
  BY <1>1
<1>3. Decides(m) /\ Effect(m) = StateAfterError(e)
  BY <1>1 DEF Decides, Effect
<1>4. \A i \in 1..1 : i = 1
  OBVIOUS
<1>5. \A i \in 2..1 : FALSE
  OBVIOUS
<1>6. Reply(<<m>>, h, g)
  BY <1>1, <1>2, <1>3, <1>4, <1>5 DEF Reply
<1> QED
  BY <1>2, <1>6 DEF m

(* The announcement of a grant: the success first, then a report of every  *)
(* feature.                                                                *)
Reports(granted) ==
    [i \in DOMAIN FeatureOrder |->
       PermissionInfo(FeatureOrder[i], FeatureOrder[i] \in granted)]

LEMMA ReportsType ==
    ASSUME NEW granted
    PROVE  /\ Reports(granted) \in Seq(FromHost)
           /\ Len(Reports(granted)) = Len(FeatureOrder)
           /\ \A i \in 1..Len(FeatureOrder) :
                /\ Reports(granted)[i].type = "Permission"
                /\ Reports(granted)[i].feature = FeatureOrder[i]
                /\ Reports(granted)[i].enabled <=> FeatureOrder[i] \in granted
<1> DEFINE n == Len(FeatureOrder)
<1>1. n \in Nat /\ DOMAIN FeatureOrder = 1..n /\ \A i \in 1..n : FeatureOrder[i] \in Features
  BY OrderAssumption, LenProperties, ElementOfSeq
<1>2. \A i \in 1..n :
        PermissionInfo(FeatureOrder[i], FeatureOrder[i] \in granted) \in FromHost
  <2> SUFFICES ASSUME NEW i \in 1..n
               PROVE  PermissionInfo(FeatureOrder[i], FeatureOrder[i] \in granted)
                        \in [type : {"Permission"}, feature : Features, enabled : BOOLEAN]
    BY DEF FromHost
  <2>1. FeatureOrder[i] \in Features
    BY <1>1
  <2>2. (FeatureOrder[i] \in granted) \in BOOLEAN
    OBVIOUS
  <2> QED
    BY <2>1, <2>2 DEF PermissionInfo
<1>3. Reports(granted) \in [1..n -> FromHost]
  BY <1>1, <1>2 DEF Reports
<1>4. Reports(granted) \in Seq(FromHost)
  BY <1>1, <1>3, SeqDef
<1>5. Len(Reports(granted)) = n
  BY <1>1, <1>3, <1>4, LenProperties
<1>6. ASSUME NEW i \in 1..n
      PROVE  /\ Reports(granted)[i].type = "Permission"
             /\ Reports(granted)[i].feature = FeatureOrder[i]
             /\ Reports(granted)[i].enabled <=> FeatureOrder[i] \in granted
  <2>1. Reports(granted)[i] = PermissionInfo(FeatureOrder[i], FeatureOrder[i] \in granted)
    BY <1>1, <1>6 DEF Reports
  <2>2. \A on : /\ PermissionInfo(FeatureOrder[i], on).type = "Permission"
                /\ PermissionInfo(FeatureOrder[i], on).feature = FeatureOrder[i]
                /\ PermissionInfo(FeatureOrder[i], on).enabled = on
    BY DEF PermissionInfo
  <2>3. Reports(granted)[i].enabled = (FeatureOrder[i] \in granted)
    BY <2>1, <2>2, Zenon
  <2>4. Reports(granted)[i].type = "Permission" /\ Reports(granted)[i].feature = FeatureOrder[i]
    BY <2>1, <2>2, Zenon
  <2> QED
    BY <2>3, <2>4
<1> QED
  BY <1>4, <1>5, <1>6

LEMMA SuccessReply ==
    ASSUME NEW granted
    PROVE  /\ <<PeerInfo>> \o Reports(granted) \in Seq(FromHost)
           /\ (<<PeerInfo>> \o Reports(granted))[1] = PeerInfo
           /\ Reply(<<PeerInfo>> \o Reports(granted), "Authorized", granted)
           /\ \A i \in 2..Len(<<PeerInfo>> \o Reports(granted)) :
                (<<PeerInfo>> \o Reports(granted))[i].type = "Permission"
<1> DEFINE r == Reports(granted)
           q == <<PeerInfo>> \o r
           n == Len(FeatureOrder)
<1>1. /\ r \in Seq(FromHost) /\ Len(r) = n /\ n \in Nat
      /\ \A i \in 1..n : /\ r[i].type = "Permission"
                         /\ r[i].feature = FeatureOrder[i]
                         /\ r[i].enabled <=> r[i].feature \in granted
  BY ReportsType, OrderAssumption, LenProperties
<1>2. <<PeerInfo>> \in Seq(FromHost) /\ Len(<<PeerInfo>>) = 1 /\ <<PeerInfo>>[1] = PeerInfo
  BY HostRecords
<1> HIDE DEF r
<1>3. /\ q \in Seq(FromHost) /\ Len(q) = 1 + n
      /\ \A i \in 1..1 + n : q[i] = IF i <= 1 THEN <<PeerInfo>>[i] ELSE r[i - 1]
  BY <1>1, <1>2, ConcatProperties
<1> HIDE DEF q
<1>4. q[1] = PeerInfo
  BY <1>1, <1>2, <1>3
<1>5. \A i \in 2..Len(q) : q[i] = r[i - 1] /\ i - 1 \in 1..n
  BY <1>1, <1>3
<1>6. \A i \in 1..Len(q) : i = 1 \/ i \in 2..Len(q)
  BY <1>1, <1>3
<1>7. \A i \in 2..Len(q) : /\ q[i].type = "Permission"
                           /\ q[i].enabled <=> q[i].feature \in granted
  BY <1>1, <1>5
<1>8. q # <<>>
  BY <1>1, <1>3, EmptySeq
<1>9. Decides(q[1]) /\ Effect(q[1]) = "Active" /\ q[1].type # "Permission"
  BY <1>4, HostRecords DEF Decides, Effect
<1>10. Suits("Active", "Authorized")
  BY DEF Suits
<1>11. \A i \in 2..Len(q) : ~Decides(q[i])
  BY <1>7 DEF Decides
<1>12. \A f \in Features : \E i \in 1..Len(q) : q[i].type = "Permission" /\ q[i].feature = f
  <2> SUFFICES ASSUME NEW f \in Features
               PROVE  \E i \in 1..Len(q) : q[i].type = "Permission" /\ q[i].feature = f
    OBVIOUS
  <2>1. PICK i \in 1..n : f = FeatureOrder[i]
    BY OrderAssumption, LenProperties
  <2>2. i + 1 \in 2..Len(q) /\ i + 1 \in 1..Len(q) /\ (i + 1) - 1 = i
    BY <1>1, <1>3, <2>1
  <2>3. q[i + 1] = r[i]
    BY <1>5, <2>2
  <2> QED
    BY <1>1, <2>1, <2>2, <2>3
<1>13. \A i \in 1..Len(q) : q[i].type = "Permission" => (q[i].enabled <=> q[i].feature \in granted)
  BY <1>6, <1>7, <1>9
<1>14. Reply(q, "Authorized", granted)
  BY <1>8, <1>9, <1>10, <1>11, <1>12, <1>13 DEF Reply
<1> QED
  BY <1>3, <1>4, <1>7, <1>14 DEF q, r

(* The identity of the viewer is the one of every login in flight and of   *)
(* the request the host has latched.                                       *)
Identified ==
    viewerWire =>
      /\ \A i \in 1..Len(toHost) :
           toHost[i].type = "Login" => /\ viewer.request # NoRequest
                                       /\ toHost[i].req.my_id = viewer.request.my_id
      /\ request # NoRequest => /\ viewer.request # NoRequest
                                /\ request.my_id = viewer.request.my_id

(* The success is the first write of its dispatch, and what the host       *)
(* publishes follows it.                                                   *)
Published ==
    /\ state # "Authorized" =>
         hostPermissions = {} /\ \A i \in 1..Len(outbox) : outbox[i].type # "PeerInfo"
    /\ ready => state \in {"Authorized", "Closed"}
    /\ \A i \in 2..Len(outbox) : outbox[i].type # "PeerInfo"
    /\ state = "Authorized" =>
         IF outbox # <<>> /\ outbox[1].type = "PeerInfo"
         THEN ~ready /\ hostPermissions = {} /\ action.permissions = grant
         ELSE hostPermissions = grant

(* The stream tells the viewer what the host's state and grant are. *)
Told ==
    viewerWire /\ state # "Closed" =>
      /\ LastWord(toViewer \o outbox, viewer, state)
      /\ Final(toViewer \o outbox, viewer, state)
      /\ Reported(toViewer \o outbox, viewer, state, grant)

PeersInv ==
    /\ PeersTypeOK
    /\ AuthInv
    /\ ~viewerWire => viewer = ViewerClosed
    /\ state = "Closed" /\ hostWire => outbox # <<>>
    /\ Decided
    /\ Identified
    /\ Published
    /\ Told

(* What HostSession writes in answer to a call is no record at all, which  *)
(* then suits the state, or a reply.                                       *)
LEMMA AnswerIsReply ==
    ASSUME HostSays, state # "Closed", state' # "Closed"
    PROVE  LET q == Answer(action', request') IN
           \/ q = <<>> /\ UNCHANGED <<state, request, grant>>
           \/ /\ q = <<>> /\ state \notin {"Authorized", "Await2Fa"}
              /\ state' = "AwaitApproval"
           \/ /\ q \in Seq(FromHost) /\ state # "Authorized"
              /\ Reply(q, state', grant')
<1> DEFINE q == Answer(action', request')
<1>1. CASE action' = Ignored /\ UNCHANGED <<state, request, grant>>
  <2>1. action'.kind = "Ignored"
    BY <1>1 DEF Ignored
  <2>2. q = <<>>
    BY <2>1 DEF Answer
  <2> QED
    BY <1>1, <2>2
<1>2. CASE /\ state # "Authorized" /\ state' # "Authorized"
           /\ \E m \in Messages : /\ action' = Error(m)
                                  /\ Suits(StateAfterError(m), state')
  <2>1. PICK m \in Messages : action' = Error(m) /\ Suits(StateAfterError(m), state')
    BY <1>2
  <2>2. action'.kind = "Error" /\ action'.message = m
    BY <2>1 DEF Error
  <2>3. q = <<ErrorResponse(m)>>
    BY <2>2 DEF Answer
  <2>4. m \in LoginError
    BY DEF LoginError
  <2> HIDE DEF q
  <2>5. q \in Seq(FromHost) /\ Reply(q, state', grant')
    BY <1>2, <2>1, <2>3, <2>4, ErrorReply
  <2> QED
    BY <1>2, <2>5 DEF q
<1>3. CASE /\ state # "Authorized" /\ state' = "AwaitApproval"
           /\ action' = PendingApproval /\ request' # NoRequest
           /\ request'.modern \/ state # "Await2Fa"
  <2>1. action'.kind = "PendingApproval"
    BY <1>3 DEF PendingApproval
  <2>2. CASE request' # NoRequest /\ request'.modern
    <3>1. q = <<ErrorResponse("No Password Access")>>
      BY <2>1, <2>2 DEF Answer
    <3>2. "No Password Access" \in LoginError
      BY DEF LoginError
    <3>3. Suits(StateAfterError("No Password Access"), state')
      BY <1>3, Errors DEF Suits
    <3> HIDE DEF q
    <3>4. q \in Seq(FromHost) /\ Reply(q, state', grant')
      BY <1>3, <3>1, <3>2, <3>3, ErrorReply
    <3> QED
      BY <1>3, <3>4 DEF q
  <2>3. CASE ~(request' # NoRequest /\ request'.modern)
    <3>1. q = <<>>
      BY <2>1, <2>3 DEF Answer
    <3> QED
      BY <1>3, <2>3, <3>1
  <2> QED
    BY <2>2, <2>3
<1>4. CASE /\ state # "Authorized" /\ state' = "Authorized"
           /\ action'.kind = "Authorized" /\ action'.permissions = grant'
  <2>1. q = <<PeerInfo>> \o Reports(action'.permissions)
    BY <1>4 DEF Answer, Reports
  <2> HIDE DEF q
  <2>2. q \in Seq(FromHost) /\ Reply(q, "Authorized", grant')
    BY <1>4, <2>1, SuccessReply
  <2> QED
    BY <1>4, <2>2 DEF q
<1> QED
  BY <1>1, <1>2, <1>3, <1>4 DEF HostSays

(* The type of the answer, also of one that closes the session. *)
LEMMA AnswerWrites ==
    ASSUME HostSays, state # "Closed"
    PROVE  LET q == Answer(action', request') IN
           /\ q \in Seq(FromHost)
           /\ \A i \in 2..Len(q) : q[i].type # "PeerInfo"
           /\ state' = "Closed" => q # <<>>
           /\ state' # "Authorized" => \A i \in 1..Len(q) : q[i].type # "PeerInfo"
           /\ state = "Authorized" => q = <<>> /\ state' = "Authorized" /\ grant' = grant
           /\ state # "Authorized" /\ state' = "Authorized" =>
                q # <<>> /\ q[1].type = "PeerInfo" /\ action'.permissions = grant'
<1> DEFINE q == Answer(action', request')
<1>1. CASE action' = Ignored /\ UNCHANGED <<state, request, grant>>
  <2>1. action'.kind = "Ignored"
    BY <1>1 DEF Ignored
  <2>2. q = <<>>
    BY <2>1 DEF Answer
  <2>3. <<>> \in Seq(FromHost) /\ Len(<<>>) = 0
    OBVIOUS
  <2>4. \A i \in 1..0 : FALSE
    OBVIOUS
  <2>5. \A i \in 2..0 : FALSE
    OBVIOUS
  <2> QED
    BY <1>1, <2>2, <2>3, <2>4, <2>5
<1>2. ASSUME NEW e \in LoginError, q = <<ErrorResponse(e)>>,
             state # "Authorized", state' # "Authorized"
      PROVE  /\ q \in Seq(FromHost)
             /\ \A i \in 1..Len(q) : q[i].type # "PeerInfo"
             /\ \A i \in 2..Len(q) : q[i].type # "PeerInfo"
             /\ q # <<>>
  <2> DEFINE m == ErrorResponse(e)
  <2>1. m \in FromHost /\ m.type = "LoginError"
    BY HostRecords
  <2> HIDE DEF m
  <2>2. Len(<<m>>) = 1 /\ <<m>>[1] = m /\ <<m>> # <<>> /\ <<m>> \in Seq(FromHost)
    BY <2>1
  <2>3. q = <<m>>
    BY <1>2 DEF m
  <2>4. \A i \in 1..1 : i = 1
    OBVIOUS
  <2>5. \A i \in 2..1 : FALSE
    OBVIOUS
  <2> HIDE DEF q
  <2> QED
    BY <2>1, <2>2, <2>3, <2>4, <2>5
<1>3. CASE /\ state # "Authorized" /\ state' # "Authorized"
           /\ \E m \in Messages : action' = Error(m)
  <2>1. PICK m \in Messages : action' = Error(m)
    BY <1>3
  <2>2. action'.kind = "Error" /\ action'.message = m
    BY <2>1 DEF Error
  <2>3. q = <<ErrorResponse(m)>>
    BY <2>2 DEF Answer
  <2>4. m \in LoginError
    BY DEF LoginError
  <2> HIDE DEF q
  <2> QED
    BY <1>2, <1>3, <2>3, <2>4 DEF q
<1>4. CASE /\ state # "Authorized" /\ state' = "AwaitApproval"
           /\ action' = PendingApproval
  <2>1. action'.kind = "PendingApproval"
    BY <1>4 DEF PendingApproval
  <2>2. q = <<>> \/ q = <<ErrorResponse("No Password Access")>>
    BY <2>1 DEF Answer
  <2>3. "No Password Access" \in LoginError
    BY DEF LoginError
  <2>4. <<>> \in Seq(FromHost) /\ Len(<<>>) = 0
    OBVIOUS
  <2>5. \A i \in 1..0 : FALSE
    OBVIOUS
  <2>6. \A i \in 2..0 : FALSE
    OBVIOUS
  <2> HIDE DEF q
  <2> QED
    BY <1>2, <1>4, <2>2, <2>3, <2>4, <2>5, <2>6 DEF q
<1>5. CASE /\ state # "Authorized" /\ state' = "Authorized"
           /\ action'.kind = "Authorized" /\ action'.permissions = grant'
  <2>1. q = <<PeerInfo>> \o Reports(action'.permissions)
    BY <1>5 DEF Answer, Reports
  <2> HIDE DEF q
  <2>2. /\ q \in Seq(FromHost) /\ q[1] = PeerInfo /\ q # <<>>
        /\ \A i \in 2..Len(q) : q[i].type = "Permission"
    BY <2>1, SuccessReply DEF Reply
  <2>3. q[1].type = "PeerInfo"
    BY <2>2, HostRecords
  <2> QED
    BY <1>5, <2>2, <2>3 DEF q
<1> QED
  BY <1>1, <1>3, <1>4, <1>5 DEF HostSays

(* A dispatch of HostSession: a call of the state machine and the writes   *)
(* that answer it.  toHost and notify are what the caller makes of them.   *)
LEMMA DispatchStep ==
    ASSUME PeersInv, AuthInv', Decided', Identified',
           HostReceives, HostSays, Dispatched(Answer(action', request')),
           toHost' \in Seq(FromViewer), notify' \in {"idle", "due", "permit"},
           UNCHANGED <<viewerVars, toViewer, decision>>
    PROVE  PeersInv'
<1> DEFINE q == Answer(action', request')
<1>1. /\ outbox' = q
      /\ hostWire' = (state' # "Closed" \/ q # <<>>)
      /\ hostPermissions' = hostPermissions /\ ready' = ready
  BY DEF Dispatched
<1>2. hostWire /\ outbox = <<>> /\ state # "Closed"
  BY DEF HostReceives
<1>3. /\ q \in Seq(FromHost)
      /\ \A i \in 2..Len(q) : q[i].type # "PeerInfo"
      /\ state' = "Closed" => q # <<>>
      /\ state' # "Authorized" => \A i \in 1..Len(q) : q[i].type # "PeerInfo"
      /\ state = "Authorized" => q = <<>> /\ state' = "Authorized" /\ grant' = grant
      /\ state # "Authorized" /\ state' = "Authorized" =>
           q # <<>> /\ q[1].type = "PeerInfo" /\ action'.permissions = grant'
  BY <1>2, AnswerWrites
<1>4. state' # "Closed" =>
        \/ q = <<>> /\ UNCHANGED <<state, request, grant>>
        \/ /\ q = <<>> /\ state \notin {"Authorized", "Await2Fa"}
           /\ state' = "AwaitApproval"
        \/ /\ q \in Seq(FromHost) /\ state # "Authorized"
           /\ Reply(q, state', grant')
  BY <1>2, AnswerIsReply
<1> HIDE DEF q
<1>5. /\ viewer' = viewer /\ viewerWire' = viewerWire /\ sends' = sends
      /\ toViewer' = toViewer /\ decision' = decision
  BY DEF viewerVars
<1>6. PeersTypeOK'
  <2>1. AuthTypeOK'
    BY DEF AuthInv
  <2>2. hostWire' \in BOOLEAN
    BY <1>1
  <2> QED
    BY <1>1, <1>3, <1>5, <2>1, <2>2 DEF PeersInv, PeersTypeOK
<1>7. (~viewerWire => viewer = ViewerClosed)'
  BY <1>5 DEF PeersInv, ViewerClosed
<1>8. (state = "Closed" /\ hostWire => outbox # <<>>)'
  BY <1>1, <1>3
<1>9. Published'
  <2>1. CASE state = "Authorized"
    <3>1. outbox' = outbox /\ state' = state /\ grant' = grant
      BY <1>1, <1>2, <1>3, <2>1
    <3>2. hostPermissions = grant
      BY <1>2, <2>1 DEF PeersInv, Published
    <3>3. \A i \in 2..Len(outbox') : outbox'[i].type # "PeerInfo"
      BY <1>1, <1>3
    <3> QED
      BY <1>1, <1>2, <2>1, <3>1, <3>2, <3>3 DEF Published
  <2>2. CASE state # "Authorized"
    <3>1. hostPermissions = {} /\ ~ready
      BY <1>2, <2>2 DEF PeersInv, Published
    <3> QED
      BY <1>1, <1>3, <2>2, <3>1 DEF Published
  <2> QED
    BY <2>1, <2>2
<1>10. Told'
  <2> SUFFICES ASSUME viewerWire', state' # "Closed"
               PROVE  /\ LastWord(toViewer \o q, viewer, state')
                      /\ Final(toViewer \o q, viewer, state')
                      /\ Reported(toViewer \o q, viewer, state', grant')
    BY <1>1, <1>5 DEF Told
  <2>1. toViewer \in Seq(FromHost)
    BY DEF PeersInv, PeersTypeOK
  <2>2. toViewer \o <<>> = toViewer
    BY <2>1, ConcatEmptySeq
  <2>3. /\ LastWord(toViewer, viewer, state)
        /\ Final(toViewer, viewer, state)
        /\ Reported(toViewer, viewer, state, grant)
    BY <1>2, <1>5, <2>2 DEF PeersInv, Told
  <2>4. CASE q = <<>> /\ UNCHANGED <<state, request, grant>>
    BY <2>2, <2>3, <2>4
  <2>5. CASE /\ q = <<>> /\ state \notin {"Authorized", "Await2Fa"}
             /\ state' = "AwaitApproval"
    <3>1. /\ LastWord(toViewer, viewer, "AwaitApproval")
          /\ Final(toViewer, viewer, "AwaitApproval")
          /\ Reported(toViewer, viewer, "AwaitApproval", grant')
      BY <2>1, <2>3, <2>5, SilenceSuits
    <3> QED
      BY <2>2, <2>5, <3>1
  <2>6. CASE /\ q \in Seq(FromHost) /\ state # "Authorized"
             /\ Reply(q, state', grant')
    BY <2>1, <2>3, <2>6, ReplyIsLastWord
  <2> QED
    BY <1>4, <2>4, <2>5, <2>6
<1> QED
  BY <1>6, <1>7, <1>8, <1>9, <1>10 DEF PeersInv

(* HostSession closes: nothing is published any more, and what is still to *)
(* be written is at most the reason.                                       *)
LEMMA HostClosedStep ==
    ASSUME PeersInv, AuthInv', Close,
           hostPermissions' = {}, ready' = ready, hostWire' \in BOOLEAN,
           \/ outbox' = <<>> /\ hostWire' = FALSE
           \/ outbox' = <<CloseReason>>,
           toHost' \in Seq(FromViewer),
           \A i \in 1..Len(toHost') : \E j \in 1..Len(toHost) : toHost'[i] = toHost[j],
           UNCHANGED <<viewerVars, toViewer, userVars>>
    PROVE  PeersInv'
<1>1. state' = "Closed" /\ request' = NoRequest /\ basis' = basis
  BY DEF Close, CloseFields
<1>2. /\ viewer' = viewer /\ viewerWire' = viewerWire /\ sends' = sends
      /\ toViewer' = toViewer /\ decision' = decision /\ notify' = notify
  BY DEF viewerVars, userVars
<1>3. outbox' \in Seq(FromHost) /\ \A i \in 1..Len(outbox') : outbox'[i].type # "PeerInfo"
  <2>1. CASE outbox' = <<>>
    <3>1. <<>> \in Seq(FromHost) /\ Len(<<>>) = 0 /\ \A i \in 1..0 : FALSE
      OBVIOUS
    <3> QED
      BY <2>1, <3>1
  <2>2. CASE outbox' = <<CloseReason>>
    <3>1. CloseReason \in FromHost /\ CloseReason.type = "Close"
      BY HostRecords
    <3>2. <<CloseReason>> \in Seq(FromHost) /\ Len(<<CloseReason>>) = 1
          /\ <<CloseReason>>[1] = CloseReason
      BY <3>1
    <3>3. \A i \in 1..1 : i = 1
      OBVIOUS
    <3> QED
      BY <2>2, <3>1, <3>2, <3>3
  <2> QED
    BY <2>1, <2>2
<1>4. PeersTypeOK'
  <2>1. AuthTypeOK'
    BY DEF AuthInv
  <2>2. hostPermissions' \in Permissions
    BY DEF Permissions
  <2> QED
    BY <1>2, <1>3, <2>1, <2>2 DEF PeersInv, PeersTypeOK
<1>5. (~viewerWire => viewer = ViewerClosed)'
  BY <1>2 DEF PeersInv, ViewerClosed
<1>6. (state = "Closed" /\ hostWire => outbox # <<>>)'
  <2>1. Len(<<CloseReason>>) = 1 /\ Len(<<>>) = 0
    OBVIOUS
  <2>2. <<CloseReason>> # <<>>
    BY <2>1
  <2>3. hostWire' => outbox' # <<>>
    BY <2>2
  <2> QED
    BY <2>3
<1>7. Decided'
  BY <1>1, <1>2 DEF PeersInv, Decided
<1>8. Identified'
  BY <1>1, <1>2 DEF PeersInv, Identified
<1>9. Published'
  <2>1. \A i \in 2..Len(outbox') : i \in 1..Len(outbox')
    <3>1. Len(outbox') \in Nat
      BY <1>3, LenProperties
    <3> QED
      BY <3>1
  <2> QED
    BY <1>1, <1>3, <2>1 DEF Published
<1>10. Told'
  BY <1>1 DEF Told
<1> QED
  BY <1>4, <1>5, <1>6, <1>7, <1>8, <1>9, <1>10 DEF PeersInv

(* Every call HostSession makes is a step of the state machine, and what   *)
(* the other actors do is none.                                            *)
LEMMA PeersStepIsAuthStep ==
    PeersTypeOK /\ [PeersNext]_peerVars => [AuthNext]_authVars
<1> SUFFICES ASSUME PeersTypeOK, [PeersNext]_peerVars PROVE [AuthNext]_authVars
  OBVIOUS
<1>1. decision \in Approval
  BY DEF PeersTypeOK
<1>2. CASE HostRecv
  <2>1. PICK m : \/ \E allowed \in BOOLEAN : m.type = "Login" /\ Login(m.req, allowed, decision)
                 \/ \E allowed \in BOOLEAN : m.type = "Auth2fa" /\ SecondFactor(allowed, m.result)
                 \/ Close
        /\ m = Head(toHost) /\ toHost # <<>>
    BY <1>2 DEF HostRecv
  <2>2. m \in FromViewer
    BY <2>1, HeadTailProperties DEF PeersTypeOK
  <2>3. m.type = "Login" => m.req \in LoginRequest
    BY <2>2, RequestsAssumption DEF FromViewer, CloseReason
  <2>4. m.type = "Auth2fa" => m.result \in FactorResult
    BY <2>2 DEF FromViewer, CloseReason
  <2> QED
    BY <1>1, <2>1, <2>3, <2>4 DEF AuthNext
<1>3. CASE HostPollsApproval
  BY <1>1, <1>3 DEF HostPollsApproval, AuthNext
<1>4. CASE HostSends
  BY <1>4 DEF HostSends
<1>5. CASE HostSendFails \/ HostDeadline \/ HostSeesEnd
  BY <1>5 DEF HostSendFails, HostDeadline, HostSeesEnd, HostTerminates, AuthNext
<1>6. CASE HostCloses
  BY <1>6 DEF HostCloses, AuthNext
<1>7. CASE UserNext
  BY <1>7 DEF UserNext, UserDecides, UserNotifies
<1>8. CASE ViewerLogin \/ ViewerSecondFactor \/ ViewerCloses
  BY <1>8 DEF ViewerLogin, ViewerSecondFactor, ViewerCloses
<1>9. CASE ViewerRecv \/ ViewerLosesWire
  BY <1>9 DEF ViewerRecv, ViewerLosesWire, ViewerTerminates
<1>10. CASE UNCHANGED peerVars
  BY <1>10 DEF peerVars
<1> QED
  BY <1>2, <1>3, <1>4, <1>5, <1>6, <1>7, <1>8, <1>9, <1>10
     DEF PeersNext, HostNext, ViewerNext

(* What is taken from a queue leaves the rest of it. *)
LEMMA RestOfQueue ==
    ASSUME NEW S, NEW s \in Seq(S), s # <<>>
    PROVE  /\ Head(s) \in S /\ Head(s) = s[1] /\ 1 \in 1..Len(s)
           /\ Tail(s) \in Seq(S)
           /\ \A i \in 1..Len(Tail(s)) : i + 1 \in 1..Len(s) /\ Tail(s)[i] = s[i + 1]
<1>1. /\ Len(s) \in Nat /\ Len(s) >= 1
      /\ Head(s) \in S /\ Tail(s) \in Seq(S) /\ Len(Tail(s)) = Len(s) - 1
      /\ \A i \in 1..Len(Tail(s)) : Tail(s)[i] = s[i + 1]
  BY HeadTailProperties, EmptySeq, LenProperties
<1>2. Head(s) = s[1]
  OBVIOUS
<1> QED
  BY <1>1, <1>2

(* HostSession takes a record of the viewer. *)
LEMMA HostRecvStep ==
    ASSUME PeersInv, AuthInv', HostRecv
    PROVE  PeersInv'
<1>1. /\ HostReceives /\ toHost # <<>> /\ toHost' = Tail(toHost)
      /\ UNCHANGED <<viewerVars, toViewer, userVars>>
  BY DEF HostRecv
<1>2. toHost \in Seq(FromViewer) /\ decision \in Approval
  BY DEF PeersInv, PeersTypeOK
<1>3. /\ Head(toHost) \in FromViewer /\ Head(toHost) = toHost[1] /\ 1 \in 1..Len(toHost)
      /\ toHost' \in Seq(FromViewer)
      /\ \A i \in 1..Len(toHost') :
           i + 1 \in 1..Len(toHost) /\ toHost'[i] = toHost[i + 1]
  BY <1>1, <1>2, RestOfQueue
<1>4. /\ viewer' = viewer /\ viewerWire' = viewerWire /\ decision' = decision
      /\ notify' = notify /\ UNCHANGED viewerVars /\ UNCHANGED toViewer
  BY <1>1 DEF viewerVars, userVars
<1>5. notify' \in {"idle", "due", "permit"}
  BY <1>4 DEF PeersInv, PeersTypeOK
<1> DEFINE m == Head(toHost)
<1>6. viewerWire' =>
        \A i \in 1..Len(toHost') :
          toHost'[i].type = "Login" => /\ viewer'.request # NoRequest
                                       /\ toHost'[i].req.my_id = viewer'.request.my_id
  BY <1>3, <1>4 DEF PeersInv, Identified
<1>7. ASSUME NEW allowed \in BOOLEAN, m.type = "Login", Login(m.req, allowed, decision),
             Dispatched(Answer(action', request'))
      PROVE  PeersInv'
  <2>1. m.req \in Requests
    BY <1>3, <1>7 DEF FromViewer, CloseReason
  <2>2. HostSays
    BY <1>2, <1>7, <2>1, LoginSays DEF PeersInv
  <2>3. Decided'
    BY <1>4, <1>7, LoginDecided DEF PeersInv
  <2>4. request' \in {request, Retained(m.req), NoRequest}
    BY <1>7, LoginRequestKept
  <2>5. Retained(m.req).my_id = m.req.my_id
    BY DEF Retained
  <2>6. viewerWire => /\ viewer.request # NoRequest
                      /\ m.req.my_id = viewer.request.my_id
    BY <1>3, <1>7 DEF PeersInv, Identified
  <2>7. Identified'
    BY <1>4, <1>6, <2>4, <2>5, <2>6 DEF PeersInv, Identified
  <2> QED
    BY <1>1, <1>3, <1>4, <1>5, <1>7, <2>2, <2>3, <2>7, DispatchStep
<1>8. ASSUME NEW allowed \in BOOLEAN, m.type = "Auth2fa", SecondFactor(allowed, m.result),
             Dispatched(Answer(action', request'))
      PROVE  PeersInv'
  <2>1. m.result \in FactorResult
    BY <1>3, <1>8 DEF FromViewer, CloseReason
  <2>2. HostSays
    BY <1>8, <2>1, SecondFactorSays
  <2>3. Decided'
    BY <1>4, <1>8, SecondFactorDecided DEF PeersInv
  <2>4. request' = request
    BY <1>8 DEF SecondFactor
  <2>5. Identified'
    BY <1>4, <1>6, <2>4 DEF PeersInv, Identified
  <2> QED
    BY <1>1, <1>3, <1>4, <1>5, <1>8, <2>2, <2>3, <2>5, DispatchStep
<1>9. CASE Close /\ hostWire' = FALSE /\ hostPermissions' = {} /\ UNCHANGED <<ready, outbox>>
  <2>1. outbox' = <<>>
    BY <1>1, <1>9 DEF HostReceives
  <2>2. \A i \in 1..Len(toHost') : \E j \in 1..Len(toHost) : toHost'[i] = toHost[j]
    BY <1>3
  <2> QED
    BY <1>1, <1>3, <1>9, <2>1, <2>2, HostClosedStep
<1> QED
  BY <1>7, <1>8, <1>9 DEF HostRecv

(* HostSession applies a decision it was notified of. *)
LEMMA HostPollsApprovalStep ==
    ASSUME PeersInv, AuthInv', HostPollsApproval
    PROVE  PeersInv'
<1>1. /\ HostReceives /\ notify' = "idle" /\ PollApproval(decision)
      /\ Dispatched(Answer(action', request'))
      /\ UNCHANGED <<viewerVars, toHost, toViewer, decision>>
  BY DEF HostPollsApproval
<1>2. viewer' = viewer /\ viewerWire' = viewerWire
  BY <1>1 DEF viewerVars
<1>3. HostSays
  BY <1>1, PollApprovalSays DEF PeersInv, PeersTypeOK
<1>4. Decided'
  <2>1. basis' \in {basis, ApprovalBasis(decision)}
    BY <1>1 DEF PollApproval
  <2> QED
    BY <1>1, <2>1, DecidedStep DEF PeersInv
<1>5. request' \in {request, NoRequest}
  BY <1>1, ConsultRequest DEF PollApproval
<1>6. Identified'
  BY <1>1, <1>2, <1>5 DEF PeersInv, Identified
<1>7. toHost' \in Seq(FromViewer) /\ notify' \in {"idle", "due", "permit"}
  BY <1>1 DEF PeersInv, PeersTypeOK
<1>8. UNCHANGED <<viewerVars, toViewer, decision>>
  BY <1>1
<1> QED
  BY <1>1, <1>3, <1>4, <1>6, <1>7, <1>8, DispatchStep

(* One write moves from the outbox to the wire: the stream is the same. *)
LEMMA StreamSent ==
    ASSUME NEW s \in Seq(FromHost), NEW q \in Seq(FromHost), q # <<>>
    PROVE  Append(s, Head(q)) \o Tail(q) = s \o q
<1> DEFINE h == Head(q)
           a == Append(s, h)
           u == Tail(q)
<1>1. /\ h \in FromHost /\ u \in Seq(FromHost) /\ Len(u) = Len(q) - 1 /\ h = q[1]
      /\ \A i \in 1..Len(u) : u[i] = q[i + 1]
  BY HeadTailProperties
<1>2. Len(q) \in Nat /\ Len(q) >= 1 /\ Len(s) \in Nat
  BY EmptySeq, LenProperties
<1> HIDE DEF h, u
<1>3. /\ a \in Seq(FromHost) /\ Len(a) = Len(s) + 1
      /\ \A i \in 1..Len(s) : a[i] = s[i]
      /\ a[Len(s) + 1] = h
  BY <1>1, AppendProperties
<1> HIDE DEF a
<1>4. /\ a \o u \in Seq(FromHost) /\ Len(a \o u) = Len(s) + Len(q)
      /\ \A i \in 1..Len(s) + Len(q) :
           (a \o u)[i] = IF i <= Len(s) + 1 THEN a[i] ELSE u[i - (Len(s) + 1)]
  <2>1. Len(a) + Len(u) = Len(s) + Len(q)
    BY <1>1, <1>2, <1>3
  <2>2. /\ a \o u \in Seq(FromHost) /\ Len(a \o u) = Len(a) + Len(u)
        /\ \A i \in 1..Len(a) + Len(u) :
             (a \o u)[i] = IF i <= Len(a) THEN a[i] ELSE u[i - Len(a)]
    BY <1>1, <1>3, ConcatProperties
  <2> QED
    BY <1>3, <2>1, <2>2
<1>5. /\ s \o q \in Seq(FromHost) /\ Len(s \o q) = Len(s) + Len(q)
      /\ \A i \in 1..Len(s) + Len(q) :
           (s \o q)[i] = IF i <= Len(s) THEN s[i] ELSE q[i - Len(s)]
  BY ConcatProperties
<1>6. ASSUME NEW i \in 1..Len(s) + Len(q) PROVE (a \o u)[i] = (s \o q)[i]
  <2>1. CASE i <= Len(s)
    <3>1. i \in 1..Len(s) /\ i <= Len(s) + 1
      BY <1>2, <2>1
    <3> QED
      BY <1>3, <1>4, <1>5, <2>1, <3>1
  <2>2. CASE i = Len(s) + 1
    <3>1. ~(i <= Len(s)) /\ i - Len(s) = 1 /\ i <= Len(s) + 1
      BY <1>2, <2>2
    <3>2. (a \o u)[i] = h
      BY <1>3, <1>4, <2>2, <3>1
    <3> QED
      BY <1>1, <1>5, <3>1, <3>2
  <2>3. CASE i > Len(s) + 1
    <3>1. /\ ~(i <= Len(s)) /\ ~(i <= Len(s) + 1)
          /\ i - (Len(s) + 1) \in 1..Len(u) /\ (i - (Len(s) + 1)) + 1 = i - Len(s)
      BY <1>1, <1>2, <2>3
    <3>2. (a \o u)[i] = u[i - (Len(s) + 1)]
      BY <1>4, <3>1
    <3>3. u[i - (Len(s) + 1)] = q[i - Len(s)]
      BY <1>1, <3>1
    <3> QED
      BY <1>5, <3>1, <3>2, <3>3
  <2>4. i <= Len(s) \/ i = Len(s) + 1 \/ i > Len(s) + 1
    BY <1>2
  <2> QED
    BY <2>1, <2>2, <2>3, <2>4
<1>7. a \o u = s \o q
  BY <1>4, <1>5, <1>6, SeqEqual
<1> QED
  BY <1>7 DEF a, h, u

LEMMA HostSendsStep ==
    ASSUME PeersInv, AuthInv', HostSends
    PROVE  PeersInv'
<1>1. /\ outbox # <<>> /\ outbox' = Tail(outbox)
      /\ toViewer' = Append(toViewer, Head(outbox))
      /\ hostPermissions' =
           IF Head(outbox) = PeerInfo THEN action.permissions ELSE hostPermissions
      /\ ready' = (ready \/ (Tail(outbox) = <<>> /\ state = "Authorized"))
      /\ hostWire' = (Tail(outbox) # <<>> \/ state # "Closed")
  BY DEF HostSends
<1>2. /\ config' = config /\ state' = state /\ request' = request /\ grant' = grant
      /\ action' = action /\ basis' = basis
      /\ viewer' = viewer /\ viewerWire' = viewerWire /\ sends' = sends
      /\ toHost' = toHost /\ decision' = decision /\ notify' = notify
  BY DEF HostSends, authVars, viewerVars, userVars
<1>3. outbox \in Seq(FromHost) /\ toViewer \in Seq(FromHost)
  BY DEF PeersInv, PeersTypeOK
<1>4. /\ Head(outbox) \in FromHost /\ Head(outbox) = outbox[1] /\ 1 \in 1..Len(outbox)
      /\ Tail(outbox) \in Seq(FromHost)
      /\ \A i \in 1..Len(Tail(outbox)) :
           i + 1 \in 1..Len(outbox) /\ Tail(outbox)[i] = outbox[i + 1]
  BY <1>1, <1>3, RestOfQueue
<1>5. toViewer' \in Seq(FromHost)
  BY <1>1, <1>3, <1>4, AppendProperties
<1>6. Head(outbox) = PeerInfo <=> outbox[1].type = "PeerInfo"
  BY <1>4, HostRecords
<1>7. \A i \in 1..Len(outbox') : outbox'[i].type # "PeerInfo"
  <2> SUFFICES ASSUME NEW i \in 1..Len(outbox') PROVE outbox'[i].type # "PeerInfo"
    OBVIOUS
  <2>1. Len(outbox) \in Nat /\ Len(outbox') \in Nat
    BY <1>1, <1>3, <1>4, LenProperties
  <2>2. i + 1 \in 2..Len(outbox) /\ outbox'[i] = outbox[i + 1]
    BY <1>1, <1>4, <2>1
  <2> QED
    BY <2>2 DEF PeersInv, Published
<1>8. /\ state = "Authorized" => hostPermissions' = grant
      /\ state # "Authorized" => hostPermissions' = {} /\ ready' = ready
  <2>1. CASE state = "Authorized"
    BY <1>1, <1>6, <2>1 DEF PeersInv, Published
  <2>2. CASE state # "Authorized"
    <3>1. outbox[1].type # "PeerInfo" /\ hostPermissions = {}
      BY <1>4, <2>2 DEF PeersInv, Published
    <3>2. ready' = ready
      BY <1>1, <2>2 DEF PeersInv, PeersTypeOK
    <3> QED
      BY <1>1, <1>6, <2>2, <3>1, <3>2
  <2> QED
    BY <2>1, <2>2
<1>9. PeersTypeOK'
  <2>1. AuthTypeOK'
    BY DEF AuthInv
  <2>2. hostWire' \in BOOLEAN /\ ready' \in BOOLEAN
    BY <1>1
  <2>3. hostPermissions' \in Permissions
    BY <1>8 DEF PeersInv, PeersTypeOK, AuthTypeOK, Permissions
  <2> QED
    BY <1>1, <1>2, <1>4, <1>5, <2>1, <2>2, <2>3 DEF PeersInv, PeersTypeOK
<1>10. (~viewerWire => viewer = ViewerClosed)'
  BY <1>2 DEF PeersInv, ViewerClosed
<1>11. (state = "Closed" /\ hostWire => outbox # <<>>)'
  BY <1>1, <1>2
<1>12. Decided' /\ Identified'
  BY <1>2 DEF PeersInv, Decided, Identified
<1>13. Published'
  <2>1. \A i \in 2..Len(outbox') : i \in 1..Len(outbox')
    <3>1. Len(outbox') \in Nat
      BY <1>1, <1>4, LenProperties
    <3> QED
      BY <3>1
  <2>2. outbox' # <<>> => 1 \in 1..Len(outbox')
    <3>1. Len(outbox') \in Nat /\ (outbox' # <<>> => Len(outbox') # 0)
      BY <1>1, <1>4, EmptySeq
    <3> QED
      BY <3>1
  <2>3. ready' => state \in {"Authorized", "Closed"}
    BY <1>1, <1>8 DEF PeersInv, Published
  <2>4. ~(outbox' # <<>> /\ outbox'[1].type = "PeerInfo")
    BY <1>7, <2>2
  <2> QED
    BY <1>2, <1>7, <1>8, <2>1, <2>3, <2>4 DEF Published
<1>14. Told'
  <2>1. toViewer' \o outbox' = toViewer \o outbox
    BY <1>1, <1>3, StreamSent
  <2> QED
    BY <1>2, <2>1 DEF PeersInv, Told
<1> QED
  BY <1>9, <1>10, <1>11, <1>12, <1>13, <1>14 DEF PeersInv

LEMMA HostTerminatesStep ==
    ASSUME PeersInv, AuthInv', HostTerminates
    PROVE  PeersInv'
<1>1. /\ Close /\ hostWire' = FALSE /\ hostPermissions' = {} /\ outbox' = <<>>
      /\ ready' = ready /\ toHost' = toHost
      /\ UNCHANGED <<viewerVars, toViewer, userVars>>
  BY DEF HostTerminates
<1>2. toHost' \in Seq(FromViewer)
  BY <1>1 DEF PeersInv, PeersTypeOK
<1>3. \A i \in 1..Len(toHost') : \E j \in 1..Len(toHost) : toHost'[i] = toHost[j]
  BY <1>1
<1> QED
  BY <1>1, <1>2, <1>3, HostClosedStep

LEMMA HostClosesStep ==
    ASSUME PeersInv, AuthInv', HostCloses
    PROVE  PeersInv'
<1>1. /\ Close /\ hostWire' = hostWire /\ hostPermissions' = {}
      /\ outbox' = <<CloseReason>>
      /\ ready' = ready /\ toHost' = toHost
      /\ UNCHANGED <<viewerVars, toViewer, userVars>>
  BY DEF HostCloses
<1>2. toHost' \in Seq(FromViewer) /\ hostWire' \in BOOLEAN
  BY <1>1 DEF PeersInv, PeersTypeOK
<1>3. \A i \in 1..Len(toHost') : \E j \in 1..Len(toHost) : toHost'[i] = toHost[j]
  BY <1>1
<1> QED
  BY <1>1, <1>2, <1>3, HostClosedStep

(* The approval provider decides once, and only then notifies. *)
LEMMA UserStep ==
    ASSUME PeersInv, UserNext
    PROVE  PeersInv'
<1>1. UNCHANGED <<authVars, hostVars, viewerVars, toHost, toViewer>>
  BY DEF UserNext, UserDecides, UserNotifies
<1>2. /\ config' = config /\ state' = state /\ request' = request /\ grant' = grant
      /\ action' = action /\ basis' = basis
      /\ hostWire' = hostWire /\ hostPermissions' = hostPermissions
      /\ ready' = ready /\ outbox' = outbox
      /\ viewer' = viewer /\ viewerWire' = viewerWire /\ sends' = sends
      /\ toHost' = toHost /\ toViewer' = toViewer
  BY <1>1 DEF authVars, hostVars, viewerVars
<1>3. notify' \in {"idle", "due", "permit"}
  BY DEF UserNext, UserDecides, UserNotifies
<1>4. decision' \in Approval /\ (decision.kind # "Pending" => decision' = decision)
  <2>1. CASE UserDecides
    BY <2>1, OffersAssumption DEF UserDecides, Approval
  <2>2. CASE UserNotifies
    BY <2>2 DEF UserNotifies, PeersInv, PeersTypeOK
  <2> QED
    BY <2>1, <2>2 DEF UserNext
<1>5. PeersTypeOK'
  BY <1>2, <1>3, <1>4 DEF PeersInv, PeersTypeOK, AuthTypeOK
<1>6. AuthInv'
  BY <1>2 DEF PeersInv, AuthInv, AuthTypeOK, PrimaryDone
<1>7. (~viewerWire => viewer = ViewerClosed)'
  BY <1>2 DEF PeersInv, ViewerClosed
<1>8. (state = "Closed" /\ hostWire => outbox # <<>>)'
  BY <1>2 DEF PeersInv
<1>9. Decided'
  BY <1>2, <1>4 DEF PeersInv, Decided
<1>10. Identified' /\ Published' /\ Told'
  BY <1>2 DEF PeersInv, Identified, Published, Told
<1> QED
  BY <1>5, <1>6, <1>7, <1>8, <1>9, <1>10 DEF PeersInv

(* What only the viewer does leaves the host as it is. *)
HostStays ==
    /\ UNCHANGED <<authVars, hostVars, userVars>>

(* The viewer's session has ended. *)
LEMMA ViewerEnded ==
    ASSUME PeersInv, HostStays, viewer' = ViewerClosed, viewerWire' = FALSE,
           sends' = sends, toHost' \in Seq(FromViewer), toViewer' \in Seq(FromHost)
    PROVE  PeersInv'
<1>1. /\ config' = config /\ state' = state /\ request' = request /\ grant' = grant
      /\ action' = action /\ basis' = basis
      /\ hostWire' = hostWire /\ hostPermissions' = hostPermissions
      /\ ready' = ready /\ outbox' = outbox
      /\ decision' = decision /\ notify' = notify
  BY DEF HostStays, authVars, hostVars, userVars
<1>2. ViewerClosed \in [state : ViewerState, request : Claims \cup {NoRequest},
                        target : {"none", "target"}, permissions : Permissions]
  BY DEF ViewerClosed, ViewerState, Permissions
<1>3. PeersTypeOK'
  BY <1>1, <1>2 DEF PeersInv, PeersTypeOK, AuthTypeOK
<1>4. AuthInv'
  BY <1>1 DEF PeersInv, AuthInv, AuthTypeOK, PrimaryDone
<1>5. (~viewerWire => viewer = ViewerClosed)'
  BY DEF ViewerClosed
<1>6. (state = "Closed" /\ hostWire => outbox # <<>>)'
  BY <1>1 DEF PeersInv
<1>7. Decided' /\ Published'
  BY <1>1 DEF PeersInv, Decided, Published
<1>8. Identified' /\ Told'
  BY DEF Identified, Told
<1> QED
  BY <1>3, <1>4, <1>5, <1>6, <1>7, <1>8 DEF PeersInv

(* The viewer goes on: the identity and the stream are what to check. *)
LEMMA ViewerWent ==
    ASSUME PeersInv, HostStays, viewerWire, viewerWire' = viewerWire,
           viewer' \in [state : ViewerState, request : Claims \cup {NoRequest},
                        target : {"none", "target"}, permissions : Permissions],
           sends' \in 0..MaxSends,
           toHost' \in Seq(FromViewer), toViewer' \in Seq(FromHost),
           Identified', Told'
    PROVE  PeersInv'
<1>1. /\ config' = config /\ state' = state /\ request' = request /\ grant' = grant
      /\ action' = action /\ basis' = basis
      /\ hostWire' = hostWire /\ hostPermissions' = hostPermissions
      /\ ready' = ready /\ outbox' = outbox
      /\ decision' = decision /\ notify' = notify
  BY DEF HostStays, authVars, hostVars, userVars
<1>2. PeersTypeOK'
  BY <1>1 DEF PeersInv, PeersTypeOK, AuthTypeOK
<1>3. AuthInv'
  BY <1>1 DEF PeersInv, AuthInv, AuthTypeOK, PrimaryDone
<1>4. (~viewerWire => viewer = ViewerClosed)'
  OBVIOUS
<1>5. (state = "Closed" /\ hostWire => outbox # <<>>)'
  BY <1>1 DEF PeersInv
<1>6. Decided' /\ Published'
  BY <1>1 DEF PeersInv, Decided, Published
<1> QED
  BY <1>2, <1>3, <1>4, <1>5, <1>6 DEF PeersInv

(* A record more on its way to the host. *)
LEMMA SentToHost ==
    ASSUME toHost \in Seq(FromViewer), NEW m \in FromViewer,
           toHost' = Append(toHost, m)
    PROVE  /\ toHost' \in Seq(FromViewer)
           /\ \A i \in 1..Len(toHost') :
                \/ i \in 1..Len(toHost) /\ toHost'[i] = toHost[i]
                \/ toHost'[i] = m
<1>1. /\ toHost' \in Seq(FromViewer) /\ Len(toHost') = Len(toHost) + 1
      /\ \A i \in 1..Len(toHost) : toHost'[i] = toHost[i]
      /\ toHost'[Len(toHost) + 1] = m
  BY AppendProperties
<1>2. Len(toHost) \in Nat
  BY LenProperties
<1>3. \A i \in 1..Len(toHost) + 1 : i \in 1..Len(toHost) \/ i = Len(toHost) + 1
  BY <1>2
<1> QED
  BY <1>1, <1>3

LEMMA ViewerLoginStep ==
    ASSUME PeersInv, ViewerLogin
    PROVE  PeersInv'
<1>1. /\ viewer.state \in {"AwaitLogin", "AwaitApproval", "Await2Fa"}
      /\ sends < MaxSends /\ sends' = sends + 1
      /\ HostStays /\ viewerWire' = viewerWire /\ toViewer' = toViewer
  BY DEF ViewerLogin, HostStays
<1>2. PICK req \in Requests :
         /\ viewer.request # NoRequest =>
              viewer.request.my_id = req.my_id /\ viewer.target = req.fault
         /\ toHost' = Append(toHost, [type |-> "Login", req |-> req])
         /\ viewer' = [viewer EXCEPT !.request = Retained(req),
                                     !.target = req.fault, !.state = "AwaitLogin"]
  BY DEF ViewerLogin
<1>3. viewerWire
  BY <1>1 DEF PeersInv, PeersTypeOK, ViewerClosed
<1>4. /\ toHost \in Seq(FromViewer) /\ toViewer \in Seq(FromHost) /\ outbox \in Seq(FromHost)
      /\ viewer \in [state : ViewerState, request : Claims \cup {NoRequest},
                     target : {"none", "target"}, permissions : Permissions]
      /\ sends \in 0..MaxSends
  BY DEF PeersInv, PeersTypeOK
<1>5. Retained(req) \in Claims /\ Retained(req) # NoRequest /\ req.fault \in {"none", "target"}
  BY RetainedType, RequestsAssumption
<1>6. Retained(req).my_id = req.my_id
  BY DEF Retained
<1>7. /\ viewer'.state = "AwaitLogin" /\ viewer'.request = Retained(req)
      /\ viewer'.permissions = viewer.permissions
      /\ viewer' \in [state : ViewerState, request : Claims \cup {NoRequest},
                      target : {"none", "target"}, permissions : Permissions]
  <2>1. viewer' = [state |-> "AwaitLogin", request |-> Retained(req),
                   target |-> req.fault, permissions |-> viewer.permissions]
    BY <1>2, <1>4
  <2>2. viewer.permissions \in Permissions
    BY <1>4
  <2> QED
    BY <1>5, <2>1, <2>2 DEF ViewerState
<1> DEFINE m == [type |-> "Login", req |-> req]
<1>8. m \in FromViewer /\ m.type = "Login" /\ m.req = req
  BY DEF FromViewer
<1> HIDE DEF m
<1>9. toHost' = Append(toHost, m)
  BY <1>2 DEF m
<1>10. /\ toHost' \in Seq(FromViewer)
       /\ \A i \in 1..Len(toHost') :
            \/ i \in 1..Len(toHost) /\ toHost'[i] = toHost[i]
            \/ toHost'[i] = m
  BY <1>4, <1>8, <1>9, SentToHost
<1>11. request' = request /\ state' = state /\ grant' = grant /\ outbox' = outbox
  BY <1>1 DEF HostStays, authVars, hostVars
<1>12. Identified'
  <2>1. ASSUME NEW i \in 1..Len(toHost'), toHost'[i].type = "Login"
        PROVE  toHost'[i].req.my_id = req.my_id
    <3>1. CASE toHost'[i] = m
      BY <1>8, <3>1
    <3>2. CASE i \in 1..Len(toHost) /\ toHost'[i] = toHost[i]
      BY <1>2, <1>3, <2>1, <3>2 DEF PeersInv, Identified
    <3> QED
      BY <1>10, <3>1, <3>2
  <2>2. request # NoRequest => request.my_id = req.my_id
    BY <1>2, <1>3 DEF PeersInv, Identified
  <2> QED
    BY <1>5, <1>6, <1>7, <1>11, <2>1, <2>2 DEF Identified
<1>13. Told'
  <2> SUFFICES ASSUME state # "Closed"
               PROVE  /\ LastWord(toViewer \o outbox, viewer', state)
                      /\ Final(toViewer \o outbox, viewer', state)
                      /\ Reported(toViewer \o outbox, viewer', state, grant)
    BY <1>1, <1>11 DEF Told
  <2>1. toViewer \o outbox \in Seq(FromHost)
    BY <1>4, ConcatProperties
  <2>2. /\ LastWord(toViewer \o outbox, viewer, state)
        /\ Final(toViewer \o outbox, viewer, state)
        /\ Reported(toViewer \o outbox, viewer, state, grant)
    BY <1>3 DEF PeersInv, Told
  <2>3. viewer.state # "Active"
    BY <1>1
  <2> QED
    BY <1>7, <2>1, <2>2, <2>3, RetrySuits
<1>14. sends' \in 0..MaxSends
  BY <1>1, <1>4, MaxSendsAssumption
<1>15. toViewer' \in Seq(FromHost)
  BY <1>1, <1>4
<1> QED
  BY <1>1, <1>3, <1>7, <1>10, <1>12, <1>13, <1>14, <1>15, ViewerWent

LEMMA ViewerSecondFactorStep ==
    ASSUME PeersInv, ViewerSecondFactor
    PROVE  PeersInv'
<1>1. /\ viewer.state = "Await2Fa" /\ sends < MaxSends /\ sends' = sends + 1
      /\ HostStays /\ viewer' = viewer /\ viewerWire' = viewerWire /\ toViewer' = toViewer
  BY DEF ViewerSecondFactor, HostStays
<1>2. PICK result \in FactorResult :
        toHost' = Append(toHost, [type |-> "Auth2fa", result |-> result])
  BY DEF ViewerSecondFactor
<1>3. viewerWire
  BY <1>1 DEF PeersInv, PeersTypeOK, ViewerClosed
<1>4. /\ toHost \in Seq(FromViewer) /\ toViewer \in Seq(FromHost)
      /\ viewer \in [state : ViewerState, request : Claims \cup {NoRequest},
                     target : {"none", "target"}, permissions : Permissions]
      /\ sends \in 0..MaxSends
  BY DEF PeersInv, PeersTypeOK
<1> DEFINE m == [type |-> "Auth2fa", result |-> result]
<1>5. m \in FromViewer /\ m.type # "Login"
  BY DEF FromViewer
<1> HIDE DEF m
<1>6. toHost' = Append(toHost, m)
  BY <1>2 DEF m
<1>7. /\ toHost' \in Seq(FromViewer)
      /\ \A i \in 1..Len(toHost') :
           \/ i \in 1..Len(toHost) /\ toHost'[i] = toHost[i]
           \/ toHost'[i] = m
  BY <1>4, <1>5, <1>6, SentToHost
<1>8. request' = request /\ state' = state /\ grant' = grant /\ outbox' = outbox
  BY <1>1 DEF HostStays, authVars, hostVars
<1>9. Identified'
  BY <1>1, <1>3, <1>5, <1>7, <1>8 DEF PeersInv, Identified
<1>10. Told'
  BY <1>1, <1>8 DEF PeersInv, Told
<1>11. sends' \in 0..MaxSends
  BY <1>1, <1>4, MaxSendsAssumption
<1>12. /\ toViewer' \in Seq(FromHost)
       /\ viewer' \in [state : ViewerState, request : Claims \cup {NoRequest},
                       target : {"none", "target"}, permissions : Permissions]
  BY <1>1, <1>4
<1> QED
  BY <1>1, <1>3, <1>7, <1>9, <1>10, <1>11, <1>12, ViewerWent

(* What the viewer accepts, as the lemmas about the stream see it. *)
LEMMA AcceptedIsTaken ==
    ASSUME NEW m \in FromHost, ViewerAccepts(m),
           viewer \in [state : ViewerState, request : Claims \cup {NoRequest},
                       target : {"none", "target"}, permissions : Permissions]
    PROVE  /\ Takes(m, viewer, viewer')
           /\ viewer'.request = viewer.request
           /\ viewer' \in [state : ViewerState, request : Claims \cup {NoRequest},
                           target : {"none", "target"}, permissions : Permissions]
<1> DEFINE V == [state : ViewerState, request : Claims \cup {NoRequest},
                 target : {"none", "target"}, permissions : Permissions]
<1>1. ASSUME NEW told \in ViewerState
      PROVE  /\ [viewer EXCEPT !.state = told] \in V
             /\ [viewer EXCEPT !.state = told].state = told
             /\ [viewer EXCEPT !.state = told].request = viewer.request
             /\ [viewer EXCEPT !.state = told].permissions = viewer.permissions
  OBVIOUS
<1>2. ASSUME NEW p \in Permissions
      PROVE  /\ [viewer EXCEPT !.permissions = p] \in V
             /\ [viewer EXCEPT !.permissions = p].state = viewer.state
             /\ [viewer EXCEPT !.permissions = p].request = viewer.request
             /\ [viewer EXCEPT !.permissions = p].permissions = p
  OBVIOUS
<1>3. CASE /\ m = Hash /\ viewer.state = "AwaitHash"
           /\ viewer' = [viewer EXCEPT !.state = "AwaitLogin"]
  <2>1. "AwaitLogin" \in ViewerState /\ m.type = "Hash"
    BY <1>3, HostRecords DEF ViewerState
  <2> QED
    BY <1>1, <1>3, <2>1 DEF Takes
<1>4. CASE /\ m.type = "LoginError" /\ viewer.state # "Active"
           /\ viewer' = [viewer EXCEPT !.state = StateAfterError(m.error)]
  <2>1. StateAfterError(m.error) \in ViewerState
    BY ErrorIsNoSuccess DEF ViewerState
  <2>2. Decides(m) /\ Effect(m) = StateAfterError(m.error)
    BY <1>4 DEF Decides, Effect
  <2> QED
    BY <1>1, <1>4, <2>1, <2>2 DEF Takes
<1>5. CASE /\ m = PeerInfo /\ viewer.state # "Active"
           /\ viewer' = [viewer EXCEPT !.state = "Active"]
  <2>1. "Active" \in ViewerState
    BY DEF ViewerState
  <2>2. Decides(m) /\ Effect(m) = "Active"
    BY <1>5, HostRecords DEF Decides, Effect
  <2> QED
    BY <1>1, <1>5, <2>1, <2>2 DEF Takes
<1>6. CASE /\ m.type = "Permission"
           /\ viewer' = [viewer EXCEPT !.permissions = Recorded(viewer.permissions, m)]
  <2>1. m.feature \in Features
    BY <1>6 DEF FromHost, Hash, PeerInfo, CloseReason
  <2>2. Recorded(viewer.permissions, m) \in Permissions
    BY <2>1 DEF Recorded, Permissions
  <2> QED
    BY <1>2, <1>6, <2>2 DEF Takes
<1>7. CASE /\ viewer.state = "Active" /\ m.type \in {"Hash", "LoginError", "PeerInfo"}
           /\ viewer' = viewer
  BY <1>7 DEF Takes
<1> QED
  BY <1>3, <1>4, <1>5, <1>6, <1>7 DEF ViewerAccepts

(* What is read from the wire is read from the stream. *)
LEMMA StreamRead ==
    ASSUME NEW s \in Seq(FromHost), NEW q \in Seq(FromHost), s # <<>>
    PROVE  /\ s \o q \in Seq(FromHost) /\ s \o q # <<>> /\ (s \o q)[1] = s[1]
           /\ Tail(s \o q) = Tail(s) \o q
<1> DEFINE c == s \o q
           t == Tail(s)
<1>1. Len(s) \in Nat /\ Len(s) >= 1 /\ Len(q) \in Nat
  BY EmptySeq, LenProperties
<1>2. /\ c \in Seq(FromHost) /\ Len(c) = Len(s) + Len(q)
      /\ \A i \in 1..Len(s) + Len(q) : c[i] = IF i <= Len(s) THEN s[i] ELSE q[i - Len(s)]
  BY ConcatProperties
<1>3. /\ t \in Seq(FromHost) /\ Len(t) = Len(s) - 1
      /\ \A i \in 1..Len(t) : t[i] = s[i + 1]
  BY HeadTailProperties
<1> HIDE DEF c, t
<1>4. c # <<>> /\ c[1] = s[1]
  <2>1. Len(c) # 0 /\ 1 \in 1..Len(s) + Len(q) /\ 1 <= Len(s)
    BY <1>1, <1>2
  <2>2. c # <<>>
    BY <2>1
  <2> QED
    BY <1>2, <2>1, <2>2
<1>5. /\ Tail(c) \in Seq(FromHost) /\ Len(Tail(c)) = Len(s) + Len(q) - 1
      /\ \A i \in 1..Len(s) + Len(q) - 1 : Tail(c)[i] = c[i + 1]
  BY <1>2, <1>4, HeadTailProperties
<1>6. /\ t \o q \in Seq(FromHost) /\ Len(t \o q) = Len(t) + Len(q)
      /\ \A i \in 1..Len(t) + Len(q) : (t \o q)[i] = IF i <= Len(t) THEN t[i] ELSE q[i - Len(t)]
  BY <1>3, ConcatProperties
<1>7. ASSUME NEW i \in 1..Len(s) + Len(q) - 1 PROVE Tail(c)[i] = (t \o q)[i]
  <2>1. i + 1 \in 1..Len(s) + Len(q) /\ i \in 1..Len(t) + Len(q)
    BY <1>1, <1>3
  <2>2. Tail(c)[i] = c[i + 1]
    BY <1>5
  <2>3. CASE i <= Len(t)
    <3>1. i + 1 <= Len(s) /\ i \in 1..Len(t)
      BY <1>1, <1>3, <2>3
    <3> QED
      BY <1>2, <1>3, <1>6, <2>1, <2>2, <2>3, <3>1
  <2>4. CASE ~(i <= Len(t))
    <3>1. ~(i + 1 <= Len(s)) /\ (i + 1) - Len(s) = i - Len(t)
      BY <1>1, <1>3, <2>4
    <3>2. c[i + 1] = q[i - Len(t)]
      BY <1>2, <2>1, <3>1
    <3>3. (t \o q)[i] = q[i - Len(t)]
      BY <1>6, <2>1, <2>4
    <3> QED
      BY <2>2, <3>2, <3>3
  <2> QED
    BY <2>3, <2>4
<1>8. Len(t \o q) = Len(s) + Len(q) - 1
  BY <1>1, <1>3, <1>6
<1>9. Tail(c) = t \o q
  BY <1>5, <1>6, <1>7, <1>8, SeqEqual
<1> QED
  BY <1>2, <1>4, <1>9 DEF c, t

LEMMA ViewerRecvStep ==
    ASSUME PeersInv, ViewerRecv
    PROVE  PeersInv'
<1>1. viewerWire /\ toViewer # <<>> /\ toViewer' = Tail(toViewer)
  BY DEF ViewerRecv
<1>2. /\ toHost \in Seq(FromViewer) /\ toViewer \in Seq(FromHost) /\ outbox \in Seq(FromHost)
      /\ viewer \in [state : ViewerState, request : Claims \cup {NoRequest},
                     target : {"none", "target"}, permissions : Permissions]
      /\ sends \in 0..MaxSends
  BY DEF PeersInv, PeersTypeOK
<1>3. Head(toViewer) \in FromHost /\ Head(toViewer) = toViewer[1] /\ toViewer' \in Seq(FromHost)
  BY <1>1, <1>2, RestOfQueue
<1>4. CASE /\ ViewerAccepts(Head(toViewer))
           /\ UNCHANGED <<authVars, hostVars, userVars, viewerWire, toHost, sends>>
  <2>1. HostStays /\ viewerWire' = viewerWire /\ toHost' = toHost /\ sends' = sends
    BY <1>4 DEF HostStays
  <2>2. /\ Takes(Head(toViewer), viewer, viewer')
        /\ viewer'.request = viewer.request
        /\ viewer' \in [state : ViewerState, request : Claims \cup {NoRequest},
                        target : {"none", "target"}, permissions : Permissions]
    BY <1>2, <1>3, <1>4, AcceptedIsTaken
  <2>3. request' = request /\ state' = state /\ grant' = grant /\ outbox' = outbox
    BY <2>1 DEF HostStays, authVars, hostVars
  <2>4. Identified'
    BY <1>1, <2>1, <2>2, <2>3 DEF PeersInv, Identified
  <2> DEFINE s == toViewer \o outbox
  <2>5. /\ s \in Seq(FromHost) /\ s # <<>> /\ s[1] = toViewer[1]
        /\ Tail(s) = Tail(toViewer) \o outbox
    BY <1>1, <1>2, StreamRead
  <2> HIDE DEF s
  <2>6. Told'
    <3> SUFFICES ASSUME state # "Closed"
                 PROVE  /\ LastWord(Tail(s), viewer', state)
                        /\ Final(Tail(s), viewer', state)
                        /\ Reported(Tail(s), viewer', state, grant)
      BY <1>1, <2>3, <2>5 DEF Told
    <3>1. LastWord(s, viewer, state) /\ Final(s, viewer, state)
          /\ Reported(s, viewer, state, grant)
      BY <1>1 DEF PeersInv, Told, s
    <3>2. Takes(s[1], viewer, viewer')
      BY <1>3, <2>2, <2>5
    <3> QED
      BY <2>5, <3>1, <3>2, LastWordTaken, FinalTaken, ReportedTaken
  <2> QED
    BY <1>1, <1>2, <1>3, <2>1, <2>2, <2>4, <2>6, ViewerWent
<1>5. CASE ViewerTerminates
  <2>1. /\ HostStays /\ viewer' = ViewerClosed /\ viewerWire' = FALSE
        /\ sends' = sends /\ toHost' = toHost
    BY <1>5 DEF ViewerTerminates, HostStays
  <2> QED
    BY <1>2, <1>3, <2>1, ViewerEnded
<1> QED
  BY <1>4, <1>5 DEF ViewerRecv

LEMMA ViewerEndsStep ==
    ASSUME PeersInv, ViewerLosesWire \/ ViewerCloses
    PROVE  PeersInv'
<1>1. toHost \in Seq(FromViewer) /\ toViewer \in Seq(FromHost)
  BY DEF PeersInv, PeersTypeOK
<1>2. /\ HostStays /\ viewer' = ViewerClosed /\ viewerWire' = FALSE
      /\ sends' = sends /\ toViewer' = toViewer
      /\ toHost' = toHost \/ toHost' = Append(toHost, CloseReason)
  BY DEF ViewerLosesWire, ViewerTerminates, ViewerCloses, HostStays
<1>3. CloseReason \in FromViewer
  BY DEF FromViewer
<1>4. toHost' \in Seq(FromViewer)
  BY <1>1, <1>2, <1>3, AppendProperties
<1> QED
  BY <1>1, <1>2, <1>4, ViewerEnded

(* The invariant of the two peers is inductive. *)
LEMMA PeersInvInductive == PeersInv /\ [PeersNext]_peerVars => PeersInv'
<1> SUFFICES ASSUME PeersInv, [PeersNext]_peerVars PROVE PeersInv'
  OBVIOUS
<1>1. AuthInv'
  BY PeersStepIsAuthStep, AuthInvInductive DEF PeersInv
<1>2. CASE HostRecv
  BY <1>1, <1>2, HostRecvStep
<1>3. CASE HostPollsApproval
  BY <1>1, <1>3, HostPollsApprovalStep
<1>4. CASE HostSends
  BY <1>1, <1>4, HostSendsStep
<1>5. CASE HostSendFails \/ HostDeadline \/ HostSeesEnd
  BY <1>1, <1>5, HostTerminatesStep DEF HostSendFails, HostDeadline, HostSeesEnd
<1>6. CASE HostCloses
  BY <1>1, <1>6, HostClosesStep
<1>7. CASE UserNext
  BY <1>7, UserStep
<1>8. CASE ViewerLogin
  BY <1>8, ViewerLoginStep
<1>9. CASE ViewerSecondFactor
  BY <1>9, ViewerSecondFactorStep
<1>10. CASE ViewerRecv
  BY <1>10, ViewerRecvStep
<1>11. CASE ViewerLosesWire \/ ViewerCloses
  BY <1>11, ViewerEndsStep
<1>12. CASE UNCHANGED peerVars
  <2>1. /\ config' = config /\ state' = state /\ request' = request /\ grant' = grant
        /\ action' = action /\ basis' = basis
        /\ hostWire' = hostWire /\ hostPermissions' = hostPermissions
        /\ ready' = ready /\ outbox' = outbox
        /\ viewer' = viewer /\ viewerWire' = viewerWire /\ sends' = sends
        /\ toHost' = toHost /\ toViewer' = toViewer
        /\ decision' = decision /\ notify' = notify
    BY <1>12 DEF peerVars, authVars, hostVars, viewerVars, userVars
  <2>2. PeersTypeOK'
    BY <2>1 DEF PeersInv, PeersTypeOK, AuthTypeOK
  <2>3. (~viewerWire => viewer = ViewerClosed)' /\ (state = "Closed" /\ hostWire => outbox # <<>>)'
    BY <2>1 DEF PeersInv, ViewerClosed
  <2> QED
    BY <1>1, <2>1, <2>2, <2>3 DEF PeersInv, Decided, Identified, Published, Told
<1> QED
  BY <1>2, <1>3, <1>4, <1>5, <1>6, <1>7, <1>8, <1>9, <1>10, <1>11, <1>12
     DEF PeersNext, HostNext, ViewerNext

(* A session starts with the Hash in flight and nothing decided. *)
LEMMA PeersInvInit == PeersInit => PeersInv
<1> SUFFICES ASSUME PeersInit PROVE PeersInv
  OBVIOUS
<1>1. AuthInv
  BY AuthInvInit DEF PeersInit
<1>2. /\ hostWire = TRUE /\ hostPermissions = {} /\ ready = FALSE /\ outbox = <<>>
      /\ viewer = [state |-> "AwaitHash", request |-> NoRequest, target |-> "none",
                   permissions |-> Features]
      /\ viewerWire = TRUE /\ toHost = <<>> /\ toViewer = <<Hash>>
      /\ decision = [kind |-> "Pending", grant |-> {}]
      /\ notify = "idle" /\ sends = 0
      /\ state = "AwaitLogin" /\ request = NoRequest /\ basis = NoBasis
  BY DEF PeersInit, AuthInit
<1>3. Hash \in FromHost /\ Hash.type = "Hash"
  BY HostRecords
<1>4. toViewer \in Seq(FromHost) /\ Len(toViewer) = 1 /\ toViewer[1] = Hash
  BY <1>2, <1>3
<1>5. outbox \in Seq(FromHost) /\ Len(outbox) = 0 /\ toHost \in Seq(FromViewer) /\ Len(toHost) = 0
  BY <1>2
<1>6. PeersTypeOK
  <2>1. decision \in Approval
    BY <1>2 DEF Approval
  <2>2. viewer \in [state : ViewerState, request : Claims \cup {NoRequest},
                    target : {"none", "target"}, permissions : Permissions]
    BY <1>2 DEF ViewerState, Permissions
  <2>3. hostPermissions \in Permissions
    BY <1>2 DEF Permissions
  <2>4. sends \in 0..MaxSends
    BY <1>2, MaxSendsAssumption
  <2> QED
    BY <1>1, <1>2, <1>4, <1>5, <2>1, <2>2, <2>3, <2>4 DEF PeersTypeOK, AuthInv
<1>7. Decided
  BY <1>2 DEF Decided, NoBasis
<1>8. \A i \in 1..0 : FALSE
  OBVIOUS
<1>9. \A i \in 2..0 : FALSE
  OBVIOUS
<1>10. Identified
  BY <1>2, <1>5, <1>8 DEF Identified
<1>11. Published
  BY <1>2, <1>5, <1>8, <1>9 DEF Published
<1>12. Told
  <2>1. toViewer \o outbox = toViewer
    BY <1>2, <1>4, ConcatEmptySeq
  <2>2. \A i \in 1..Len(toViewer) : toViewer[i].type = "Hash"
    <3>1. \A i \in 1..1 : i = 1
      OBVIOUS
    <3> QED
      BY <1>3, <1>4, <3>1
  <2>3. \A i \in 1..Len(toViewer) : ~Decides(toViewer[i])
    BY <2>2 DEF Decides
  <2>4. viewer.state = "AwaitHash"
    BY <1>2
  <2>5. Suits(viewer.state, state)
    BY <1>2, <2>4 DEF Suits
  <2>6. LastWord(toViewer, viewer, state)
    BY <2>3, <2>5 DEF LastWord
  <2>7. Final(toViewer, viewer, state)
    BY <2>2, <2>3, <2>4 DEF Final
  <2>8. Reported(toViewer, viewer, state, grant)
    BY <1>2, <2>2 DEF Reported
  <2> QED
    BY <2>1, <2>6, <2>7, <2>8 DEF Told
<1> QED
  BY <1>1, <1>2, <1>6, <1>7, <1>10, <1>11, <1>12 DEF PeersInv

(* What the invariant says where nothing is in flight, of what is          *)
(* published and of an Active viewer.                                      *)
LEMMA PeersInvImplies ==
    PeersInv => QuietPeersAgree /\ PublishedIsGranted /\ ActiveIsAuthorized
<1> SUFFICES ASSUME PeersInv
             PROVE  QuietPeersAgree /\ PublishedIsGranted /\ ActiveIsAuthorized
  OBVIOUS
<1>1. QuietPeersAgree
  <2> SUFFICES ASSUME Quiescent
               PROVE  /\ viewer.state = "Active" <=> state = "Authorized"
                      /\ viewer.state = "Active" => viewer.permissions = grant
                      /\ viewer.state = "Await2Fa" => state = "Await2Fa"
                      /\ viewer.state = "AwaitApproval" => state = "AwaitApproval"
    BY DEF QuietPeersAgree
  <2>1. hostWire /\ viewerWire /\ toViewer = <<>> /\ outbox = <<>> /\ state # "Closed"
    BY DEF Quiescent, PeersInv
  <2>2. <<>> \o <<>> = <<>> /\ Len(<<>>) = 0
    OBVIOUS
  <2>3. LastWord(<<>>, viewer, state) /\ Reported(<<>>, viewer, state, grant)
    BY <2>1, <2>2 DEF PeersInv, Told
  <2>4. \A i \in 1..0 : FALSE
    OBVIOUS
  <2>5. Suits(viewer.state, state)
    BY <2>2, <2>3, <2>4 DEF LastWord
  <2>6. ASSUME viewer.state = "Active" PROVE viewer.permissions = grant
    <3>1. state = "Authorized"
      BY <2>5, <2>6 DEF Suits
    <3>2. \A f \in Features : f \in viewer.permissions <=> f \in grant
      BY <2>2, <2>3, <2>4, <3>1 DEF Reported
    <3>3. viewer.permissions \subseteq Features /\ grant \subseteq Features
      BY DEF PeersInv, PeersTypeOK, AuthTypeOK, Permissions
    <3> QED
      BY <3>2, <3>3
  <2> QED
    BY <2>5, <2>6 DEF Suits
<1>2. PublishedIsGranted
  BY DEF PeersInv, Published, PublishedIsGranted
<1>3. ActiveIsAuthorized
  <2> SUFFICES ASSUME viewer.state = "Active", state # "Closed"
               PROVE  state = "Authorized" /\ request.my_id = viewer.request.my_id
    BY DEF ActiveIsAuthorized
  <2>1. viewerWire
    BY DEF PeersInv, PeersTypeOK, ViewerClosed
  <2>2. state = "Authorized"
    BY <2>1 DEF PeersInv, Told, Final
  <2>3. request # NoRequest
    BY <2>2 DEF PeersInv, AuthInv, PrimaryDone
  <2> QED
    BY <2>1, <2>2, <2>3 DEF PeersInv, Identified
<1> QED
  BY <1>1, <1>2, <1>3

(* Whatever the wire loses and whoever closes, drops or times out first,   *)
(* and however many logins and codes are sent ahead of their answers, the  *)
(* two ends of a session agree: HostSession publishes no more than what    *)
(* was granted, ViewerSession is Active only for the identity the host     *)
(* authorized, and with nothing in flight states and permissions match.    *)
THEOREM ConversationTheorem ==
    PeersSpec => [](QuietPeersAgree /\ PublishedIsGranted /\ ActiveIsAuthorized)
BY PeersInvInit, PeersInvInductive, PeersInvImplies, PTL DEF PeersSpec

(* The session over the wire drives the state machine only as its own      *)
(* specification allows: what AuthSpec promises of an arbitrary peer holds *)
(* of HostSession (session.rs calls authentication.rs).                    *)
THEOREM SessionRefines == PeersSpec => AuthSpec
<1>1. PeersInit => AuthInit
  BY DEF PeersInit
<1>2. PeersInv => PeersTypeOK
  BY DEF PeersInv
<1> QED
  BY <1>1, <1>2, PeersInvInit, PeersInvInductive, PeersStepIsAuthStep, PTL
     DEF PeersSpec, AuthSpec

(* Both parts of the model that is checked: the state machine alone, and   *)
(* the two peers.                                                          *)
BothInv == AuthInv /\ (part = "peers" => PeersInv)

LEMMA BothInvInductive == BothInv /\ [Next]_<<part, peerVars>> => BothInv'
<1> SUFFICES ASSUME BothInv, [Next]_<<part, peerVars>> PROVE BothInv'
  OBVIOUS
<1>1. CASE /\ part = "host" /\ AuthNext
           /\ UNCHANGED <<part, hostVars, viewerVars, toHost, toViewer, userVars>>
  BY <1>1, AuthInvInductive DEF BothInv
<1>2. CASE part = "peers" /\ PeersNext /\ UNCHANGED part
  BY <1>2, PeersInvInductive DEF BothInv, PeersInv
<1>3. CASE UNCHANGED <<part, peerVars>>
  <2>1. part' = part /\ UNCHANGED peerVars /\ UNCHANGED authVars
    BY <1>3 DEF peerVars
  <2> QED
    BY <2>1, AuthInvInductive, PeersInvInductive DEF BothInv
<1> QED
  BY <1>1, <1>2, <1>3 DEF Next

(* Viewer and host agree at every point of the exchange, for every set of  *)
(* features, order of reports and stock of requests of a viewer that       *)
(* claims a version from 1.2.0 on (authentication.rs, session.rs).         *)
THEOREM AgreementTheorem == Spec => []PeersAgree
<1>1. Init => BothInv
  BY PeersInvInit DEF Init, BothInv, PeersInv
<1>2. BothInv => PeersAgree
  BY PeersInvImplies DEF BothInv, PeersAgree, AuthInv
<1> QED
  BY <1>1, <1>2, BothInvInductive, PTL DEF Spec
=============================================================================
