------------------------------ MODULE AuthPeers ------------------------------
(***************************************************************************)
(* A viewer and a host authenticating each other over one connection:      *)
(* `HostSession' and `ViewerSession' of crates/rd-engine/src/session.rs,   *)
(* on top of the host's state machine (HostAuthentication).                *)
(*                                                                         *)
(* HostSession dispatches one record at a time and awaits each of its      *)
(* writes: `outbox' holds the writes of the dispatch that is under way.    *)
(* Only with the outbox empty does it look at the approval notification,   *)
(* then at the wire (a biased select).  Each side may lose its wire at any *)
(* point, time out while nothing is ready, or be dropped by its owner.     *)
(* The viewer may submit a login again before the first one is answered.   *)
(***************************************************************************)
EXTENDS HostAuthentication, Sequences

CONSTANTS
    FeatureOrder,   \* the order in which permission reports are sent
    Requests,       \* the login requests the viewer's owner submits
    Offers,         \* the permissions a local approval may carry
    MaxSends        \* bound: logins and codes a viewer sends

ASSUME OrderAssumption ==
    /\ FeatureOrder \in Seq(Features)
    /\ Features = {FeatureOrder[i] : i \in DOMAIN FeatureOrder}
ASSUME RequestsAssumption ==
    Requests \subseteq {r \in LoginRequest :
                          r.my_id # NoId /\ r.fault \in {"none", "target"}}
(* The viewer claims version 1.4.9 (login_request of viewer.rs).  For one   *)
(* before 1.2.0 the host explains no pending approval, and a code it asked *)
(* for earlier would stay on that viewer's screen.  A login that carries   *)
(* the password needs no such explanation.                                 *)
ASSUME VersionAssumption == \A r \in Requests : r.modern \/ r.password = "right"
ASSUME OffersAssumption == Offers \subseteq Permissions
ASSUME MaxSendsAssumption == MaxSends \in Nat

VARIABLES
    hostWire,           \* HostSession.io.wire is Some
    hostPermissions,    \* HostSession.permissions
    ready,              \* HostSession.ready
    outbox,             \* writes of the current dispatch, in order
    viewer,             \* ViewerSession: state, request (its target apart), permissions
    viewerWire,         \* ViewerSession.io.wire is Some
    toHost, toViewer,   \* records in flight
    decision,           \* the approval provider's answer
    notify,             \* the Notify: "idle", "due" (decided, not yet
                        \* notified) or "permit"
    sends

hostVars == <<hostWire, hostPermissions, ready, outbox>>
viewerVars == <<viewer, viewerWire, sends>>
userVars == <<decision, notify>>
peerVars == <<authVars, hostVars, viewerVars, toHost, toViewer, userVars>>

----------------------------------------------------------------------------
(* Records on the wire. *)

ViewerState ==
    {"AwaitHash", "AwaitLogin", "AwaitApproval", "Await2Fa", "Active", "Closed"}

LoginError == Messages \cup {"No Password Access"}

Hash == [type |-> "Hash"]
PeerInfo == [type |-> "PeerInfo"]
CloseReason == [type |-> "Close"]
ErrorResponse(message) == [type |-> "LoginError", error |-> message]
PermissionInfo(f, on) == [type |-> "Permission", feature |-> f, enabled |-> on]

FromViewer ==
    [type : {"Login"}, req : Requests]
      \cup [type : {"Auth2fa"}, result : FactorResult]
      \cup {CloseReason}

FromHost ==
    {Hash, PeerInfo, CloseReason}
      \cup [type : {"LoginError"}, error : LoginError]
      \cup [type : {"Permission"}, feature : Features, enabled : BOOLEAN]

PeersTypeOK ==
    /\ AuthTypeOK
    /\ hostWire \in BOOLEAN /\ viewerWire \in BOOLEAN /\ ready \in BOOLEAN
    /\ hostPermissions \in Permissions
    /\ outbox \in Seq(FromHost)
    /\ viewer \in [state : ViewerState, request : Claims \cup {NoRequest},
                   target : {"none", "target"}, permissions : Permissions]
    /\ toHost \in Seq(FromViewer)
    /\ toViewer \in Seq(FromHost)
    /\ decision \in Approval
    /\ notify \in {"idle", "due", "permit"}
    /\ sends \in 0..MaxSends

----------------------------------------------------------------------------
(* HostSession *)

AnswerReportingGrantsOnly(act, claims) ==       \* mutant
    CASE act.kind = "Ignored" -> <<>>
      [] act.kind = "PendingApproval" ->
           IF claims # NoRequest /\ claims.modern
           THEN <<ErrorResponse("No Password Access")>> ELSE <<>>
      [] act.kind = "Error" -> <<ErrorResponse(act.message)>>
      [] act.kind = "Authorized" ->
           <<PeerInfo>> \o
           SelectSeq([i \in DOMAIN FeatureOrder |->
                        PermissionInfo(FeatureOrder[i], TRUE)],
                     LAMBDA m : m.feature \in act.permissions)

(* apply(): the writes that answer an AuthAction.  A pre-1.2.0 viewer gets *)
(* no explanation while its approval is pending.                           *)
Answer(act, claims) ==
    CASE act.kind = "Ignored" -> <<>>
      [] act.kind = "PendingApproval" ->
           IF claims # NoRequest /\ claims.modern
           THEN <<ErrorResponse("No Password Access")>> ELSE <<>>
      [] act.kind = "Error" -> <<ErrorResponse(act.message)>>
      [] act.kind = "Authorized" ->
           <<PeerInfo>> \o
           [i \in DOMAIN FeatureOrder |->
              PermissionInfo(FeatureOrder[i], FeatureOrder[i] \in act.permissions)]

(* The dispatch is over: its writes wait in the outbox.  With nothing to   *)
(* write, a session that has closed terminates its wire at once.           *)
Dispatched(writes) ==
    /\ outbox' = writes
    /\ hostWire' = (state' # "Closed" \/ writes # <<>>)
    /\ UNCHANGED <<hostPermissions, ready>>

(* HostSession can receive: it is in recv_inner's select. *)
HostReceives == hostWire /\ outbox = <<>> /\ state # "Closed"

HostRecv ==
    /\ HostReceives /\ notify # "permit"
    /\ toHost # <<>>
    /\ toHost' = Tail(toHost)
    /\ LET m == Head(toHost) IN
         \/ /\ m.type = "Login"
            /\ \E allowed \in BOOLEAN : Login(m.req, allowed, decision)
            /\ Dispatched(Answer(action', request'))
         \/ /\ m.type = "Auth2fa"
            /\ \E allowed \in BOOLEAN : SecondFactor(allowed, m.result)
            /\ Dispatched(Answer(action', request'))
         \/ /\ m.type = "Close"
            /\ Close
            /\ hostWire' = FALSE /\ hostPermissions' = {}
            /\ UNCHANGED <<ready, outbox>>
    /\ UNCHANGED <<viewerVars, toViewer, userVars>>

(* recv_inner takes the approval branch, and poll_approval its normal path. *)
HostPollsApproval ==
    /\ HostReceives /\ notify = "permit"
    /\ notify' = "idle"
    /\ PollApproval(decision)
    /\ Dispatched(Answer(action', request'))
    /\ UNCHANGED <<viewerVars, toHost, toViewer, decision>>

HostSendsKeepingPermissions ==      \* mutant
    /\ outbox # <<>>
    /\ toViewer' = Append(toViewer, Head(outbox))
    /\ outbox' = Tail(outbox)
    /\ hostPermissions' =
         IF Head(outbox) = PeerInfo
         THEN config.password_permissions ELSE hostPermissions
    /\ ready' = (ready \/ (Tail(outbox) = <<>> /\ state = "Authorized"))
    /\ hostWire' = (Tail(outbox) # <<>> \/ state # "Closed")
    /\ UNCHANGED <<authVars, viewerVars, toHost, userVars>>

(* One write of the outbox.  The grant is published once PeerInfo is out,  *)
(* readiness once the last report is.                                      *)
HostSends ==
    /\ outbox # <<>>
    /\ toViewer' = Append(toViewer, Head(outbox))
    /\ outbox' = Tail(outbox)
    /\ hostPermissions' =
         IF Head(outbox) = PeerInfo THEN action.permissions ELSE hostPermissions
    /\ ready' = (ready \/ (Tail(outbox) = <<>> /\ state = "Authorized"))
    /\ hostWire' = (Tail(outbox) # <<>> \/ state # "Closed")
    /\ UNCHANGED <<authVars, viewerVars, toHost, userVars>>

(* The wire is gone for the host: a write fails, the deadline passes while *)
(* nothing is ready, the peer's end is closed, or the owner drops the      *)
(* session.  The rest of the outbox is never sent.                         *)
HostTerminates ==
    /\ Close
    /\ hostWire' = FALSE
    /\ hostPermissions' = {}
    /\ outbox' = <<>>
    /\ UNCHANGED <<ready, viewerVars, toHost, toViewer, userVars>>

HostSendFails == hostWire /\ outbox # <<>> /\ HostTerminates

(* timeout_at lets a record that is ready win; poll_approval checks the    *)
(* deadline itself.                                                        *)
HostDeadline ==
    /\ HostReceives
    /\ toHost = <<>> \/ (notify = "permit" /\ state # "Authorized")
    /\ HostTerminates

HostSeesEnd == HostReceives /\ ~viewerWire /\ HostTerminates

(* HostSession::close(): closed first, then one last record. *)
HostCloses ==
    /\ HostReceives
    /\ Close
    /\ hostPermissions' = {}
    /\ outbox' = <<CloseReason>>
    /\ UNCHANGED <<hostWire, ready, viewerVars, toHost, toViewer, userVars>>

----------------------------------------------------------------------------
(* The local user, through the approval provider: it publishes its answer, *)
(* then notifies.                                                          *)

UserDecides ==
    /\ decision.kind = "Pending"
    /\ decision' \in [kind : {"Denied"}, grant : {{}}]
                       \cup [kind : {"Approved"}, grant : Offers]
    /\ notify' = "due"
    /\ UNCHANGED <<authVars, hostVars, viewerVars, toHost, toViewer>>

UserNotifiesWaitersOnly ==      \* mutant
    /\ notify = "due"
    /\ notify' = IF HostReceives THEN "permit" ELSE "idle"
    /\ UNCHANGED <<authVars, hostVars, viewerVars, toHost, toViewer, decision>>

(* notify_one() leaves a permit when nobody is waiting. *)
UserNotifies ==
    /\ notify = "due"
    /\ notify' = "permit"
    /\ UNCHANGED <<authVars, hostVars, viewerVars, toHost, toViewer, decision>>

----------------------------------------------------------------------------
(* ViewerSession *)

ViewerClosed ==
    [state |-> "Closed", request |-> NoRequest, target |-> "none", permissions |-> {}]

(* terminate() *)
ViewerTerminates ==
    /\ viewer' = ViewerClosed
    /\ viewerWire' = FALSE
    /\ UNCHANGED <<authVars, hostVars, userVars, toHost, sends>>

(* login(): a retry keeps the identity and the target of the first request. *)
ViewerLogin ==
    /\ viewer.state \in {"AwaitLogin", "AwaitApproval", "Await2Fa"}
    /\ sends < MaxSends
    /\ \E req \in Requests :
         /\ viewer.request # NoRequest =>
              viewer.request.my_id = req.my_id /\ viewer.target = req.fault
         /\ toHost' = Append(toHost, [type |-> "Login", req |-> req])
         /\ viewer' = [viewer EXCEPT !.request = Retained(req),
                                     !.target = req.fault, !.state = "AwaitLogin"]
    /\ sends' = sends + 1
    /\ UNCHANGED <<authVars, hostVars, userVars, viewerWire, toViewer>>

(* send_second_factor(): the state does not change until the answer. *)
ViewerSecondFactor ==
    /\ viewer.state = "Await2Fa"
    /\ sends < MaxSends
    /\ \E result \in FactorResult :
         toHost' = Append(toHost, [type |-> "Auth2fa", result |-> result])
    /\ sends' = sends + 1
    /\ UNCHANGED <<authVars, hostVars, userVars, viewer, viewerWire, toViewer>>

(* recv_inner: the state after a LoginResponse error. *)
StateAfterError(message) ==
    CASE message \in {"2FA Required", "Wrong 2FA Code",
                      "2FA verification unsupported"} -> "Await2Fa"
      [] message = "No Password Access" -> "AwaitApproval"
      [] OTHER -> "AwaitLogin"

(* record_permission() *)
Recorded(permissions, m) ==
    IF m.enabled THEN permissions \cup {m.feature} ELSE permissions \ {m.feature}

(* recv_inner on a record that does not end the session. *)
ViewerAccepts(m) ==
    \/ /\ m = Hash /\ viewer.state = "AwaitHash"
       /\ viewer' = [viewer EXCEPT !.state = "AwaitLogin"]
    \/ /\ m.type = "LoginError"
       /\ viewer.state # "Active" /\ viewer.request # NoRequest
       /\ viewer' = [viewer EXCEPT !.state = StateAfterError(m.error)]
    \/ /\ m = PeerInfo
       /\ viewer.state # "Active" /\ viewer.request # NoRequest
       /\ viewer' = [viewer EXCEPT !.state = "Active"]
    \/ /\ m.type = "Permission"
       /\ viewer' = [viewer EXCEPT !.permissions = Recorded(viewer.permissions, m)]
    \/ /\ viewer.state = "Active"               \* handed on as a payload
       /\ m.type \in {"Hash", "LoginError", "PeerInfo"}
       /\ UNCHANGED viewer

(* recv_inner on a record that ends it: a close, a refusal before any      *)
(* login, an unsolicited success or a payload before authentication.       *)
ViewerRefuses(m) ==
    \/ m = CloseReason
    \/ m = Hash /\ viewer.state \notin {"AwaitHash", "Active"}
    \/ m.type \in {"LoginError", "PeerInfo"}
         /\ viewer.state # "Active" /\ viewer.request = NoRequest

ViewerRecv ==
    /\ viewerWire /\ toViewer # <<>>
    /\ toViewer' = Tail(toViewer)
    /\ \/ /\ ViewerAccepts(Head(toViewer))
          /\ UNCHANGED <<authVars, hostVars, userVars, viewerWire, toHost, sends>>
       \/ /\ ViewerRefuses(Head(toViewer))
          /\ ViewerTerminates

(* A deadline, a failed write, a dropped session, or the end of the stream *)
(* (which, after a reset, may hide records still in flight).               *)
ViewerLosesWire == viewerWire /\ ViewerTerminates /\ UNCHANGED toViewer

(* close(): one last record, then terminate(). *)
ViewerCloses ==
    /\ viewerWire
    /\ toHost' = Append(toHost, CloseReason)
    /\ viewer' = ViewerClosed
    /\ viewerWire' = FALSE
    /\ UNCHANGED <<authVars, hostVars, userVars, toViewer, sends>>

----------------------------------------------------------------------------
(* A session starts with the host's Hash sent (from_established). *)
PeersInit ==
    /\ AuthInit
    /\ hostWire = TRUE /\ hostPermissions = {} /\ ready = FALSE /\ outbox = <<>>
    /\ viewer = [state |-> "AwaitHash", request |-> NoRequest, target |-> "none",
                 permissions |-> Features]
    /\ viewerWire = TRUE
    /\ toHost = <<>> /\ toViewer = <<Hash>>
    /\ decision = [kind |-> "Pending", grant |-> {}]
    /\ notify = "idle"
    /\ sends = 0

HostNext ==
    \/ HostRecv \/ HostPollsApproval \/ HostSends \/ HostSendFails
    \/ HostDeadline \/ HostSeesEnd \/ HostCloses

UserNext == UserDecides \/ UserNotifies

ViewerNext ==
    \/ ViewerLogin \/ ViewerSecondFactor \/ ViewerRecv
    \/ ViewerLosesWire \/ ViewerCloses

PeersNext == HostNext \/ UserNext \/ ViewerNext

(* The host's task runs, and the provider notifies what it has decided.    *)
(* Nobody owes a login, a decision, a close or a timeout.                  *)
PeersFairness ==
    /\ WF_peerVars(HostRecv)
    /\ WF_peerVars(HostPollsApproval)
    /\ WF_peerVars(HostSends)
    /\ WF_peerVars(UserNotifies)

PeersSpec == PeersInit /\ [][PeersNext]_peerVars /\ PeersFairness

----------------------------------------------------------------------------
(* Nothing is in flight or being written, and both ends are up. *)
Quiescent ==
    hostWire /\ viewerWire /\ toHost = <<>> /\ toViewer = <<>> /\ outbox = <<>>

(* When nothing is in flight the two state machines agree, however many    *)
(* logins and codes were sent ahead of their answers: Active on the viewer *)
(* means Authorized on the host and the same permissions on both; a viewer *)
(* that prompts for a code, or shows that an approval is awaited, faces a  *)
(* host that takes one.                                                    *)
QuietPeersAgree ==
    Quiescent =>
        /\ viewer.state = "Active" <=> state = "Authorized"
        /\ viewer.state = "Active" => viewer.permissions = grant
        /\ viewer.state = "Await2Fa" => state = "Await2Fa"
        /\ viewer.state = "AwaitApproval" => state = "AwaitApproval"

(* What the host publishes to its runtime never exceeds the grant of its   *)
(* authentication, at any point of the writes that announce it: before     *)
(* authorization and after any way of closing it is empty, and what is     *)
(* ready for hand-off is the whole grant.                                  *)
PublishedIsGranted ==
    /\ hostPermissions \subseteq grant
    /\ ready /\ hostWire /\ state = "Authorized" => hostPermissions = grant

(* The viewer reaches Active only through the host's authorization of the  *)
(* identity it claims: never on a stale or misread answer.                 *)
ActiveIsAuthorized ==
    viewer.state = "Active" =>
        \/ state = "Authorized" /\ request.my_id = viewer.request.my_id
        \/ state = "Closed"

(* A local decision about a session that awaits approval is applied,       *)
(* whatever the host is doing when the decision is made: the notification  *)
(* is kept until the dispatch under way has finished.                      *)
DecisionIsApplied ==
    (decision.kind # "Pending" /\ state = "AwaitApproval")
        ~> (state # "AwaitApproval")
=============================================================================
