-------------------------------- MODULE Host --------------------------------
(***************************************************************************)
(* The single-peer viewing host of crates/rd-engine/src/host.rs: the       *)
(* listener task (`serve'), one authenticated peer at a time served by a   *)
(* reader and a publishing sender that are joined before the next accept,  *)
(* local approval under a request epoch, and close().                      *)
(*                                                                         *)
(* HostSession (AuthPeers) appears here through the events it returns for  *)
(* the ClickOnly policy this host uses; the publisher through the outcomes *)
(* of open, recv and close.  Media and message contents are abstracted:    *)
(* the control channel between reader and sender is its length.            *)
(***************************************************************************)
EXTENDS Naturals

CONSTANTS
    InputArmed,     \* options.input_injection && options.input_sink.is_some()
    ControlSlots,   \* mpsc::channel(16)
    MaxEvents,      \* pre-authentication events of one session: 64
    MaxRequests     \* bound: peers accepted

ASSUME HostAssumption ==
    /\ InputArmed \in BOOLEAN
    /\ ControlSlots \in Nat \ {0} /\ MaxEvents \in Nat \ {0}
    /\ MaxRequests \in Nat

VARIABLES
    task,           \* where serve() is
    cancel,         \* State.cancel
    sessionCancel,  \* the child token of the current peer
    nextRequest,    \* NEXT_REQUEST; the current session's epoch while it lasts
    session,        \* HostSession's authentication state
    events,         \* pre-authentication events handled
    keyboard,       \* AuthenticatedContext.permissions.keyboard
    grant,          \* State.grant: LocalGrant
    due,            \* approve() has decided and not notified yet
    permit,         \* State.approval holds a permit
    reader, sender, \* the two tasks of the peer
    control,        \* messages in the control channel
    publisher,      \* the native publisher
    unreclaimed,    \* State.unreclaimed
    snapshot,       \* State.snapshot
    closing,        \* the progress of a close() call
    approved,       \* history: the epochs the user approved
    message         \* history: what ended or occupied the reader's last turn

taskVars == <<task, session, events, keyboard, nextRequest>>
peerVars == <<reader, sender, control, publisher, sessionCancel, message>>
userVars == <<due, approved, closing>>
vars == <<task, cancel, sessionCancel, nextRequest, session, events, keyboard,
          grant, due, permit, reader, sender, control, publisher, unreclaimed,
          snapshot, closing, approved, message>>

NoGrant == [epoch |-> 0, decision |-> "none"]

Errors == {"none", "failed", "denied", "unconfirmed"}

(* LocalGrant and HostSnapshot.                                            *)
Grants == [epoch : 0..MaxRequests, decision : {"none", "allow", "deny"}]
Snapshots == [phase : {"starting", "listening", "authenticating", "awaiting_approval",
                       "awaiting_capture_consent", "streaming", "closed",
                       "reclamation_unconfirmed"},
              error : Errors, request : 0..MaxRequests,
              connected : BOOLEAN, closed : BOOLEAN]

HostTypeOK ==
    /\ task \in {"starting", "listening", "authenticating", "streaming",
                 "joining", "ended"}
    /\ cancel \in BOOLEAN /\ sessionCancel \in BOOLEAN
    /\ nextRequest \in 0..MaxRequests
    /\ session \in {"none", "AwaitLogin", "AwaitApproval"}
    /\ events \in 0..MaxEvents
    /\ keyboard \in BOOLEAN
    /\ grant \in Grants
    /\ due \in BOOLEAN /\ permit \in BOOLEAN
    /\ reader \in {"none", "running", "ok", "failed"}
    /\ sender \in {"none", "spawned", "opening", "running", "closingOk",
                   "closingFailed", "ok", "failed", "unconfirmed", "panicked"}
    /\ control \in 0..ControlSlots
    /\ publisher \in {"none", "opening", "open", "closed", "unknown"}
    /\ unreclaimed \in BOOLEAN
    /\ snapshot \in Snapshots
    /\ closing \in {"none", "waiting", "abandoned", "ok", "unconfirmed"}
    /\ approved \subseteq 1..MaxRequests
    /\ message \in {"none", "close", "end", "control", "input"}

----------------------------------------------------------------------------
(* serve() and the task around it *)

(* The tail of the spawned task: clear_request, then the final snapshot.   *)
TaskEnds(error, lost) ==
    /\ task' = "ended"
    /\ grant' = NoGrant
    /\ unreclaimed' = lost
    /\ snapshot' = [phase |-> IF lost THEN "reclamation_unconfirmed" ELSE "closed",
                    error |-> IF error = "none" THEN snapshot.error ELSE error,
                    request |-> 0, connected |-> FALSE, closed |-> ~lost]

(* Back to the top of the loop after peer() has returned. *)
ListenAgain(error) ==
    /\ task' = "listening"
    /\ grant' = NoGrant
    /\ snapshot' = [snapshot EXCEPT
                      !.phase = "listening", !.connected = FALSE, !.request = 0,
                      !.error = IF error = "none" THEN @ ELSE error]

(* Capability probe and bind. *)
ServeStarts ==
    /\ task = "starting"
    /\ \/ ListenAgain("none") /\ UNCHANGED unreclaimed
       \/ TaskEnds("failed", unreclaimed)
    /\ UNCHANGED <<cancel, session, events, keyboard, nextRequest, permit,
                   peerVars, userVars>>

ServeStopsOnErrorOnly ==        \* mutant
    /\ task = "listening" /\ ~cancel
    /\ TaskEnds("failed", unreclaimed)
    /\ UNCHANGED <<cancel, session, events, keyboard, nextRequest, permit,
                   peerVars, userVars>>

(* The select of the accept loop, biased to the cancellation. *)
ServeStops ==
    /\ task = "listening"
    /\ \/ cancel /\ TaskEnds("none", unreclaimed)
       \/ ~cancel /\ TaskEnds("failed", unreclaimed)
    /\ UNCHANGED <<cancel, session, events, keyboard, nextRequest, permit,
                   peerVars, userVars>>

(* accept, and authenticate() up to its event loop: a fresh epoch, and     *)
(* nothing left of an earlier request.                                     *)
Accept ==
    /\ task = "listening" /\ ~cancel
    /\ nextRequest < MaxRequests
    /\ task' = "authenticating"
    /\ nextRequest' = nextRequest + 1
    /\ session' = "AwaitLogin"
    /\ events' = 0
    /\ grant' = NoGrant
    /\ snapshot' = [snapshot EXCEPT !.phase = "authenticating", !.error = "none",
                                    !.request = 0]
    /\ UNCHANGED <<cancel, keyboard, permit, unreclaimed, peerVars, userVars>>

(* LocalApproval::check for the current session. *)
Decision == IF grant.epoch = nextRequest THEN grant.decision ELSE "none"

(* peer() ends during authentication: cancelled, refused, timed out, lost, *)
(* or out of events.                                                       *)
AuthenticationEnds(error) ==
    /\ ListenAgain(error)
    /\ session' = "none"
    /\ UNCHANGED <<keyboard, peerVars>>

(* Authorized: the codec is agreed and both tasks are spawned, or there is *)
(* no common codec.  The viewer may have switched its keyboard off.        *)
PeerStarts ==
    /\ session' = "none"
    /\ \/ /\ ListenAgain("failed")
          /\ UNCHANGED <<keyboard, peerVars>>
       \/ /\ task' = "streaming"
          /\ grant' = NoGrant
          /\ snapshot' = [snapshot EXCEPT !.phase = "awaiting_capture_consent",
                                          !.connected = TRUE, !.request = 0]
          /\ keyboard' \in {InputArmed, FALSE}
          /\ sessionCancel' = FALSE
          /\ reader' = "running" /\ sender' = "spawned"
          /\ control' = 0 /\ publisher' = "none" /\ message' = "none"

(* What recv_with_approval returns once the provider is asked: the request *)
(* is shown, or the decision about it is applied.                          *)
ProviderAsked ==
    \/ /\ Decision = "none"
       /\ session' = "AwaitApproval"
       /\ grant' = [grant EXCEPT !.epoch = nextRequest]
       /\ snapshot' = [snapshot EXCEPT !.phase = "awaiting_approval",
                                       !.request = nextRequest]
       /\ UNCHANGED <<task, keyboard, peerVars>>
    \/ Decision = "allow" /\ PeerStarts
    \/ Decision = "deny" /\ AuthenticationEnds("denied")

Authenticating == task = "authenticating" /\ ~cancel /\ events < MaxEvents

(* A login (or a repeated one) arrives; the permit goes first. *)
PeerLogin ==
    /\ Authenticating /\ ~permit
    /\ events' = events + 1
    /\ ProviderAsked
    /\ UNCHANGED <<cancel, nextRequest, permit, unreclaimed, userVars>>

(* Other records before authentication: a probe, an unexpected message. *)
PeerChatter ==
    /\ Authenticating /\ ~permit
    /\ events' = events + 1
    /\ UNCHANGED <<task, session, keyboard, snapshot, grant, cancel, nextRequest,
                   permit, unreclaimed, peerVars, userVars>>

(* The notification: poll_approval, which ignores a permit that is left    *)
(* from an earlier session or from a login that has read the decision.     *)
ApprovalPolled ==
    /\ Authenticating /\ permit
    /\ permit' = FALSE
    /\ events' = events + 1
    /\ \/ /\ session = "AwaitApproval"
          /\ ProviderAsked
       \/ /\ session # "AwaitApproval"
          /\ UNCHANGED <<task, session, keyboard, snapshot, grant, peerVars>>
    /\ UNCHANGED <<cancel, nextRequest, unreclaimed, userVars>>

AuthenticationStops ==
    /\ task = "authenticating"
    /\ \/ cancel /\ AuthenticationEnds("none")
       \/ AuthenticationEnds("failed")
       \/ AuthenticationEnds("denied")      \* also when the peer closes
    /\ UNCHANGED <<cancel, nextRequest, events, permit, unreclaimed, userVars>>

----------------------------------------------------------------------------
(* peer(): the first of the two tasks to finish, or the cancellation,      *)
(* cancels the other; both are joined.                                     *)

Cancelled == cancel \/ sessionCancel
ReaderDone == reader \in {"ok", "failed"}
SenderDone == sender \in {"ok", "failed", "unconfirmed", "panicked"}

PeerCancels ==
    /\ task = "streaming"
    /\ Cancelled \/ ReaderDone \/ SenderDone
    /\ sessionCancel' = TRUE
    /\ task' = "joining"
    /\ UNCHANGED <<cancel, nextRequest, session, events, keyboard, grant, permit,
                   reader, sender, control, publisher, unreclaimed, snapshot,
                   message, userVars>>

PeerOutcome ==
    CASE cancel -> "none"
      [] ~cancel /\ (sender = "failed" \/ reader = "failed") -> "failed"
      [] OTHER -> "none"

PeerJoins ==
    /\ task = "joining"
    /\ ReaderDone /\ SenderDone
    /\ \/ /\ sender \in {"unconfirmed", "panicked"}
          /\ TaskEnds("unconfirmed", TRUE)
       \/ /\ sender \notin {"unconfirmed", "panicked"}
          /\ ListenAgain(PeerOutcome)
          /\ UNCHANGED unreclaimed
    /\ reader' = "none" /\ sender' = "none" /\ control' = 0
    /\ UNCHANGED <<cancel, sessionCancel, nextRequest, session, events, keyboard,
                   permit, publisher, message, userVars>>

----------------------------------------------------------------------------
(* read_peer() *)

ReaderStep(seen, result) ==
    /\ reader = "running"
    /\ reader' = result
    /\ message' = seen
    /\ UNCHANGED <<cancel, taskVars, sender, publisher, sessionCancel, grant,
                   permit, unreclaimed, snapshot, userVars>>

ReaderCancelled == Cancelled /\ ReaderStep("none", "ok") /\ UNCHANGED control

(* A close reason or a withdrawn display. *)
ReaderFinishes == ~Cancelled /\ ReaderStep("close", "ok") /\ UNCHANGED control

(* The stream ends or fails, or the display is not this host's. *)
ReaderFails == ~Cancelled /\ ReaderStep("end", "failed") /\ UNCHANGED control

(* A delay probe, a keyframe request or a display query, passed to the     *)
(* sender by try_send, which fails when the channel is full or its         *)
(* receiver is gone.                                                       *)
ReaderForwards ==
    /\ ~Cancelled
    /\ \/ /\ control < ControlSlots /\ ~SenderDone
          /\ control' = control + 1
          /\ ReaderStep("control", "running")
       \/ /\ control = ControlSlots \/ SenderDone
          /\ UNCHANGED control
          /\ ReaderStep("control", "failed")

(* A mouse or key event: injected with the granted permission; without it  *)
(* read_peer returns, as it does for a close reason.                       *)
ReaderInput ==
    /\ ~Cancelled
    /\ ReaderStep("input", IF keyboard THEN "running" ELSE "ok")
    /\ UNCHANGED control

----------------------------------------------------------------------------
(* publish() *)

SenderStep(from, to) ==
    /\ sender = from
    /\ sender' = to
    /\ UNCHANGED <<cancel, taskVars, reader, message, sessionCancel, grant, permit,
                   userVars>>

(* The check before any native resource is asked for. *)
SenderBegins ==
    /\ \/ Cancelled /\ SenderStep("spawned", "ok") /\ UNCHANGED publisher
       \/ ~Cancelled /\ SenderStep("spawned", "opening") /\ publisher' = "opening"
    /\ UNCHANGED <<control, unreclaimed, snapshot>>

(* Publisher::open runs to its end, cancelled or not. *)
PublisherOpens ==
    /\ \/ /\ SenderStep("opening", "running")
          /\ publisher' = "open" /\ UNCHANGED unreclaimed
       \/ /\ SenderStep("opening", "failed")
          /\ publisher' = "closed" /\ UNCHANGED unreclaimed
       \/ /\ SenderStep("opening", "unconfirmed")
          /\ publisher' = "unknown" /\ unreclaimed' = TRUE
    /\ UNCHANGED <<control, snapshot>>

SenderCancelledWithoutClose ==      \* mutant
    /\ Cancelled
    /\ SenderStep("running", "ok")
    /\ UNCHANGED <<control, publisher, unreclaimed, snapshot>>

(* The loop's biased select: the cancellation, then a control message, or  *)
(* the end of the channel, then an access unit; each may fail.             *)
SenderCancelled ==
    /\ Cancelled
    /\ SenderStep("running", "closingOk")
    /\ UNCHANGED <<control, publisher, unreclaimed, snapshot>>

SenderControl ==
    /\ ~Cancelled
    /\ \/ /\ control > 0
          /\ control' = control - 1
          /\ SenderStep("running", "running") \/ SenderStep("running", "closingFailed")
       \/ /\ control = 0 /\ ReaderDone
          /\ UNCHANGED control
          /\ SenderStep("running", "closingOk")
    /\ UNCHANGED <<publisher, unreclaimed, snapshot>>

SenderUnit ==
    /\ ~Cancelled /\ control = 0
    /\ \/ /\ SenderStep("running", "running")
          /\ snapshot' = [snapshot EXCEPT !.phase = "streaming"]
       \/ SenderStep("running", "closingFailed") /\ UNCHANGED snapshot
       \/ SenderStep("running", "closingOk") /\ UNCHANGED snapshot
    /\ UNCHANGED <<control, publisher, unreclaimed>>

(* request_close and close, whatever ended the loop. *)
PublisherCloses ==
    /\ \/ /\ \/ SenderStep("closingOk", "ok")
             \/ SenderStep("closingFailed", "failed")
          /\ publisher' = "closed" /\ UNCHANGED unreclaimed
       \/ /\ \/ SenderStep("closingOk", "unconfirmed")
             \/ SenderStep("closingFailed", "unconfirmed")
          /\ publisher' = "unknown" /\ unreclaimed' = TRUE
    /\ UNCHANGED <<control, snapshot>>

(* The sender's task panics and drops what it holds. *)
SenderPanics ==
    /\ \/ SenderStep("opening", "panicked")
       \/ SenderStep("running", "panicked")
       \/ SenderStep("closingOk", "panicked")
       \/ SenderStep("closingFailed", "panicked")
    /\ publisher' = "unknown"
    /\ UNCHANGED <<control, unreclaimed, snapshot>>

----------------------------------------------------------------------------
(* The local user *)

DecideAcceptsAnyRequest(e) == grant.epoch # 0 /\ grant.decision = "none"    \* mutant

(* approve(request_id, allow) with any id it was ever shown: decided under *)
(* the lock, notified after it.                                            *)
DecideAccepts(e) == e # 0 /\ grant.epoch = e /\ grant.decision = "none"

Decide(e, allow) ==
    /\ ~due /\ ~cancel
    /\ DecideAccepts(e)
    /\ grant' = [grant EXCEPT !.decision = IF allow THEN "allow" ELSE "deny"]
    /\ approved' = IF allow THEN approved \cup {e} ELSE approved
    /\ due' = TRUE
    /\ UNCHANGED <<taskVars, peerVars, cancel, permit, unreclaimed, snapshot, closing>>

Approve == \E e \in 1..nextRequest, allow \in BOOLEAN : Decide(e, allow)

ApproveNotifies ==
    /\ due
    /\ due' = FALSE
    /\ permit' = TRUE
    /\ UNCHANGED <<taskVars, peerVars, cancel, grant, unreclaimed, snapshot,
                   closing, approved>>

(* request_close(), also from Drop. *)
RequestClose ==
    /\ ~cancel
    /\ cancel' = TRUE
    /\ UNCHANGED <<taskVars, peerVars, grant, permit, unreclaimed, snapshot, userVars>>

(* close(): cancels, takes the join handle and awaits it. *)
CloseStarts ==
    /\ closing = "none"
    /\ closing' = "waiting"
    /\ cancel' = TRUE
    /\ UNCHANGED <<taskVars, peerVars, grant, permit, unreclaimed, snapshot,
                   due, approved>>

(* The caller drops the future: the handle is gone with it. *)
CloseAbandoned ==
    /\ closing = "waiting"
    /\ closing' = "abandoned"
    /\ UNCHANGED <<taskVars, peerVars, cancel, grant, permit, unreclaimed, snapshot,
                   due, approved>>

CloseReturnsUnchecked ==        \* mutant
    /\ (closing = "waiting" /\ task = "ended") \/ closing = "abandoned"
    /\ closing' = IF unreclaimed THEN "unconfirmed" ELSE "ok"
    /\ UNCHANGED <<taskVars, peerVars, cancel, grant, permit, unreclaimed, snapshot,
                   due, approved>>

(* The result: after the join, or at once when the handle was taken before. *)
CloseReturns ==
    /\ (closing = "waiting" /\ task = "ended") \/ closing = "abandoned"
    /\ closing' = IF unreclaimed \/ ~snapshot.closed THEN "unconfirmed" ELSE "ok"
    /\ UNCHANGED <<taskVars, peerVars, cancel, grant, permit, unreclaimed, snapshot,
                   due, approved>>

----------------------------------------------------------------------------
HostInit ==
    /\ task = "starting"
    /\ cancel = FALSE /\ sessionCancel = FALSE
    /\ nextRequest = 0
    /\ session = "none" /\ events = 0 /\ keyboard = FALSE
    /\ grant = NoGrant /\ due = FALSE /\ permit = FALSE
    /\ reader = "none" /\ sender = "none" /\ control = 0 /\ publisher = "none"
    /\ unreclaimed = FALSE
    /\ snapshot = [phase |-> "starting", error |-> "none", request |-> 0,
                   connected |-> FALSE, closed |-> FALSE]
    /\ closing = "none"
    /\ approved = {} /\ message = "none"

ServeNext ==
    \/ ServeStarts \/ ServeStops \/ Accept \/ ApprovalPolled
    \/ AuthenticationStops \/ PeerCancels \/ PeerJoins

PeerNext == PeerLogin \/ PeerChatter

ReaderNext ==
    \/ ReaderCancelled \/ ReaderFinishes \/ ReaderFails
    \/ ReaderForwards \/ ReaderInput

SenderNext ==
    \/ SenderBegins \/ PublisherOpens \/ SenderCancelled \/ SenderControl
    \/ SenderUnit \/ PublisherCloses \/ SenderPanics

UserNext ==
    \/ Approve \/ ApproveNotifies \/ RequestClose
    \/ CloseStarts \/ CloseAbandoned \/ CloseReturns

HostNext == ServeNext \/ PeerNext \/ ReaderNext \/ SenderNext \/ UserNext

(* The runtime polls every ready task, and the native open and close calls *)
(* return; approve() runs to its end.  Peers and the user owe nothing.     *)
HostFairness ==
    /\ WF_vars(ServeStarts)
    /\ WF_vars(ServeStops /\ cancel)
    /\ WF_vars(AuthenticationStops /\ cancel)
    /\ WF_vars(PeerCancels) /\ WF_vars(PeerJoins)
    /\ WF_vars(ReaderCancelled)
    /\ WF_vars(SenderBegins) /\ WF_vars(PublisherOpens)
    /\ WF_vars(SenderCancelled) /\ WF_vars(PublisherCloses)
    /\ WF_vars(ApproveNotifies) /\ WF_vars(CloseReturns)

HostSpec == HostInit /\ [][HostNext]_vars /\ HostFairness

----------------------------------------------------------------------------
(* A peer is served only if the user approved this very request: neither a *)
(* click on an earlier prompt, however late, nor a notification left over  *)
(* from an earlier session lets the next peer in.                          *)
ServedWasApproved ==
    task \in {"streaming", "joining"} => nextRequest \in approved

(* The next peer is accepted, and the task ends as closed, only when both  *)
(* tasks of the last one are joined and its publisher is confirmed closed; *)
(* a publisher in an unknown state ends the host for good.                 *)
ReclaimedBeforeNextPeer ==
    task \in {"listening", "authenticating"} \/ snapshot.closed =>
        /\ reader = "none" /\ sender = "none"
        /\ publisher \in {"none", "closed"}
        /\ ~unreclaimed

(* close() answers Ok only when the task has ended with everything given   *)
(* back, also when an earlier close() was abandoned half way.              *)
CloseIsTruthful ==
    closing = "ok" =>
        /\ task = "ended"
        /\ reader = "none" /\ sender = "none"
        /\ publisher \in {"none", "closed"}

(* Once cancelled, the host ends: no state of the peer, of the two tasks   *)
(* or of the publisher keeps it from joining and leaving the loop.         *)
CancelEndsHost == cancel ~> (task = "ended")
=============================================================================
