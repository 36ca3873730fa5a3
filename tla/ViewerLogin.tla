----------------------------- MODULE ViewerLogin -----------------------------
(***************************************************************************)
(* The life of a controlling session as its frontend sees it: the phases   *)
(* of crates/rd-engine/src/viewer.rs from Viewer::start to State::finish.   *)
(*                                                                         *)
(* One task runs `run`: it connects, asks for the confirmation a direct    *)
(* route needs, holds the login dialogue (authenticate) and then starts a  *)
(* receiver, a writer and a feeder.  The feeder opens the decoder on the   *)
(* surface its lease names, which blocks until the lease can answer.       *)
(* Commands of the frontend travel through a bounded channel; the frontend *)
(* learns of the outcome only by reading the phase.                        *)
(*                                                                         *)
(* The two frontends (OhosSession, FlutterSession) extend this module.     *)
(* The media path and the input path are ViewerMedia and ViewerInput.      *)
(***************************************************************************)
EXTENDS Naturals, Sequences, FiniteSets, FiniteSetsExt

CONSTANTS MaxViewers,   \* bound: viewers started in one behaviour
          MaxCommands,  \* capacity of the command channel (4 in the code)
          MaxAnswers    \* bound: questions of all the peers together

ASSUME LoginConstants == /\ MaxViewers \in Nat \ {0}
                         /\ MaxCommands \in Nat \ {0}
                         /\ MaxAnswers \in Nat

VARIABLES viewers,      \* the viewers, in the order of their start
          leases        \* the state of every surface lease handed to a viewer

loginVars == <<viewers, leases>>

(* What a lease answers to surface_id: the call blocks on "unbound".       *)
LeaseStates == {"unbound", "bound", "none"}

Waits == {"awaiting_password", "awaiting_2fa", "awaiting_2fa_retry"}

Phases == {"capability", "connecting", "rendezvous",
           "awaiting_insecure_confirmation", "authenticating",
           "awaiting_approval", "authenticated", "connected",
           "opening_decoder", "decoding", "streaming",
           "closing", "closed", "failed"} \cup Waits

(* Phases of a viewer whose peer has accepted the login.                   *)
Admitted == {"authenticated", "opening_decoder", "decoding", "streaming"}

Commands == {"password", "second_factor", "continue", "refuse"}

Viewer ==
    [direct   : BOOLEAN,                 \* Connector
     secret   : BOOLEAN,                 \* ViewerOptions.password is not empty
     lease    : Nat,
     phase    : Phases,
     commands : Seq(Commands),
     login    : {"none", "empty", "password"},  \* last LoginRequest sent
     answers  : 0..MaxAnswers,
     feeder   : {"none", "idle", "waiting", "open", "vnc", "done"},
     cancel   : BOOLEAN,
     result   : {"running", "ok", "error"},
     closed   : BOOLEAN]

LoginTypeOK == /\ viewers \in Seq(Viewer)
               /\ \A l \in DOMAIN leases : leases[l] \in LeaseStates

Started(direct, secret, lease) ==
    [direct |-> direct, secret |-> secret, lease |-> lease,
     phase |-> "capability", commands |-> <<>>, login |-> "none",
     answers |-> 0, feeder |-> "none", cancel |-> FALSE,
     result |-> "running", closed |-> FALSE]

(* State::request_close: a finished viewer keeps its last phase.           *)
RequestClose(v) ==
    [v EXCEPT !.cancel = TRUE, !.phase = IF v.closed THEN @ ELSE "closing"]

(* Dropping the last handle of a Viewer asks it to close.                  *)
\* mutant
DropsSilently(v) == v

Drops(v) == RequestClose(v)

(* submit_password, submit_second_factor, continue_insecure: try_send into *)
(* the channel, refused when it is full or its receiver is gone.           *)
CanSubmit(v) == Len(v.commands) < MaxCommands /\ v.result = "running"
                /\ v.feeder = "none"

Submit(v, c) == [v EXCEPT !.commands = Append(@, c)]

(* A step of viewer i that makes it v.                                     *)
Steps(i, v) == viewers' = [viewers EXCEPT ![i] = v] /\ UNCHANGED leases

(* The login dialogue is over and its end of the channel is dropped; `run` *)
(* returns, for a cancellation before the login without an error.          *)
Ends(v, result) == [v EXCEPT !.result = result, !.commands = <<>>]

-----------------------------------------------------------------------------

(* capabilities(): a device without a hardware decoder ends at once.       *)
Probes(i) ==
    LET v == viewers[i] IN
    /\ v.result = "running" /\ ~v.cancel /\ v.phase = "capability"
    /\ \/ Steps(i, Ends(v, "error"))
       \/ Steps(i, [v EXCEPT !.phase = IF v.direct THEN "connecting"
                                                   ELSE "rendezvous"])

(* The dialling of the route.                                              *)
Connect(i) ==
    LET v == viewers[i] IN
    /\ v.result = "running" /\ ~v.cancel
    /\ v.phase \in {"connecting", "rendezvous"}
    /\ \/ Steps(i, Ends(v, "error"))
       \/ Steps(i, [v EXCEPT !.phase =
              IF v.direct THEN "awaiting_insecure_confirmation"
                          ELSE "authenticating"])

(* An unverified route waits for the explicit decision; any other command  *)
(* read while waiting is thrown away.                                      *)
Confirm(i) ==
    LET v == viewers[i]
        taken == [v EXCEPT !.commands = Tail(@)] IN
    /\ v.phase = "awaiting_insecure_confirmation"
    /\ v.result = "running" /\ ~v.cancel /\ v.commands # <<>>
    /\ CASE Head(v.commands) = "continue" ->
               Steps(i, [taken EXCEPT !.phase = "authenticating"])
         [] Head(v.commands) = "refuse" -> Steps(i, Ends(taken, "error"))
         [] OTHER -> Steps(i, taken)

(* ViewerEvent::Challenge: the first login carries the stored password.    *)
Challenge(i) ==
    LET v == viewers[i] IN
    /\ v.phase = "authenticating" /\ v.login = "none"
    /\ v.result = "running" /\ ~v.cancel
    /\ Steps(i, [v EXCEPT !.login = IF v.secret THEN "password" ELSE "empty"])

QuestionsAsked == MapThenSumSet(LAMBDA j : viewers[j].answers, DOMAIN viewers)

(* The login is accepted; a peer without a usable display ends instead.    *)
Accepted(v) == [Ends(v, "running") EXCEPT !.phase = "authenticated",
                                          !.feeder = "idle"]

(* What the peer may send while the dialogue runs, also while the viewer   *)
(* waits for its user.  Every error text the viewer does not know, and a   *)
(* lost connection, ends the session.                                      *)
PeerAnswers(i) ==
    LET v == viewers[i]
        asks(p) == [v EXCEPT !.phase = p, !.answers = @ + 1] IN
    /\ v.phase \in {"authenticating", "awaiting_approval"} \cup Waits
    /\ v.result = "running" /\ ~v.cancel
    /\ \/ Steps(i, Ends(v, "error"))
       \/ v.login # "none" /\ Steps(i, Accepted(v))
       \/ /\ v.login # "none" /\ v.answers < MaxAnswers /\ QuestionsAsked < MaxAnswers
          /\ \E p \in Waits \cup {"awaiting_approval"} : Steps(i, asks(p))

(* The dialogue reads a command only while it waits for one; a command of  *)
(* the wrong kind is dropped.                                              *)
Command(i) ==
    LET v == viewers[i]
        taken == [v EXCEPT !.commands = Tail(@)]
        sent == [taken EXCEPT !.phase = "authenticating"] IN
    /\ v.phase \in Waits /\ v.result = "running" /\ ~v.cancel
    /\ v.commands # <<>>
    /\ IF Head(v.commands) = "password" /\ v.phase = "awaiting_password"
       THEN Steps(i, [sent EXCEPT !.login = "password"])
       ELSE IF Head(v.commands) = "second_factor"
               /\ v.phase \in {"awaiting_2fa", "awaiting_2fa_retry"}
            THEN Steps(i, sent)
            ELSE Steps(i, taken)

(* The first video record makes the feeder open a decoder.                 *)
FirstRecord(i) ==
    LET v == viewers[i] IN
    /\ v.feeder = "idle" /\ ~v.cancel
    /\ Steps(i, [v EXCEPT !.phase = "opening_decoder", !.feeder = "waiting"])

(* SurfaceDecoder::open asks the lease for its surface and is refused the  *)
(* surface 0; the open itself may fail.  A close that arrived meanwhile    *)
(* does not keep the feeder from publishing the decoder it owns.           *)
Opens(i) ==
    LET v == viewers[i] IN
    /\ v.feeder = "waiting" /\ leases[v.lease] # "unbound"
    /\ \/ Steps(i, [RequestClose(v) EXCEPT !.feeder = "done", !.result = "error"])
       \/ /\ leases[v.lease] = "bound"
          /\ Steps(i, [v EXCEPT !.feeder = "open", !.phase = "decoding"])

(* A rendered picture: the snapshot reports "streaming" from now on.       *)
Renders(i) ==
    LET v == viewers[i] IN
    /\ v.feeder = "open" /\ v.phase = "decoding" /\ ~v.cancel
    /\ Steps(i, [v EXCEPT !.phase = "streaming"])

(* The connection ends: the first task to return closes the others.        *)
Disconnects(i) ==
    LET v == viewers[i] IN
    /\ v.feeder \in {"idle", "waiting", "open"} /\ v.result = "running"
    /\ ~v.cancel
    /\ \E r \in {"ok", "error"} : Steps(i, [RequestClose(v) EXCEPT !.result = r])

(* A cancelled login returns, and a cancelled feeder closes its decoder.   *)
Stops(i) ==
    LET v == viewers[i] IN
    /\ v.cancel
    /\ \/ v.feeder = "none" /\ v.result = "running" /\ Steps(i, Ends(v, "ok"))
       \/ /\ v.feeder \in {"idle", "open"}
          /\ Steps(i, [v EXCEPT !.feeder = "done",
                                !.result = IF @ = "running" THEN "ok" ELSE @])

(* State::finish, after `run` returned and the lease was dropped.          *)
Finishes(i) ==
    LET v == viewers[i] IN
    /\ v.result # "running" /\ v.feeder \in {"none", "done"} /\ ~v.closed
    /\ Steps(i, [v EXCEPT !.closed = TRUE,
                          !.phase = IF v.result = "ok" THEN "closed" ELSE "failed"])

LoginNext == \E i \in DOMAIN viewers :
    \/ Probes(i) \/ Connect(i) \/ Confirm(i) \/ Challenge(i) \/ PeerAnswers(i)
    \/ Command(i) \/ FirstRecord(i) \/ Opens(i) \/ Renders(i) \/ Disconnects(i)
    \/ Stops(i) \/ Finishes(i)

(* The executor runs every task that can move; peers and networks owe     *)
(* nothing.                                                                *)
LoginFairness == \A i \in 1..MaxViewers :
    /\ WF_loginVars(i \in DOMAIN viewers /\ Stops(i))
    /\ WF_loginVars(i \in DOMAIN viewers /\ Finishes(i))
    /\ WF_loginVars(i \in DOMAIN viewers /\ Opens(i))
=============================================================================
