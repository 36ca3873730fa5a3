----------------------------- MODULE OhosSession -----------------------------
(***************************************************************************)
(* The stateful session API of the OpenHarmony bridge                      *)
(* (native/ohos_har/src/session_compat.rs) over the viewers of ViewerLogin *)
(* and the backends of crates/rd-engine/src/session_backend.rs.            *)
(*                                                                         *)
(* Calls arrive on several threads and take one registry lock, except      *)
(* session_start, which reads the session under the lock, starts its       *)
(* backend without it and takes it again to install the backend.  The      *)
(* frontend is what the polled events made of it: `prompt` is the question *)
(* on its screen, `ready` that its connection was announced.               *)
(*                                                                         *)
(* A VNC backend has no login; its phases are kept in the same record and  *)
(* VncClient models what happens inside it.  Settings, clipboard and       *)
(* display calls and what the frontend reads back of them are in           *)
(* SessionSettings, input in InputPath and ViewerInput.  The password of   *)
(* session_add reaches only a VNC backend, whose login is in VncClient.    *)
(***************************************************************************)
EXTENDS ViewerLogin

CONSTANTS Ids,          \* session names the frontend uses
          Targets,      \* kinds of target text, see parse_route
          Starters,     \* threads that may be inside session_start
          MaxSessions,  \* MAX_COMPAT_SESSIONS
          MaxGens,      \* bound: session_add calls
          MaxCalls      \* bound: session_add and session_start calls together

ASSUME OhosConstants == /\ Targets \subseteq {"vnc_url", "rdp_url", "bad_url",
                              "address", "zero_port", "ip", "id", "bad_id"}
                        /\ MaxSessions \in Nat \ {0} /\ MaxGens \in Nat \ {0}
                        /\ MaxCalls \in Nat

VARIABLES sessions,     \* the registry
          starts,       \* session_start calls between their two locks
          gens          \* generation_marker: sessions added so far

ohosVars == <<viewers, leases, sessions, starts, gens>>

NoSession == [gen |-> 0]
NoCall == [id |-> "none"]

(* `due`: prompted_login_attempts # login_attempts.                        *)
Session(route) ==
    [gen |-> gens + 1, route |-> route, viewer |-> 0,
     lastPhase |-> "none", due |-> TRUE, info |-> FALSE,
     closeEmitted |-> FALSE, prompt |-> "none"]

Live == {id \in Ids : sessions[id] # NoSession}

(* The adds and starts made so far, a refused start left out.              *)
CallsMade == gens + Len(viewers)
             + Cardinality({t \in Starters : starts[t] # NoCall /\ starts[t].viewer = 0})

(* The type of the registry.                                               *)
OhosTypeOK ==
    /\ LoginTypeOK
    /\ gens \in 0..MaxGens /\ DOMAIN leases = 1..MaxGens
    /\ \A id \in Live : /\ sessions[id].viewer \in 0..Len(viewers)
                        /\ sessions[id].gen \in 1..gens
    /\ \A t \in Starters :
          starts[t] = NoCall \/ starts[t].viewer \in 0..Len(viewers)

OhosInit == /\ viewers = <<>> /\ leases = [g \in 1..MaxGens |-> "unbound"]
            /\ sessions = [id \in Ids |-> NoSession]
            /\ starts = [t \in Starters |-> NoCall] /\ gens = 0

-----------------------------------------------------------------------------
(* Calls made whole under the registry lock.                               *)

(* A scheme names VNC or RDP, an address or an IP the direct route, any    *)
(* other acceptable text a peer ID; a scheme without a usable host is read *)
(* as a peer ID too, a port 0 is refused.                                  *)
parse_route(target) ==
    CASE target = "vnc_url" -> "vnc"
      [] target = "rdp_url" -> "rdp"
      [] target \in {"address", "ip"} -> "direct"
      [] target \in {"id", "bad_url"} -> "rendezvous"
      [] OTHER -> "none"

(* parse_route, the session limit and the refusal of a name in use.        *)
SessionAdd(id) ==
    /\ id \notin Live /\ Cardinality(Live) < MaxSessions
    /\ gens < MaxGens /\ CallsMade < MaxCalls
    /\ \E target \in Targets :
          /\ parse_route(target) # "none"
          /\ sessions' = [sessions EXCEPT ![id] = Session(parse_route(target))]
    /\ gens' = gens + 1
    /\ UNCHANGED <<viewers, leases, starts>>

(* DeferredSurfaceLease::bind keeps the first surface and refuses others.  *)
Bind(gen) == [leases EXCEPT ![gen] = "bound"]

BindSurface(id) ==
    /\ id \in Live /\ leases[sessions[id].gen] = "unbound"
    /\ leases' = Bind(sessions[id].gen)
    /\ UNCHANGED <<viewers, sessions, starts, gens>>

(* A command reaches the viewer of the session, when it has one.           *)
Asks(id, c, session) ==
    LET i == sessions[id].viewer IN
    /\ i # 0 /\ CanSubmit(viewers[i])
    /\ viewers' = [viewers EXCEPT ![i] = Submit(@, c)]
    /\ sessions' = [sessions EXCEPT ![id] = session]
    /\ UNCHANGED <<leases, starts, gens>>

Answered(s) == [s EXCEPT !.prompt = "none"]

SessionLogin(id) ==
    /\ id \in Live /\ sessions[id].prompt = "password"
    /\ Asks(id, "password", [Answered(sessions[id]) EXCEPT !.due = TRUE])

SessionSend2fa(id) ==
    /\ id \in Live /\ sessions[id].prompt = "second_factor"
    /\ Asks(id, "second_factor", Answered(sessions[id]))

(* session_set_common "continue-insecure-connection": a refusal is sent    *)
(* and also closes the backend.                                            *)
ContinueInsecure(id) ==
    /\ id \in Live /\ sessions[id].prompt = "insecure"
    /\ Asks(id, "continue", Answered(sessions[id]))

RefuseInsecure(id) ==
    LET i == sessions[id].viewer IN
    /\ id \in Live /\ sessions[id].prompt = "insecure" /\ i # 0
    /\ viewers' = [viewers EXCEPT ![i] =
            RequestClose(IF CanSubmit(@) THEN Submit(@, "refuse") ELSE @)]
    /\ sessions' = [sessions EXCEPT ![id] = Answered(sessions[id])]
    /\ UNCHANGED <<leases, starts, gens>>

(* Removing the session ends its lease and drops its backend.              *)
\* mutant
EndsLeaseNot(gen) == leases

EndsLease(gen) == [leases EXCEPT ![gen] = IF @ = "unbound" THEN "none" ELSE @]

SessionClose(id) ==
    LET s == sessions[id] IN
    /\ id \in Live
    /\ sessions' = [sessions EXCEPT ![id] = NoSession]
    /\ leases' = EndsLease(s.gen)
    /\ viewers' = IF s.viewer = 0 THEN viewers
                  ELSE [viewers EXCEPT ![s.viewer] = Drops(@)]
    /\ UNCHANGED <<starts, gens>>

-----------------------------------------------------------------------------
(* collect_engine_events: one poll of a session with a backend.            *)

Asking == Waits \cup {"awaiting_insecure_confirmation"}

(* A password is asked for again when the frontend answered since.         *)
\* mutant
PasswordDueOnChange(s, v) ==
    v.phase = "awaiting_password" /\ s.lastPhase # v.phase

PasswordDue(s, v) ==
    v.phase = "awaiting_password" /\ (s.lastPhase # v.phase \/ s.due)

PromptFor(s, v) ==
    CASE PasswordDue(s, v) -> "password"
      [] v.phase = "awaiting_insecure_confirmation" /\ s.lastPhase # v.phase -> "insecure"
      [] v.phase \in {"awaiting_2fa", "awaiting_2fa_retry"} /\ s.lastPhase # v.phase ->
           "second_factor"
      [] OTHER -> s.prompt

(* connection_ready and peer_info: a RustDesk session must be caught in    *)
(* the very phase "authenticated", a VNC session in either of its phases.  *)
AnnouncesNow(s, v) ==
    v.phase \in (IF s.route = "vnc" THEN {"connected", "streaming"}
                                    ELSE {"authenticated"})

(* last_engine_phase is compared in the asking phases only.                *)
Polled(s, v) ==
    [s EXCEPT !.due = @ /\ ~PasswordDue(s, v), !.info = @ \/ AnnouncesNow(s, v),
              !.closeEmitted = @ \/ v.closed,
              !.lastPhase = IF v.phase \in Asking THEN v.phase ELSE "none",
              !.prompt = PromptFor(s, v)]

PollEvents(id) ==
    LET s == sessions[id] IN
    /\ id \in Live /\ s.viewer # 0
    /\ sessions' = [sessions EXCEPT ![id] = Polled(s, viewers[s.viewer])]
    /\ UNCHANGED <<viewers, leases, starts, gens>>

-----------------------------------------------------------------------------
(* session_start in its three parts.                                       *)

(* First lock: the password leaves the session, its options are copied.    *)
StartBegins(t, id) ==
    /\ starts[t] = NoCall /\ id \in Live /\ sessions[id].viewer = 0
    /\ Len(viewers) < MaxViewers /\ CallsMade < MaxCalls
    /\ starts' = [starts EXCEPT ![t] =
           [id |-> id, gen |-> sessions[id].gen, route |-> sessions[id].route,
            step |-> "dial", viewer |-> 0]]
    /\ UNCHANGED <<viewers, leases, sessions, gens>>

(* Without the lock.  A forced relay or a bad rendezvous key is refused    *)
(* at once; the viewer of a RustDesk route starts without the password.    *)
StartDials(t) ==
    LET c == starts[t]
        started == IF c.route = "vnc"
                   THEN [Started(TRUE, FALSE, c.gen) EXCEPT
                            !.phase = "connected", !.feeder = "vnc"]
                   ELSE Started(c.route = "direct", FALSE, c.gen) IN
    /\ c # NoCall /\ c.step = "dial"
    /\ \/ starts' = [starts EXCEPT ![t] = NoCall] /\ UNCHANGED viewers
       \/ starts' = [starts EXCEPT ![t].step = "install"] /\ UNCHANGED viewers
       \/ /\ c.route # "rdp" /\ Len(viewers) < MaxViewers
          /\ viewers' = Append(viewers, started)
          /\ starts' = [starts EXCEPT ![t].step = "install",
                                      ![t].viewer = Len(viewers) + 1]
    /\ UNCHANGED <<leases, sessions, gens>>

(* Second lock: a removed session closes the new backend; an installed     *)
(* backend replaces, and so drops, the one another start installed.        *)
StartInstalls(t) ==
    LET c == starts[t]
        old == IF c.id \in Live THEN sessions[c.id].viewer ELSE c.viewer IN
    /\ c # NoCall /\ c.step = "install"
    /\ starts' = [starts EXCEPT ![t] = NoCall]
    /\ sessions' = IF c.id \in Live /\ c.viewer # 0
                   THEN [sessions EXCEPT ![c.id].viewer = c.viewer] ELSE sessions
    /\ viewers' = IF c.viewer # 0 /\ old # 0
                  THEN [viewers EXCEPT ![old] = Drops(@)] ELSE viewers
    /\ UNCHANGED <<leases, gens>>

-----------------------------------------------------------------------------
(* A VNC backend as its snapshot shows it: the first picture, the failure  *)
(* of its reader, and its end once asked to close.                         *)
VncSteps(i) ==
    LET v == viewers[i] IN
    /\ v.feeder = "vnc"
    /\ \/ /\ v.phase = "connected"
          /\ Steps(i, [v EXCEPT !.phase = "streaming"])
       \/ \E r \in {"ok", "error"} :
             Steps(i, [v EXCEPT !.feeder = "done", !.phase = "closed",
                                !.result = r, !.closed = TRUE])

OhosNext ==
    \/ (LoginNext \/ \E i \in DOMAIN viewers : VncSteps(i))
       /\ UNCHANGED <<sessions, starts, gens>>
    \/ \E id \in Ids : \/ SessionAdd(id) \/ BindSurface(id)
                       \/ SessionLogin(id) \/ SessionSend2fa(id)
                       \/ ContinueInsecure(id) \/ RefuseInsecure(id)
                       \/ SessionClose(id) \/ PollEvents(id)
    \/ \E t \in Starters : \/ \E id \in Ids : StartBegins(t, id)
                           \/ StartDials(t) \/ StartInstalls(t)

(* A call that was entered returns.                                        *)
OhosFairness ==
    /\ LoginFairness
    /\ \A t \in Starters : WF_ohosVars(StartDials(t) \/ StartInstalls(t))
    /\ \A i \in 1..MaxViewers : WF_ohosVars(
           i \in DOMAIN viewers /\ viewers[i].cancel /\ VncSteps(i)
           /\ UNCHANGED <<sessions, starts, gens>>)

OhosSpec == OhosInit /\ [][OhosNext]_ohosVars /\ OhosFairness

-----------------------------------------------------------------------------
(* Properties                                                              *)

(* Backends a session or a running session_start still answers for.        *)
Owned == {sessions[id].viewer : id \in Live}
         \cup {starts[t].viewer : t \in {u \in Starters : starts[u] # NoCall}}

(* However session_start, session_close and session_add of one name        *)
(* interleave, a backend nobody answers for has been told to close: none   *)
(* keeps running behind a frontend that cannot reach it.                   *)
NoStrayBackend == \A i \in DOMAIN viewers :
    i \notin Owned => viewers[i].cancel \/ viewers[i].closed

(* The backend of a session as the next poll will find it.                 *)
Shown(id) == Polled(sessions[id], viewers[sessions[id].viewer])
Polling == {id \in Live : sessions[id].viewer # 0}

(* A poll that finds the login waiting for a password, with no answer on   *)
(* its way, leaves the password question on the frontend's screen, also    *)
(* when the peer refused one password and asked again between two polls.   *)
PollAsksPassword == \A id \in Polling :
    LET v == viewers[sessions[id].viewer] IN
    (v.phase = "awaiting_password" /\ v.commands = <<>>)
    => Shown(id).prompt = "password"

(* Backends of closed sessions that still run.                             *)
Ending == {i \in DOMAIN viewers :
              /\ i \notin Owned /\ ~viewers[i].closed
              /\ \A id \in Live : sessions[id].gen # viewers[i].lease}

(* A feeder that waits for a surface cannot see its cancellation, so       *)
(* session_close must wake it: a backend whose session was closed ends,    *)
(* whether or not the frontend ever bound a surface.                       *)
ClosedSessionEnds == (Ending # {}) ~> (Ending = {})
=============================================================================
