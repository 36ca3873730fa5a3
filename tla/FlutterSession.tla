---------------------------- MODULE FlutterSession ----------------------------
(***************************************************************************)
(* The sessions behind the Flutter bridge                                  *)
(* (crates/rd-engine/src/flutter_session.rs, the session calls of          *)
(* flutter_ffi.rs and flutter_surface.rs) over the viewers of ViewerLogin. *)
(*                                                                         *)
(* session_start is three calls, each under the registry lock: attach the  *)
(* event stream, start the viewer, spawn an event pump.  A pump is a task  *)
(* that looks the session up by its id on every round, so it may serve a   *)
(* stream, or a session, other than the one it was spawned for.            *)
(*                                                                         *)
(* One session id is modelled; others share only MAX_SESSIONS with it.     *)
(* A password given to session_add_sync and moved into the viewer is not   *)
(* told apart from one given to session_login.                             *)
(***************************************************************************)
EXTENDS ViewerLogin

CONSTANTS Callers,      \* threads that may be inside session_start
          MaxStreams,   \* bound: session_start calls
          MaxAdds,      \* bound: session_add_sync calls
          MaxLogins     \* bound: viewers started, at most MaxViewers

ASSUME FlutterConstants == /\ MaxStreams \in Nat \ {0} /\ MaxAdds \in Nat \ {0}
                           /\ MaxLogins \in 1..MaxViewers

VARIABLES entry,        \* the session of the id, or NoEntry
          heard,        \* for every stream: was it told "close"
          pumps,        \* the pump spawned by every session_start
          starting,     \* where each caller is inside session_start
          flutterAdds

flutterOnly == <<entry, heard, pumps, starting, flutterAdds>>
flutterVars == <<viewers, leases, entry, heard, pumps, starting, flutterAdds>>

NoEntry == [exists |-> FALSE, viewer |-> 0, stream |-> 0]
NewEntry(direct) == [exists |-> TRUE, viewer |-> 0, stream |-> 0, direct |-> direct,
                     lastPhase |-> "none", info |-> FALSE, closeSent |-> FALSE,
                     asked |-> "none"]
Idle == [step |-> "none", stream |-> 0]

(* The type of the session, its streams and pumps.                         *)
FlutterTypeOK ==
    /\ LoginTypeOK /\ flutterAdds \in 0..MaxAdds
    /\ entry.viewer \in 0..Len(viewers) /\ entry.stream \in 0..Len(heard)
    /\ heard \in Seq(BOOLEAN) /\ Len(heard) <= MaxStreams
    /\ pumps \in [1..MaxStreams -> {"none", "look", "pump", "check", "done"}]
    /\ \A c \in Callers : starting[c].step \in {"none", "start", "spawn"}

(* The texture lease answers NO_SURFACE, which no decoder opens.           *)
FlutterInit == /\ viewers = <<>> /\ leases = [l \in {1} |-> "none"]
               /\ entry = NoEntry /\ heard = <<>>
               /\ pumps = [k \in 1..MaxStreams |-> "none"]
               /\ starting = [c \in Callers |-> Idle] /\ flutterAdds = 0

-----------------------------------------------------------------------------

SessionAddSync ==
    /\ ~entry.exists /\ flutterAdds < MaxAdds
    /\ \E direct \in BOOLEAN : entry' = NewEntry(direct)
    /\ flutterAdds' = flutterAdds + 1
    /\ UNCHANGED <<viewers, leases, heard, pumps, starting>>

(* session_close and session_reconnect: both remove the session.           *)
SessionRemove ==
    /\ entry.exists /\ entry' = NoEntry
    /\ viewers' = IF entry.viewer = 0 THEN viewers
                  ELSE [viewers EXCEPT ![entry.viewer] = RequestClose(@)]
    /\ UNCHANGED <<leases, heard, pumps, starting, flutterAdds>>

(* attach_stream ends the stream it replaces and asks for a new "close".   *)
\* mutant
AttachedKeepingMark(k) == [entry EXCEPT !.stream = k]

Attached(k) == [entry EXCEPT !.stream = k, !.closeSent = FALSE]

AttachStream(c) ==
    LET k == Len(heard) + 1 IN
    /\ starting[c] = Idle /\ entry.exists /\ k <= MaxStreams
    /\ entry' = Attached(k)
    /\ heard' = Append([s \in DOMAIN heard |-> heard[s] \/ s = entry.stream], FALSE)
    /\ starting' = [starting EXCEPT ![c] = [step |-> "start", stream |-> k]]
    /\ UNCHANGED <<viewers, leases, pumps, flutterAdds>>

(* start: an error (no session, a bad key, a refused viewer) ends the      *)
(* call with its stream attached and no pump spawned.                      *)
StartViewer(c) ==
    LET spawns == starting' = [starting EXCEPT ![c].step = "spawn"] IN
    /\ starting[c].step = "start"
    /\ UNCHANGED <<leases, heard, pumps, flutterAdds>>
    /\ \/ entry.viewer # 0 /\ spawns /\ UNCHANGED <<viewers, entry>>
       \/ /\ entry.viewer = 0 /\ starting' = [starting EXCEPT ![c] = Idle]
          /\ UNCHANGED <<viewers, entry>>
       \/ /\ entry.exists /\ entry.viewer = 0 /\ Len(viewers) < MaxLogins
          /\ viewers' = Append(viewers, Started(entry.direct, FALSE, 1))
          /\ entry' = [entry EXCEPT !.viewer = Len(viewers) + 1] /\ spawns

SpawnPump(c) ==
    /\ starting[c].step = "spawn"
    /\ pumps' = [pumps EXCEPT ![starting[c].stream] = "look"]
    /\ starting' = [starting EXCEPT ![c] = Idle]
    /\ UNCHANGED <<viewers, leases, entry, heard, flutterAdds>>

-----------------------------------------------------------------------------
(* A pump: look the session up, publish what changed, end after "close".   *)

FlutterAsking == Waits \cup {"awaiting_insecure_confirmation"}

(* collect: every question is asked on a change of phase only, and the     *)
(* connection is announced in the phase "authenticated" only.              *)
Collected(e, v) ==
    [e EXCEPT !.lastPhase = IF v.phase \in FlutterAsking THEN v.phase ELSE "none",
              !.info = @ \/ v.phase = "authenticated",
              !.closeSent = @ \/ v.closed,
              !.asked = IF v.phase \in FlutterAsking /\ v.phase # e.lastPhase
                        THEN v.phase ELSE @]

PumpLooks(k) ==
    /\ pumps[k] = "look"
    /\ pumps' = [pumps EXCEPT ![k] = IF entry.stream # 0 THEN "pump" ELSE "done"]
    /\ UNCHANGED <<viewers, leases, entry, heard, starting, flutterAdds>>

PumpPublishes(k) ==
    LET e == Collected(entry, viewers[entry.viewer]) IN
    /\ pumps[k] = "pump" /\ pumps' = [pumps EXCEPT ![k] = "check"]
    /\ IF entry.stream = 0 \/ entry.viewer = 0 THEN UNCHANGED <<entry, heard>>
       ELSE /\ entry' = e
            /\ heard' = [heard EXCEPT ![entry.stream] =
                            @ \/ (e.closeSent /\ ~entry.closeSent)]
    /\ UNCHANGED <<viewers, leases, starting, flutterAdds>>

PumpChecks(k) ==
    /\ pumps[k] = "check"
    /\ pumps' = [pumps EXCEPT ![k] = IF entry.exists /\ ~entry.closeSent
                                     THEN "look" ELSE "done"]
    /\ UNCHANGED <<viewers, leases, entry, heard, starting, flutterAdds>>

(* session_login, session_send2fa, session_set_common: what was asked last *)
(* is answered.                                                            *)
AnswerFor(phase) ==
    CASE phase = "awaiting_password" -> {"password"}
      [] phase \in {"awaiting_2fa", "awaiting_2fa_retry"} -> {"second_factor"}
      [] phase = "awaiting_insecure_confirmation" -> {"continue", "refuse"}
      [] OTHER -> {}

UserAnswers ==
    /\ entry.viewer # 0
    /\ \E a \in AnswerFor(entry.asked) :
          LET i == entry.viewer
              sent == IF CanSubmit(viewers[i]) THEN Submit(viewers[i], a) ELSE viewers[i] IN
          viewers' = [viewers EXCEPT ![i] = IF a = "refuse" THEN RequestClose(sent) ELSE sent]
    /\ entry' = [entry EXCEPT !.asked = "none"]
    /\ UNCHANGED <<leases, heard, pumps, starting, flutterAdds>>

Pump(k) == PumpLooks(k) \/ PumpPublishes(k) \/ PumpChecks(k)

FlutterNext ==
    \/ LoginNext /\ UNCHANGED flutterOnly
    \/ SessionAddSync \/ SessionRemove \/ UserAnswers
    \/ \E c \in Callers : AttachStream(c) \/ StartViewer(c) \/ SpawnPump(c)
    \/ \E k \in 1..MaxStreams : Pump(k)

(* The executor runs every pump; a call that was entered returns.          *)
FlutterFairness ==
    /\ LoginFairness
    /\ \A k \in 1..MaxStreams : WF_flutterVars(Pump(k))
    /\ \A c \in Callers : WF_flutterVars(StartViewer(c) \/ SpawnPump(c))

FlutterSpec == FlutterInit /\ [][FlutterNext]_flutterVars /\ FlutterFairness

-----------------------------------------------------------------------------
(* Properties                                                              *)

(* The stream of a session whose viewer has ended was not told so.         *)
Untold == \E k \in 1..MaxStreams :
    /\ entry.stream = k /\ entry.viewer # 0 /\ pumps[k] # "none"
    /\ viewers[entry.viewer].closed /\ ~heard[k]

(* A stream handed over by a session_start that succeeded is told "close"  *)
(* once the viewer has ended, however often the stream was replaced        *)
(* before and even when the viewer had ended before it was attached.       *)
StreamHearsClose == Untold ~> ~Untold
=============================================================================
