----------------------------- MODULE MCFrontends -----------------------------
(***************************************************************************)
(* The instance of the two session registries that TLC checks: that of the *)
(* OpenHarmony library or that of the Flutter bridge, each on its viewers. *)
(* A program has one of the two, so a behaviour moves one and leaves the   *)
(* other as it starts.                                                     *)
(***************************************************************************)
EXTENDS OhosSession, FlutterSession

VARIABLE part      \* the registry of this program

ohosOnly == <<sessions, starts, gens>>

Init ==
    /\ part \in {"ohos", "flutter"}
    /\ viewers = <<>>
    /\ leases = IF part = "ohos" THEN [g \in 1..MaxGens |-> "unbound"] ELSE [l \in {1} |-> "none"]
    /\ sessions = [id \in Ids |-> NoSession] /\ starts = [t \in Starters |-> NoCall] /\ gens = 0
    /\ entry = NoEntry /\ heard = <<>> /\ pumps = [k \in 1..MaxStreams |-> "none"]
    /\ starting = [c \in Callers |-> Idle] /\ flutterAdds = 0
    /\ part = "ohos" => OhosInit
    /\ part = "flutter" => FlutterInit

Next ==
    \/ part = "ohos" /\ OhosNext /\ UNCHANGED <<part, flutterOnly>>
    \/ part = "flutter" /\ FlutterNext /\ UNCHANGED <<part, ohosOnly>>

(* The fairness of each registry, while it is the one that runs: see       *)
(* LoginFairness, OhosFairness and FlutterFairness.                        *)
Fairness ==
    /\ LoginFairness
    /\ \A t \in Starters : WF_ohosVars(part = "ohos" /\ (StartDials(t) \/ StartInstalls(t)))
    /\ \A i \in 1..MaxViewers : WF_ohosVars(
           /\ part = "ohos" /\ i \in DOMAIN viewers /\ viewers[i].cancel
           /\ VncSteps(i) /\ UNCHANGED ohosOnly)
    /\ \A k \in 1..MaxStreams : WF_flutterVars(part = "flutter" /\ Pump(k))
    /\ \A c \in Callers : WF_flutterVars(part = "flutter" /\ (StartViewer(c) \/ SpawnPump(c)))

Spec == Init /\ [][Next]_<<part, ohosVars, flutterOnly>> /\ Fairness

(* However the calls of one session interleave, a backend nobody answers   *)
(* for has been told to close, and a login that waits for a password has   *)
(* its question on the screen after the next poll (session_compat.rs,      *)
(* session_start, session_close, poll).                                    *)
SessionsAreKept ==
    /\ part = "ohos" => OhosTypeOK /\ NoStrayBackend /\ PollAsksPassword
    /\ part = "flutter" => FlutterTypeOK

(* A backend whose session was closed ends, whether or not a surface was   *)
(* ever bound (session_compat.rs, session_close).                          *)
ClosedBackendEnds == part = "ohos" => ClosedSessionEnds

(* A stream that was handed over is told when its viewer ends, however     *)
(* often it was replaced (flutter_session.rs, pump, collect).              *)
StreamIsTold == part = "flutter" => StreamHearsClose
=============================================================================
