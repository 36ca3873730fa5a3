----------------------------- MODULE HostConsole -----------------------------
(***************************************************************************)
(* The Windows host program (crates/rd-engine/src/bin/                     *)
(* rd-engine-windows-host.rs) on top of the host of module Host: the loop  *)
(* that polls the host's snapshot, shows a pending request, applies the    *)
(* operator's commands and leaves on "quit", on Ctrl+C and when the host   *)
(* has closed.                                                             *)
(*                                                                         *)
(* The snapshot is read once per turn, and a command line may have waited  *)
(* in the channel of the stdin thread: both may be old when the host is    *)
(* asked.  The operator answers requests that were shown.  With `owner` =  *)
(* "bridge" the host has the free user of module Host instead, which is    *)
(* how the OpenHarmony bridge drives it.                                   *)
(***************************************************************************)
EXTENDS Host, Sequences

CONSTANTS MaxLines      \* bound: lines waiting in the channel

ASSUME ConsoleAssumption == MaxLines \in Nat

VARIABLES owner,        \* who drives the host
          auto,         \* --test-auto-approve
          program,      \* where run() is
          view,         \* the turn's snapshot: the request and the closed flag
          lastRequest,  \* last_request
          shown,        \* history: the requests that were printed
          lines         \* the channel of the stdin thread

consoleVars == <<owner, auto, program, view, lastRequest, shown, lines>>
hostVars == vars

NoView == [request |-> 0, closed |-> FALSE]
Over == {"exited", "failed"}
Commands == {"approve", "deny"}

(* The types of the console's variables.                                   *)
ConsoleTypeOK ==
    /\ HostTypeOK
    /\ owner \in {"bridge", "program"} /\ auto \in BOOLEAN
    /\ program \in {"polling", "approving", "reading", "sleeping", "closing"} \cup Over
    /\ view \in [request : 0..MaxRequests, closed : BOOLEAN]
    /\ lastRequest \in 0..MaxRequests /\ shown \subseteq 1..MaxRequests

ConsoleInit ==
    /\ HostInit
    /\ owner \in {"bridge", "program"} /\ auto \in BOOLEAN
    /\ owner = "bridge" => ~auto
    /\ program = "polling" /\ view = NoView
    /\ lastRequest = 0 /\ shown = {} /\ lines = <<>>

-----------------------------------------------------------------------------
(* The operator types a line, which the stdin thread passes on: an answer  *)
(* to a request that was shown, however long ago, or "quit".               *)
OperatorTypes ==
    /\ owner = "program" /\ Len(lines) < MaxLines /\ program \notin Over
    /\ \E line \in [command : Commands, request : shown]
                   \cup {[command |-> "quit"]} :
          lines' = Append(lines, line)
    /\ UNCHANGED <<hostVars, owner, auto, program, view, lastRequest, shown>>

Turn(from, to) == /\ owner = "program" /\ program \in from /\ program' = to
                  /\ UNCHANGED <<owner, auto>>

(* The top of a turn: a request that differs from the last is printed.     *)
New == snapshot.request # 0 /\ snapshot.request # lastRequest

Polls ==
    /\ Turn({"polling", "sleeping"}, IF New /\ auto THEN "approving" ELSE "reading")
    /\ view' = [request |-> snapshot.request, closed |-> snapshot.closed]
    /\ lastRequest' = IF New THEN snapshot.request ELSE lastRequest
    /\ shown' = IF New THEN shown \cup {snapshot.request} ELSE shown
    /\ UNCHANGED <<hostVars, lines>>

Refused(e) == cancel \/ ~DecideAccepts(e)

(* --test-auto-approve: a request that has gone since ends the program and *)
(* drops the host.                                                         *)
AutoApproves ==
    \/ /\ Turn({"approving"}, "reading") /\ Decide(view.request, TRUE)
       /\ UNCHANGED <<view, lastRequest, shown, lines>>
    \/ /\ Turn({"approving"}, "failed") /\ ~due /\ Refused(view.request)
       /\ cancel' = TRUE
       /\ UNCHANGED <<taskVars, peerVars, grant, permit, unreclaimed, snapshot,
                      userVars, view, lastRequest, shown, lines>>

(* One line; an answer the host refuses is printed and forgotten.          *)
ReadsLine ==
    /\ lines # <<>> /\ lines' = Tail(lines)
    /\ \/ /\ Head(lines).command = "quit"
          /\ Turn({"reading"}, "closing") /\ CloseStarts
       \/ /\ Head(lines).command \in Commands /\ Turn({"reading"}, "reading")
          /\ \/ Decide(Head(lines).request, Head(lines).command = "approve")
             \/ ~due /\ Refused(Head(lines).request) /\ UNCHANGED hostVars
    /\ UNCHANGED <<view, lastRequest, shown>>

(* The end of a turn looks at the closed flag of its start.                *)
\* mutant
SleepsAlways ==
    /\ lines = <<>> /\ Turn({"reading"}, "sleeping")
    /\ UNCHANGED <<hostVars, view, lastRequest, shown, lines>>

Sleeps ==
    /\ lines = <<>>
    /\ Turn({"reading"}, IF view.closed THEN "exited" ELSE "sleeping")
    /\ view' = NoView
    /\ UNCHANGED <<hostVars, lastRequest, shown, lines>>

CtrlC ==
    /\ Turn({"sleeping"}, "closing") /\ CloseStarts
    /\ UNCHANGED <<view, lastRequest, shown, lines>>

ProgramCloses ==
    /\ Turn({"closing"}, "exited") /\ CloseReturns
    /\ UNCHANGED <<view, lastRequest, shown, lines>>

HostRuns == ServeNext \/ PeerNext \/ ReaderNext \/ SenderNext \/ ApproveNotifies

ConsoleNext ==
    \/ HostRuns /\ UNCHANGED consoleVars
    \/ (owner = "bridge" /\ UserNext) /\ UNCHANGED consoleVars
    \/ OperatorTypes \/ Polls \/ AutoApproves \/ ReadsLine \/ Sleeps
    \/ CtrlC \/ ProgramCloses

allVars == <<vars, consoleVars>>

(* The host's fairness, and the program's own turns.  A turn ends although *)
(* the operator keeps typing: no one types faster than the loop reads.     *)
ConsoleFairness ==
    /\ HostFairness
    /\ WF_allVars(Polls) /\ WF_allVars(AutoApproves) /\ WF_allVars(ReadsLine)
    /\ SF_allVars(Sleeps) /\ WF_allVars(ProgramCloses)

ConsoleSpec == ConsoleInit /\ [][ConsoleNext]_allVars /\ ConsoleFairness

-----------------------------------------------------------------------------
(* Properties                                                              *)

(* A peer is served only after the operator's answer to its own request,   *)
(* and a peer of the program only after that request was printed: an       *)
(* answer that waited in the channel while one request made room for the   *)
(* next never lets in a peer nobody was told of (rd-engine-windows-host.rs,*)
(* host.rs).                                                               *)
ServedWasShown ==
    /\ ServedWasApproved
    /\ (owner = "program" /\ task \in {"streaming", "joining"})
       => nextRequest \in shown

(* The next peer waits until the last one's tasks and publisher are        *)
(* confirmed gone, and close() does not claim what did not happen          *)
(* (host.rs).                                                              *)
HostIsTruthful == ConsoleTypeOK /\ ReclaimedBeforeNextPeer /\ CloseIsTruthful

(* A cancelled host ends, and the program ends once its host has closed    *)
(* and after "quit" or Ctrl+C (rd-engine-windows-host.rs).                 *)
ProgramEnds ==
    /\ CancelEndsHost
    /\ (owner = "program" /\ (snapshot.closed \/ program = "closing"))
       ~> program \in Over
=============================================================================
