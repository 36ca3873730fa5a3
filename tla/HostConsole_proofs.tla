------------------------- MODULE HostConsole_proofs -------------------------
(***************************************************************************)
(* Safety of the host and of the program that drives it, for every number  *)
(* of peers, events, control slots and waiting lines: a peer that is       *)
(* served was approved and, by the program, shown; the next one waits      *)
(* until the last is reclaimed; close() claims only what happened.         *)
(***************************************************************************)
EXTENDS HostConsole, TLAPS

(* A decision is only ever about the current request, and outside the      *)
(* authentication there is none: an old grant cannot be moved to a new     *)
(* epoch (serve, peer: clear_request).                                     *)
GrantInv ==
    /\ task # "authenticating" => grant = NoGrant
    /\ grant.epoch \in {0, nextRequest}
    /\ grant.decision # "none" => grant.epoch # 0
    /\ grant.decision = "allow" => grant.epoch \in approved

(* What the sender's progress says of the native publisher, and the task's *)
(* of both; `unreclaimed' is on its way to the end of the task.            *)
TasksInv ==
    /\ task \in {"streaming", "joining"} => reader # "none" /\ sender # "none"
    /\ task \notin {"streaming", "joining"} => reader = "none" /\ sender = "none"
    /\ sender = "none" /\ task # "ended" => publisher \in {"none", "closed"}
    /\ sender = "spawned" => publisher = "none"
    /\ sender \in {"ok", "failed"} => publisher \in {"none", "closed"}
    /\ unreclaimed => sender = "unconfirmed" \/ task = "ended"

(* The final snapshot tells whether everything was given back.             *)
EndInv ==
    /\ snapshot.closed => task = "ended" /\ ~unreclaimed
    /\ task = "ended" /\ snapshot.closed => publisher \in {"none", "closed"}

HostInv == HostTypeOK /\ GrantInv /\ TasksInv /\ EndInv /\ ServedWasApproved /\ CloseIsTruthful

(* What may wait in the channel when `seen' was shown.                     *)
Lines(seen) == [command : Commands, request : seen] \cup {[command |-> "quit"]}

(* What waits to be acted on was shown: the lines in the channel, the      *)
(* request of this turn, and the answer the host has taken.                *)
ShownInv ==
    /\ lines \in Seq(Lines(shown))
    /\ program = "approving" => view.request \in shown
    /\ owner = "program" /\ grant.decision = "allow" => grant.epoch \in shown

ConsoleInv == HostInv /\ ConsoleTypeOK /\ ShownInv /\ ServedWasShown

-----------------------------------------------------------------------------
(* What the tails of a peer's service do to the grant and the snapshot.    *)
LEMMA GrantFields ==
    /\ NoGrant \in Grants
    /\ \A g \in Grants : g.epoch \in 0..MaxRequests /\ g.decision \in {"none", "allow", "deny"}
  BY HostAssumption DEF Grants, NoGrant

LEMMA ListenAgainFields ==
    ASSUME snapshot \in Snapshots, NEW error \in Errors, ListenAgain(error)
    PROVE  /\ task' = "listening" /\ grant' = NoGrant
           /\ snapshot' \in Snapshots /\ snapshot'.closed = snapshot.closed
  <1> DEFINE s1 == [snapshot EXCEPT !.phase = "listening"]
             s2 == [s1 EXCEPT !.connected = FALSE]
             s3 == [s2 EXCEPT !.request = 0]
             s4 == [s3 EXCEPT !.error = IF error = "none" THEN snapshot.error ELSE error]
  <1>1. s1 \in Snapshots /\ s1.closed = snapshot.closed
      BY DEF Snapshots
  <1> HIDE DEF s1
  <1>2. s2 \in Snapshots /\ s2.closed = snapshot.closed  BY <1>1 DEF Snapshots
  <1> HIDE DEF s2
  <1>3. s3 \in Snapshots /\ s3.closed = snapshot.closed  BY <1>2, HostAssumption DEF Snapshots
  <1> HIDE DEF s3
  <1>4. s4 \in Snapshots /\ s4.closed = snapshot.closed  BY <1>3 DEF Snapshots, Errors
  <1>5. snapshot' = s4  BY Zenon DEF ListenAgain, s1, s2, s3, s4
  <1> HIDE DEF s4
  <1> QED  BY <1>4, <1>5 DEF ListenAgain

LEMMA TaskEndsFields ==
    ASSUME snapshot \in Snapshots, NEW error \in Errors, NEW lost \in BOOLEAN, TaskEnds(error, lost)
    PROVE  /\ task' = "ended" /\ grant' = NoGrant /\ unreclaimed' = lost
           /\ snapshot' \in Snapshots /\ snapshot'.closed = ~lost
  BY HostAssumption DEF TaskEnds, Snapshots, Errors

LEMMA PeerStartsFields ==
    ASSUME snapshot \in Snapshots, PeerStarts
    PROVE  /\ snapshot' \in Snapshots /\ snapshot'.closed = snapshot.closed
           /\ grant' = NoGrant /\ session' = "none"
           /\ \/ task' = "listening" /\ UNCHANGED <<keyboard, peerVars>>
              \/ /\ task' = "streaming" /\ keyboard' \in BOOLEAN /\ sessionCancel' = FALSE
                 /\ reader' = "running" /\ sender' = "spawned"
                 /\ control' = 0 /\ publisher' = "none" /\ message' = "none"
  <1>1. CASE ListenAgain("failed") /\ UNCHANGED <<keyboard, peerVars>>
      BY <1>1, ListenAgainFields DEF PeerStarts, Errors
  <1>2. CASE task' = "streaming"
    <2>1. snapshot' = [snapshot EXCEPT !.phase = "awaiting_capture_consent",
                                       !.connected = TRUE, !.request = 0]
        BY <1>2 DEF PeerStarts, ListenAgain
    <2> DEFINE s1 == [snapshot EXCEPT !.phase = "awaiting_capture_consent"]
               s2 == [s1 EXCEPT !.connected = TRUE]
    <2>2. s1 \in Snapshots /\ s1.closed = snapshot.closed  BY DEF Snapshots
    <2> HIDE DEF s1
    <2>3. s2 \in Snapshots /\ s2.closed = snapshot.closed  BY <2>2 DEF Snapshots
    <2>4. snapshot' = [s2 EXCEPT !.request = 0]  BY <2>1, Zenon DEF s1
    <2> HIDE DEF s2
    <2>5. snapshot' \in Snapshots /\ snapshot'.closed = snapshot.closed
        BY <2>3, <2>4, HostAssumption DEF Snapshots
    <2> QED  BY <1>2, <2>5, HostAssumption DEF PeerStarts, ListenAgain
  <1> QED  BY <1>1, <1>2 DEF PeerStarts

LEMMA ProviderAskedFields ==
    ASSUME HostInv, task = "authenticating", ProviderAsked
    PROVE  /\ snapshot' \in Snapshots /\ snapshot'.closed = snapshot.closed
           /\ grant' \in Grants /\ session' \in {"none", "AwaitApproval"}
           /\ \/ /\ grant'.epoch = nextRequest /\ grant'.decision = "none"
                 /\ UNCHANGED <<task, keyboard, peerVars>>
              \/ /\ grant' = NoGrant /\ task' = "listening"
                 /\ UNCHANGED <<keyboard, peerVars>>
              \/ /\ grant' = NoGrant /\ grant.decision = "allow" /\ grant.epoch = nextRequest
                 /\ task' = "streaming" /\ keyboard' \in BOOLEAN /\ sessionCancel' = FALSE
                 /\ reader' = "running" /\ sender' = "spawned"
                 /\ control' = 0 /\ publisher' = "none" /\ message' = "none"
  <1> USE DEF HostInv, HostTypeOK, GrantInv
  <1>1. CASE Decision = "none" /\ session' = "AwaitApproval"
    <2>1. /\ grant' = [grant EXCEPT !.epoch = nextRequest]
          /\ snapshot' = [snapshot EXCEPT !.phase = "awaiting_approval", !.request = nextRequest]
          /\ UNCHANGED <<task, keyboard, peerVars>>
      BY <1>1 DEF ProviderAsked, PeerStarts, AuthenticationEnds
    <2>2. grant.decision = "none"
      BY <1>1, GrantFields DEF Decision
    <2>3. snapshot' \in Snapshots /\ snapshot'.closed = snapshot.closed
      BY <2>1 DEF Snapshots
    <2>4. grant' \in Grants /\ grant'.epoch = nextRequest /\ grant'.decision = "none"
      BY <2>1, <2>2 DEF Grants
    <2> QED  BY <1>1, <2>1, <2>3, <2>4
  <1>2. CASE Decision = "allow" /\ PeerStarts
    <2>1. grant.epoch = nextRequest /\ grant.decision = "allow"
      BY <1>2 DEF Decision
    <2> QED  BY <1>2, <2>1, PeerStartsFields, GrantFields
  <1>3. CASE AuthenticationEnds("denied")
    BY <1>3, ListenAgainFields, GrantFields DEF AuthenticationEnds, Errors
  <1> QED  BY <1>1, <1>2, <1>3 DEF ProviderAsked

LEMMA AskedKeepsInv ==
    ASSUME HostInv, task = "authenticating", ProviderAsked,
           events' \in 0..MaxEvents, permit' \in BOOLEAN,
           UNCHANGED <<cancel, nextRequest, unreclaimed, userVars>>
    PROVE  HostInv'
  <1> DEFINE Shown == /\ grant'.epoch = nextRequest /\ grant'.decision = "none"
                      /\ UNCHANGED <<task, keyboard, peerVars>>
             Refusal == /\ grant' = NoGrant /\ task' = "listening"
                        /\ UNCHANGED <<keyboard, peerVars>>
             Served == /\ grant' = NoGrant /\ grant.decision = "allow" /\ grant.epoch = nextRequest
                       /\ task' = "streaming" /\ keyboard' \in BOOLEAN /\ sessionCancel' = FALSE
                       /\ reader' = "running" /\ sender' = "spawned"
                       /\ control' = 0 /\ publisher' = "none" /\ message' = "none"
  <1>6. Shown \/ Refusal \/ Served  BY ProviderAskedFields
  <1> USE HostAssumption
      DEF HostInv, HostTypeOK, GrantInv, TasksInv, EndInv, ServedWasApproved, CloseIsTruthful,
          peerVars, userVars
  <1>1. /\ snapshot' \in Snapshots /\ snapshot'.closed = snapshot.closed
        /\ grant' \in Grants /\ session' \in {"none", "AwaitApproval"}
      BY ProviderAskedFields
  <1>2. NoGrant.epoch = 0 /\ NoGrant.decision = "none"
      BY DEF NoGrant
  <1>3. CASE Shown    BY <1>1, <1>3
  <1>4. CASE Refusal  BY <1>1, <1>2, <1>4
  <1>5. CASE Served
    <2>1. sessionCancel' \in BOOLEAN /\ keyboard' \in BOOLEAN  BY <1>5
    <2>2. GrantInv' /\ TasksInv' /\ EndInv'  BY <1>1, <1>2, <1>5
    <2>3. ServedWasApproved' /\ CloseIsTruthful'  BY <1>5
    <2> HIDE DEF GrantInv, TasksInv, EndInv, ServedWasApproved, CloseIsTruthful
    <2>4. HostTypeOK'  BY <1>1, <1>5, <2>1
    <2> QED  BY <2>2, <2>3, <2>4
  <1> QED  BY <1>3, <1>4, <1>5, <1>6

-----------------------------------------------------------------------------
(* The steps of serve() and of authenticate() keep the host's invariant.   *)
LEMMA ServeKeepsInv ==
    ASSUME HostInv, ServeNext \/ PeerNext
    PROVE  HostInv'
  <1> USE HostAssumption, GrantFields
      DEF HostInv, HostTypeOK, GrantInv, TasksInv, EndInv, ServedWasApproved, CloseIsTruthful,
          taskVars, peerVars, userVars
  <1>none. NoGrant.epoch = 0 /\ NoGrant.decision = "none"
      BY DEF NoGrant
  <1>1. CASE ServeStarts
    <2>1. CASE ListenAgain("none") /\ UNCHANGED unreclaimed
      <3>1. /\ task' = "listening" /\ grant' = NoGrant
            /\ snapshot' \in Snapshots /\ snapshot'.closed = snapshot.closed
          BY <2>1, ListenAgainFields DEF Errors
      <3> QED  BY <1>1, <1>none, <2>1, <3>1 DEF ServeStarts
    <2>2. CASE TaskEnds("failed", unreclaimed)
      <3>1. /\ task' = "ended" /\ grant' = NoGrant /\ unreclaimed' = unreclaimed
            /\ snapshot' \in Snapshots /\ snapshot'.closed = ~unreclaimed
          BY <2>2, TaskEndsFields DEF Errors
      <3> QED  BY <1>1, <1>none, <3>1 DEF ServeStarts
    <2> QED  BY <1>1, <2>1, <2>2 DEF ServeStarts
  <1>2. CASE ServeStops
    <2>1. /\ task' = "ended" /\ grant' = NoGrant /\ unreclaimed' = unreclaimed
          /\ snapshot' \in Snapshots /\ snapshot'.closed = ~unreclaimed
        BY <1>2, TaskEndsFields DEF ServeStops, Errors
    <2> QED  BY <1>2, <1>none, <2>1 DEF ServeStops
  <1>3. CASE Accept
    <2> DEFINE s1 == [snapshot EXCEPT !.phase = "authenticating"]
               s2 == [s1 EXCEPT !.error = "none"]
    <2>1. s1 \in Snapshots /\ s1.closed = snapshot.closed  BY DEF Snapshots
    <2> HIDE DEF s1
    <2>2. s2 \in Snapshots /\ s2.closed = snapshot.closed  BY <2>1 DEF Snapshots, Errors
    <2>3. snapshot' = [s2 EXCEPT !.request = 0]  BY <1>3, Zenon DEF Accept, s1
    <2> HIDE DEF s2
    <2>4. snapshot' \in Snapshots /\ snapshot'.closed = snapshot.closed
        BY <2>2, <2>3 DEF Snapshots
    <2> QED  BY <1>3, <1>none, <2>4 DEF Accept
  <1>4. CASE ApprovalPolled
    <2>0. permit' = FALSE  BY <1>4 DEF ApprovalPolled
    <2>4. events' \in 0..MaxEvents
        BY <1>4 DEF ApprovalPolled, Authenticating
    <2>1. /\ task = "authenticating" /\ permit' \in BOOLEAN
          /\ UNCHANGED <<cancel, nextRequest, unreclaimed, userVars>>
        BY <1>4, <2>0 DEF ApprovalPolled, Authenticating
    <2>2. CASE ProviderAsked
        BY <2>1, <2>2, <2>4, AskedKeepsInv
    <2>3. CASE UNCHANGED <<task, session, keyboard, snapshot, grant, peerVars>>
        BY <2>1, <2>3, <2>4
    <2> QED  BY <1>4, <2>2, <2>3 DEF ApprovalPolled
  <1>5. CASE AuthenticationStops
      BY <1>5, <1>none, ListenAgainFields DEF AuthenticationStops, AuthenticationEnds, Errors
  <1>6. CASE PeerCancels
      BY <1>6 DEF PeerCancels
  <1>7. CASE PeerJoins
    <2>1. PeerOutcome \in Errors
      BY DEF PeerOutcome, Errors
    <2>2. /\ task = "joining" /\ reader' = "none" /\ sender' = "none" /\ control' = 0
          /\ UNCHANGED <<cancel, sessionCancel, nextRequest, session, events, keyboard,
                         permit, publisher, message, userVars>>
          /\ sender \in {"ok", "failed", "unconfirmed", "panicked"}
        BY <1>7 DEF PeerJoins, SenderDone
    <2>3. CASE TaskEnds("unconfirmed", TRUE)
      <3>1. /\ task' = "ended" /\ grant' = NoGrant /\ unreclaimed' = TRUE
            /\ snapshot' \in Snapshots /\ ~snapshot'.closed
          BY <2>3, TaskEndsFields DEF Errors
      <3> QED  BY <1>none, <2>2, <3>1
    <2>4. CASE /\ sender \notin {"unconfirmed", "panicked"}
               /\ ListenAgain(PeerOutcome) /\ UNCHANGED unreclaimed
      <3>1. /\ task' = "listening" /\ grant' = NoGrant
            /\ snapshot' \in Snapshots /\ snapshot'.closed = snapshot.closed
          BY <2>1, <2>4, ListenAgainFields
      <3> QED  BY <1>none, <2>2, <2>4, <3>1
    <2> QED  BY <1>7, <2>3, <2>4 DEF PeerJoins
  <1>8. CASE PeerLogin
      BY <1>8, AskedKeepsInv DEF PeerLogin, Authenticating
  <1>9. CASE PeerChatter
      BY <1>9 DEF PeerChatter, Authenticating
  <1> QED
      BY <1>1, <1>2, <1>3, <1>4, <1>5, <1>6, <1>7, <1>8, <1>9 DEF ServeNext, PeerNext

(* So do those of the two tasks of a peer.                                 *)
LEMMA TasksKeepInv ==
    ASSUME HostInv, ReaderNext \/ SenderNext
    PROVE  HostInv'
  <1> USE HostAssumption
      DEF HostInv, HostTypeOK, GrantInv, TasksInv, EndInv, ServedWasApproved, CloseIsTruthful,
          taskVars, userVars, ReaderStep, SenderStep
  <1>1. CASE ReaderCancelled  BY <1>1 DEF ReaderCancelled
  <1>2. CASE ReaderFinishes   BY <1>2 DEF ReaderFinishes
  <1>3. CASE ReaderFails      BY <1>3 DEF ReaderFails
  <1>4. CASE ReaderForwards
    <2>1. control' \in 0..ControlSlots /\ message' = "control"
          /\ reader = "running" /\ reader' \in {"running", "failed"}
        BY <1>4 DEF ReaderForwards
    <2>2. UNCHANGED <<cancel, taskVars, sender, publisher, sessionCancel, grant, permit,
                      unreclaimed, snapshot, userVars>>
        BY <1>4 DEF ReaderForwards
    <2> QED  BY <2>1, <2>2
  <1>5. CASE ReaderInput      BY <1>5 DEF ReaderInput
  <1>6. CASE SenderBegins
    <2>1. CASE SenderStep("spawned", "ok") /\ UNCHANGED publisher
        BY <1>6, <2>1 DEF SenderBegins
    <2>2. CASE SenderStep("spawned", "opening") /\ publisher' = "opening"
        BY <1>6, <2>2 DEF SenderBegins
    <2> QED  BY <1>6, <2>1, <2>2 DEF SenderBegins
  <1>7. CASE PublisherOpens
    <2>1. CASE SenderStep("opening", "running") /\ publisher' = "open" /\ UNCHANGED unreclaimed
        BY <1>7, <2>1 DEF PublisherOpens
    <2>2. CASE SenderStep("opening", "failed") /\ publisher' = "closed" /\ UNCHANGED unreclaimed
        BY <1>7, <2>2 DEF PublisherOpens
    <2>3. CASE /\ SenderStep("opening", "unconfirmed")
               /\ publisher' = "unknown" /\ unreclaimed' = TRUE
        BY <1>7, <2>3 DEF PublisherOpens
    <2> QED  BY <1>7, <2>1, <2>2, <2>3 DEF PublisherOpens
  <1>8. CASE SenderCancelled  BY <1>8 DEF SenderCancelled
  <1>9. CASE SenderControl
    <2>1. control' \in 0..ControlSlots
          /\ sender = "running" /\ sender' \in {"running", "closingFailed", "closingOk"}
        BY <1>9 DEF SenderControl
    <2>2. UNCHANGED <<cancel, taskVars, reader, message, sessionCancel, grant, permit,
                      userVars, publisher, unreclaimed, snapshot>>
        BY <1>9 DEF SenderControl
    <2> QED  BY <2>1, <2>2
  <1>10. CASE SenderUnit
    <2>1. snapshot' \in Snapshots /\ snapshot'.closed = snapshot.closed
      BY <1>10 DEF SenderUnit, Snapshots
    <2> QED  BY <1>10, <2>1 DEF SenderUnit
  <1>11. CASE PublisherCloses
    <2>1. /\ sender \in {"closingOk", "closingFailed"}
          /\ UNCHANGED <<cancel, taskVars, reader, message, sessionCancel, grant, permit,
                         userVars, control, snapshot>>
        BY <1>11 DEF PublisherCloses
    <2>2. CASE sender' \in {"ok", "failed"} /\ publisher' = "closed" /\ UNCHANGED unreclaimed
        BY <2>1, <2>2
    <2>3. CASE sender' = "unconfirmed" /\ publisher' = "unknown" /\ unreclaimed' = TRUE
        BY <2>1, <2>3
    <2> QED  BY <1>11, <2>2, <2>3 DEF PublisherCloses
  <1>12. CASE SenderPanics
    <2>1. /\ sender \in {"opening", "running", "closingOk", "closingFailed"}
          /\ sender' = "panicked" /\ publisher' = "unknown"
          /\ UNCHANGED <<cancel, taskVars, reader, message, sessionCancel, grant, permit,
                         userVars, control, unreclaimed, snapshot>>
        BY <1>12 DEF SenderPanics
    <2> QED  BY <2>1
  <1> QED
      BY <1>1, <1>2, <1>3, <1>4, <1>5, <1>6, <1>7, <1>8, <1>9, <1>10, <1>11, <1>12
      DEF ReaderNext, SenderNext

(* And those of the user: a decision is about the request it names.        *)
LEMMA DecideKeepsInv ==
    ASSUME HostInv, NEW e, NEW allow \in BOOLEAN, Decide(e, allow)
    PROVE  HostInv'
  <1> USE HostAssumption DEF HostInv, HostTypeOK, GrantInv
  <1>1. /\ grant' \in Grants /\ grant'.epoch = grant.epoch /\ grant.epoch = e /\ e # 0
        /\ grant'.decision = IF allow THEN "allow" ELSE "deny"
      BY DEF Decide, DecideAccepts, Grants
  <1>2. grant # NoGrant
      BY <1>1 DEF NoGrant
  <1>3. approved' = IF allow THEN approved \cup {e} ELSE approved
      BY DEF Decide
  <1>4. e \in 1..MaxRequests
      BY <1>1, GrantFields, HostAssumption
  <1>5. approved' \subseteq 1..MaxRequests
      BY <1>3, <1>4
  <1> QED
      BY <1>1, <1>2, <1>3, <1>5
      DEF Decide, TasksInv, EndInv, ServedWasApproved, CloseIsTruthful, taskVars, peerVars

LEMMA UserKeepsInv ==
    ASSUME HostInv, UserNext \/ ApproveNotifies
    PROVE  HostInv'
  <1>1. CASE Approve          BY <1>1, DecideKeepsInv DEF Approve
  <1> USE HostAssumption
      DEF HostInv, HostTypeOK, GrantInv, TasksInv, EndInv, ServedWasApproved, CloseIsTruthful,
          taskVars, peerVars, userVars
  <1>2. CASE ApproveNotifies
    <2>1. due' \in BOOLEAN /\ permit' \in BOOLEAN  BY <1>2 DEF ApproveNotifies
    <2> QED  BY <1>2, <2>1 DEF ApproveNotifies
  <1>3. CASE RequestClose     BY <1>3 DEF RequestClose
  <1>4. CASE CloseStarts      BY <1>4 DEF CloseStarts
  <1>5. CASE CloseAbandoned   BY <1>5 DEF CloseAbandoned
  <1>6. CASE CloseReturns     BY <1>6 DEF CloseReturns
  <1> QED
      BY <1>1, <1>2, <1>3, <1>4, <1>5, <1>6 DEF UserNext

LEMMA HostStepKeepsInv ==
    ASSUME HostInv, HostRuns \/ UserNext
    PROVE  HostInv'
  BY ServeKeepsInv, TasksKeepInv, UserKeepsInv DEF HostRuns

-----------------------------------------------------------------------------
(* No step of the host itself approves anything, and it serves a request   *)
(* only on the decision it was given about it.                             *)
LEMMA HostServesTheApproved ==
    ASSUME HostInv, HostRuns
    PROVE  /\ grant'.decision = "allow" => grant'.epoch = grant.epoch /\ grant.decision = "allow"
           /\ task' \in {"streaming", "joining"} =>
                \/ task \in {"streaming", "joining"} /\ nextRequest' = nextRequest
                \/ /\ grant.decision = "allow" /\ grant.epoch = nextRequest
                   /\ nextRequest' = nextRequest
  <1>none. NoGrant.decision = "none"  BY DEF NoGrant
  <1>1. CASE ServeStarts
      BY <1>1, <1>none DEF ServeStarts, ListenAgain, TaskEnds
  <1>2. CASE ServeStops
      BY <1>2, <1>none DEF ServeStops, TaskEnds
  <1>3. CASE Accept
      BY <1>3, <1>none DEF Accept
  <1>4. CASE ApprovalPolled
      BY <1>4, <1>none, ProviderAskedFields DEF ApprovalPolled, Authenticating
  <1>5. CASE AuthenticationStops
      BY <1>5, <1>none DEF AuthenticationStops, AuthenticationEnds, ListenAgain
  <1>6. CASE PeerCancels
      BY <1>6 DEF PeerCancels
  <1>7. CASE PeerJoins
      BY <1>7, <1>none DEF PeerJoins, TaskEnds, ListenAgain
  <1>8. CASE PeerLogin
      BY <1>8, <1>none, ProviderAskedFields DEF PeerLogin, Authenticating
  <1>9. CASE PeerChatter
      BY <1>9 DEF PeerChatter
  <1>10. CASE ReaderNext
      BY <1>10
      DEF ReaderNext, ReaderCancelled, ReaderFinishes, ReaderFails, ReaderForwards, ReaderInput,
          ReaderStep, taskVars
  <1>11. CASE SenderNext
      BY <1>11
      DEF SenderNext, SenderBegins, PublisherOpens, SenderCancelled, SenderControl, SenderUnit,
          PublisherCloses, SenderPanics, SenderStep, taskVars
  <1>12. CASE ApproveNotifies
      BY <1>12 DEF ApproveNotifies, taskVars
  <1> QED
      BY <1>1, <1>2, <1>3, <1>4, <1>5, <1>6, <1>7, <1>8, <1>9, <1>10, <1>11, <1>12
      DEF HostRuns, ServeNext, PeerNext

(* The host's own steps keep what the program knows of it.                 *)
LEMMA HostKeepsConsole ==
    ASSUME ConsoleInv, HostRuns \/ (owner = "bridge" /\ UserNext), UNCHANGED consoleVars
    PROVE  ConsoleInv'
  <1>1. HostInv'
      BY HostStepKeepsInv DEF ConsoleInv
  <1>2. UNCHANGED <<owner, auto, program, view, lastRequest, shown, lines>>
      BY DEF consoleVars
  <1>3. ConsoleTypeOK'
      BY <1>1, <1>2 DEF ConsoleInv, ConsoleTypeOK, HostInv
  <1>4. CASE owner = "bridge"
      BY <1>1, <1>2, <1>3, <1>4 DEF ConsoleInv, ShownInv, ServedWasShown, HostInv
  <1>5. CASE HostRuns
    <2>1. ShownInv'
        BY <1>2, <1>5, HostServesTheApproved DEF ConsoleInv, ShownInv
    <2>2. ServedWasShown'
        BY <1>1, <1>2, <1>5, HostServesTheApproved DEF ConsoleInv, ShownInv, ServedWasShown, HostInv
    <2> QED  BY <1>1, <1>3, <2>1, <2>2 DEF ConsoleInv
  <1> QED  BY <1>4, <1>5

-----------------------------------------------------------------------------
(* The program's steps.                                                    *)
(* What is shown stays shown, so lines stay lines.                         *)
LEMMA LinesGrow ==
    ASSUME NEW a, NEW b, a \subseteq b, NEW s \in Seq(Lines(a))
    PROVE  s \in Seq(Lines(b))
  <1>1. Lines(a) \subseteq Lines(b)
      BY DEF Lines
  <1> QED  BY <1>1

(* An answer the host takes is about the request of its grant.             *)
LEMMA DecideFields ==
    ASSUME HostInv, NEW e, NEW allow \in BOOLEAN, Decide(e, allow)
    PROVE  /\ grant'.epoch = e /\ UNCHANGED <<task, nextRequest>>
  BY DEF Decide, DecideAccepts, HostInv, HostTypeOK, Grants, taskVars

LEMMA AnswerKeepsConsole ==
    ASSUME ConsoleInv, NEW e \in shown, NEW allow \in BOOLEAN, Decide(e, allow),
           UNCHANGED <<owner, auto, view, lastRequest, shown>>,
           program' = "reading", lines' \in Seq(Lines(shown))
    PROVE  ConsoleInv'
  <1>1. HostInv'
      BY DecideKeepsInv DEF ConsoleInv
  <1>2. ConsoleTypeOK'
      BY <1>1 DEF ConsoleInv, ConsoleTypeOK, HostInv
  <1>3. ShownInv'
      BY DecideFields DEF ConsoleInv, ShownInv, Lines
  <1>4. ServedWasShown'
      BY <1>1, DecideFields DEF ConsoleInv, ServedWasShown, HostInv
  <1> QED  BY <1>1, <1>2, <1>3, <1>4 DEF ConsoleInv

(* A step that leaves the host's decision alone.                           *)
LEMMA OtherKeepsConsole ==
    ASSUME ConsoleInv, HostInv', UNCHANGED <<grant, task, nextRequest, owner, auto>>,
           program' \in {"reading", "sleeping", "closing"} \cup Over,
           shown \subseteq shown', shown' \subseteq 1..MaxRequests,
           lastRequest' \in 0..MaxRequests, view' \in [request : 0..MaxRequests, closed : BOOLEAN],
           lines' \in Seq(Lines(shown'))
    PROVE  ConsoleInv'
  <1>1. ConsoleTypeOK'
      BY DEF ConsoleInv, ConsoleTypeOK, HostInv, Over
  <1>2. ShownInv'
      BY DEF ConsoleInv, ShownInv, Lines, Over
  <1>3. ServedWasShown'
      BY DEF ConsoleInv, ServedWasShown, HostInv
  <1> QED  BY <1>1, <1>2, <1>3 DEF ConsoleInv

LEMMA CloseKeepsInv ==
    ASSUME HostInv, CloseStarts \/ CloseReturns
    PROVE  HostInv' /\ UNCHANGED <<grant, task, nextRequest>>
  BY UserKeepsInv DEF UserNext, CloseStarts, CloseReturns, taskVars

LEMMA ProgramKeepsConsole ==
    ASSUME ConsoleInv,
           OperatorTypes \/ Polls \/ AutoApproves \/ ReadsLine \/ Sleeps \/ CtrlC \/ ProgramCloses
    PROVE  ConsoleInv'
  <1>t. /\ HostInv /\ lines \in Seq(Lines(shown)) /\ shown \subseteq 1..MaxRequests
        /\ lastRequest \in 0..MaxRequests /\ view \in [request : 0..MaxRequests, closed : BOOLEAN]
        /\ program = "approving" => view.request \in shown
        /\ snapshot \in Snapshots
      BY DEF ConsoleInv, ConsoleTypeOK, ShownInv, Lines, HostInv, HostTypeOK
  <1>h. UNCHANGED hostVars => HostInv' /\ UNCHANGED <<grant, task, nextRequest>>
      BY <1>t DEF hostVars, vars, HostInv, HostTypeOK, GrantInv, TasksInv, EndInv,
                  ServedWasApproved, CloseIsTruthful
  <1>n. NoView \in [request : 0..MaxRequests, closed : BOOLEAN]
      BY HostAssumption DEF NoView
  <1>1. CASE OperatorTypes
    <2>1. PICK line \in Lines(shown) : lines' = Append(lines, line)
        BY <1>1 DEF OperatorTypes, Lines
    <2>2. lines' \in Seq(Lines(shown))
        BY <1>t, <2>1
    <2>3. UNCHANGED <<hostVars, owner, auto, program, view, lastRequest, shown>>
        BY <1>1 DEF OperatorTypes
    <2>4. ConsoleTypeOK' /\ ServedWasShown'
        BY <1>h, <2>3 DEF ConsoleInv, ConsoleTypeOK, ServedWasShown, HostInv
    <2>5. ShownInv'
        BY <1>h, <2>2, <2>3 DEF ConsoleInv, ShownInv
    <2> QED  BY <1>h, <2>3, <2>4, <2>5 DEF ConsoleInv
  <1>2. CASE Polls
    <2>1. snapshot.request \in 0..MaxRequests /\ snapshot.closed \in BOOLEAN
        BY <1>t DEF Snapshots
    <2>2. UNCHANGED <<hostVars, owner, auto, lines>>
        BY <1>2 DEF Polls, Turn
    <2>3. CASE New
      <3>1. snapshot.request \in 1..MaxRequests
          BY <2>1, <2>3, HostAssumption DEF New
      <3>2. /\ shown' = shown \cup {snapshot.request} /\ lastRequest' = snapshot.request
            /\ view' = [request |-> snapshot.request, closed |-> snapshot.closed]
            /\ program' \in {"approving", "reading"}
          BY <1>2, <2>3 DEF Polls, Turn
      <3>3. /\ shown' \subseteq 1..MaxRequests /\ shown \subseteq shown'
            /\ view' \in [request : 0..MaxRequests, closed : BOOLEAN] /\ view'.request \in shown'
          BY <1>t, <2>1, <3>1, <3>2
      <3>4. lines' \in Seq(Lines(shown'))
          BY <1>t, <2>2, <3>3, LinesGrow
      <3>5. ConsoleTypeOK' /\ ServedWasShown'
          BY <1>h, <2>1, <2>2, <3>2, <3>3
          DEF ConsoleInv, ConsoleTypeOK, ServedWasShown, HostInv
      <3>6. ShownInv'
          BY <1>h, <2>2, <3>3, <3>4 DEF ConsoleInv, ShownInv
      <3> QED  BY <1>h, <2>2, <3>5, <3>6 DEF ConsoleInv
    <2>4. CASE ~New
      <3>1. /\ UNCHANGED <<shown, lastRequest>> /\ program' = "reading"
            /\ view' = [request |-> snapshot.request, closed |-> snapshot.closed]
          BY <1>2, <2>4 DEF Polls, Turn
      <3> QED  BY <1>t, <1>h, <2>1, <2>2, <3>1, OtherKeepsConsole
    <2> QED  BY <2>3, <2>4
  <1>3. CASE AutoApproves
    <2>1. CASE Decide(view.request, TRUE) /\ Turn({"approving"}, "reading")
               /\ UNCHANGED <<view, lastRequest, shown, lines>>
        BY <1>t, <2>1, AnswerKeepsConsole DEF Turn
    <2>2. CASE /\ Turn({"approving"}, "failed") /\ cancel' = TRUE
               /\ UNCHANGED <<taskVars, peerVars, grant, permit, unreclaimed, snapshot,
                              userVars, view, lastRequest, shown, lines>>
      <3>1. HostInv' /\ UNCHANGED <<grant, task, nextRequest>>
        <4>1. cancel' \in BOOLEAN  BY <2>2
        <4> QED
            BY <1>t, <2>2, <4>1
            DEF taskVars, peerVars, userVars, HostInv, HostTypeOK, GrantInv, TasksInv, EndInv,
                ServedWasApproved, CloseIsTruthful
      <3> QED  BY <1>t, <2>2, <3>1, OtherKeepsConsole DEF Turn, Over
    <2> QED  BY <1>3, <2>1, <2>2 DEF AutoApproves
  <1>4. CASE ReadsLine
    <2>1. /\ lines' \in Seq(Lines(shown)) /\ Head(lines) \in Lines(shown)
        BY <1>t, <1>4 DEF ReadsLine
    <2>2. CASE Turn({"reading"}, "closing") /\ CloseStarts
        BY <1>t, <1>4, <2>1, <2>2, CloseKeepsInv, OtherKeepsConsole DEF ReadsLine, Turn
    <2>3. CASE /\ Head(lines).command \in Commands /\ Turn({"reading"}, "reading")
               /\ Decide(Head(lines).request, Head(lines).command = "approve")
      <3>1. Head(lines).request \in shown
          BY <2>1, <2>3 DEF Lines, Commands
      <3> QED  BY <1>4, <2>1, <2>3, <3>1, AnswerKeepsConsole DEF ReadsLine, Turn
    <2>4. CASE Turn({"reading"}, "reading") /\ UNCHANGED hostVars
        BY <1>t, <1>h, <1>4, <2>1, <2>4, OtherKeepsConsole DEF ReadsLine, Turn
    <2> QED  BY <1>4, <2>2, <2>3, <2>4 DEF ReadsLine
  <1>5. CASE Sleeps
      BY <1>t, <1>h, <1>n, <1>5, OtherKeepsConsole DEF Sleeps, Turn, Over
  <1>6. CASE CtrlC
      BY <1>t, <1>6, CloseKeepsInv, OtherKeepsConsole DEF CtrlC, Turn
  <1>7. CASE ProgramCloses
      BY <1>t, <1>7, CloseKeepsInv, OtherKeepsConsole DEF ProgramCloses, Turn, Over
  <1> QED  BY <1>1, <1>2, <1>3, <1>4, <1>5, <1>6, <1>7

-----------------------------------------------------------------------------
LEMMA ConsoleInvInitially == ConsoleInit => ConsoleInv
  <1> SUFFICES ASSUME ConsoleInit PROVE ConsoleInv
      OBVIOUS
  <1>1. NoGrant.epoch = 0 /\ NoGrant.decision = "none"
      BY DEF NoGrant
  <1>2. snapshot \in Snapshots /\ ~snapshot.closed
      BY HostAssumption DEF ConsoleInit, HostInit, Snapshots, Errors
  <1>3. HostInv
    <2>1. /\ cancel \in BOOLEAN /\ sessionCancel \in BOOLEAN /\ keyboard \in BOOLEAN
          /\ due \in BOOLEAN /\ permit \in BOOLEAN /\ unreclaimed \in BOOLEAN
        BY DEF ConsoleInit, HostInit
    <2>2. HostTypeOK
        BY <1>2, <2>1, GrantFields, HostAssumption DEF ConsoleInit, HostInit, HostTypeOK
    <2> QED
        BY <1>1, <1>2, <2>2
        DEF ConsoleInit, HostInit, HostInv, GrantInv, TasksInv, EndInv, ServedWasApproved,
            CloseIsTruthful
  <1>4. ConsoleTypeOK
      BY <1>3, HostAssumption DEF ConsoleInit, ConsoleTypeOK, HostInv, NoView
  <1>5. ShownInv /\ ServedWasShown
      BY <1>1, <1>3 DEF ConsoleInit, HostInit, ShownInv, ServedWasShown, HostInv
  <1> QED  BY <1>3, <1>4, <1>5 DEF ConsoleInv

LEMMA ConsoleInvInductive == ConsoleInv /\ [ConsoleNext]_allVars => ConsoleInv'
  <1> SUFFICES ASSUME ConsoleInv, [ConsoleNext]_allVars PROVE ConsoleInv'
      OBVIOUS
  <1>1. CASE UNCHANGED allVars
      BY <1>1
      DEF allVars, vars, consoleVars, ConsoleInv, ConsoleTypeOK, ShownInv, ServedWasShown, HostInv,
          HostTypeOK, GrantInv, TasksInv, EndInv, ServedWasApproved, CloseIsTruthful
  <1> QED  BY <1>1, HostKeepsConsole, ProgramKeepsConsole DEF ConsoleNext

(* A peer is served only after the user's answer to its own request, and   *)
(* one of the program only after that request was printed (host.rs, serve, *)
(* approve; rd-engine-windows-host.rs, run).                               *)
THEOREM ServedTheorem == ConsoleSpec => []ServedWasShown
  <1>1. ConsoleInv => ServedWasShown
      BY DEF ConsoleInv
  <1> QED
      BY <1>1, ConsoleInvInitially, ConsoleInvInductive, PTL DEF ConsoleSpec

(* The next peer is accepted, and the host ends as closed, only with the   *)
(* last one's tasks joined and its publisher confirmed closed, and close() *)
(* answers Ok only then (host.rs, peer, serve, close).                     *)
THEOREM TruthfulTheorem == ConsoleSpec => []HostIsTruthful
  <1>1. ConsoleInv => HostIsTruthful
      BY DEF ConsoleInv, HostInv, HostIsTruthful, ReclaimedBeforeNextPeer, TasksInv, EndInv,
             CloseIsTruthful, HostTypeOK
  <1> QED
      BY <1>1, ConsoleInvInitially, ConsoleInvInductive, PTL DEF ConsoleSpec
=============================================================================
