---------------------------- MODULE Viewer_proofs ----------------------------
(***************************************************************************)
(* What the viewer still sends after its keyboard was taken away and after *)
(* it was closed, for every capacity of its queues and every number of     *)
(* calls of the interface and of messages of the peer; and how its feeder, *)
(* its decoder and the end of the session work together.                   *)
(***************************************************************************)
EXTENDS ViewerInput, ViewerMedia, TLAPS

Sending == inputWriter.at = "sending"
SendingMouse == Sending /\ inputWriter.message.kind = "mouse"

(* No mouse message goes through the control channel.                      *)
Controls == {m \in Message : m.kind # "mouse"}

Writers == [at : {"idle", "waiting", "sending", "over"}, message : Message]

InputTypes ==
    /\ phase \in {"login", "accepted", "running", "over"}
    /\ optionsFps \in Fps /\ loginFps \subseteq Fps /\ requestedFps \in Fps
    /\ cancelled \in BOOLEAN /\ loggedIn \in BOOLEAN
    /\ localClipboard \in BOOLEAN /\ published \in BOOLEAN
    /\ remote \in [Permission -> BOOLEAN]
    /\ control \in Seq(Controls) /\ Len(control) <= COMMANDS
    /\ mouse \in Seq(Message) /\ Len(mouse) <= COMMANDS
    /\ inputWriter \in Writers
    /\ storing \subseteq Fps
    /\ clipboard \in Seq(1..MaxTexts) /\ Len(clipboard) <= CLIPBOARD_QUEUE
    /\ taken \in Seq(1..MaxTexts)
    /\ late \in [{"mouse", "key"} -> Nat] /\ lateClose \in Nat
    /\ sends \in 0..MaxSends /\ reports \in 0..MaxReports /\ texts \in 0..MaxTexts

(* While the keyboard is granted nothing is late; after the revocation the *)
(* writer holds a mouse message only as long as none went out.             *)
RevocationInv ==
    /\ remote["keyboard"] => late["mouse"] = 0
    /\ SendingMouse => late["mouse"] = 0
    /\ late["mouse"] <= 1

(* The same for the cancellation, after which the writer takes nothing.    *)
ClosingInv ==
    /\ ~cancelled => lateClose = 0
    /\ Sending => lateClose = 0
    /\ lateClose <= 1

(* Before the tasks start there is no writer, and nothing was sent.        *)
StartInv == phase \in {"login", "accepted"} => inputWriter.at = "idle" /\ late["mouse"] = 0

InputInv == InputTypes /\ RevocationInv /\ ClosingInv /\ StartInv

-----------------------------------------------------------------------------
LEMMA InputInvImplies == InputInv => InputStops
  <1>1. ASSUME NEW q \in Seq(Controls) PROVE q \in Seq(Message)
      BY DEF Controls
  <1> QED
  BY <1>1 DEF InputInv, InputTypes, RevocationInv, ClosingInv, InputStops, InputTypeOK, Queue,
         Writers, RevokedMouseStops, ClosedIsSilent

LEMMA InputInvInit == InputInit => InputInv
  <1> SUFFICES ASSUME InputInit PROVE InputInv
      OBVIOUS
  <1>1. InputTypes
    <2>1. Msg("option") \in Message
        BY DEF InputInit, Msg, Message, Plain
    <2>2. inputWriter \in Writers
        BY <2>1 DEF InputInit, Writers
    <2>3. /\ control \in Seq(Controls) /\ mouse \in Seq(Message) /\ clipboard \in Seq(1..MaxTexts)
          /\ taken \in Seq(1..MaxTexts) /\ Len(control) = 0 /\ Len(mouse) = 0
          /\ Len(clipboard) = 0
        BY DEF InputInit
    <2>4. /\ remote \in [Permission -> BOOLEAN] /\ late \in [{"mouse", "key"} -> Nat]
          /\ Len(control) <= COMMANDS /\ Len(mouse) <= COMMANDS
          /\ Len(clipboard) <= CLIPBOARD_QUEUE
        BY <2>3, InputAssumption DEF InputInit
    <2>5. sends \in 0..MaxSends /\ reports \in 0..MaxReports /\ texts \in 0..MaxTexts
        BY InputAssumption DEF InputInit
    <2> QED  BY <2>2, <2>3, <2>4, <2>5 DEF InputInit, InputTypes
  <1> QED  BY <1>1 DEF InputInit, InputInv, RevocationInv, ClosingInv, StartInv, Sending,
                       SendingMouse, Permission

(* A step of the interface leaves the writer, the grants and the counts.   *)
LEMMA UiKeeps ==
    ASSUME InputInv, UiStep, InputTypes'
    PROVE  InputInv'
  BY DEF UiStep, InputInv, RevocationInv, ClosingInv, StartInv, Sending, SendingMouse,
         sessionVars, lateVars

LEMMA EnqueueKeeps ==
    ASSUME InputInv, NEW m \in Controls, Enqueue(m)
    PROVE  /\ control' \in Seq(Controls) /\ Len(control') <= COMMANDS
           /\ mouse' \in Seq(Message) /\ Len(mouse') <= COMMANDS
  <1>1. /\ control \in Seq(Controls) /\ Len(control) < COMMANDS /\ control' = Append(control, m)
        /\ mouse' = mouse
      BY DEF Enqueue, InputInv, InputTypes
  <1>2. control' \in Seq(Controls) /\ Len(control') = Len(control) + 1
      BY <1>1 DEF InputInv, InputTypes
  <1> QED  BY <1>1, <1>2, InputAssumption DEF InputInv, InputTypes

LEMMA InputInvStep == InputInv /\ [InputNext]_inputVars => InputInv'
  <1> SUFFICES ASSUME InputInv, [InputNext]_inputVars PROVE InputInv'
      OBVIOUS
  <1> USE DEF sessionVars, clipboardVars, lateVars
  <1>1. /\ \A kind \in Plain : Msg(kind) \in Message
        /\ \A kind \in Plain \ {"mouse"} : Msg(kind) \in Controls
      BY DEF Msg, Message, Controls, InputInv, InputTypes
  <1>2. CASE SendKey
    <2>1. Enqueue(Msg("key")) /\ UiStep /\ UNCHANGED <<requestedFps, storing>>
        BY <1>2 DEF SendKey
    <2>2. Msg("key") \in Controls
        BY <1>1 DEF Plain
    <2>3. InputTypes'
        BY <2>1, <2>2, EnqueueKeeps, InputAssumption DEF UiStep, InputInv, InputTypes
    <2> QED  BY <2>1, <2>3, UiKeeps
  <1>3. CASE SendClipboardText
    <2>1. Enqueue(Msg("clipboard")) /\ UiStep /\ UNCHANGED <<requestedFps, storing>>
        BY <1>3 DEF SendClipboardText
    <2>2. Msg("clipboard") \in Controls
        BY <1>1 DEF Plain
    <2>3. InputTypes'
        BY <2>1, <2>2, EnqueueKeeps, InputAssumption DEF UiStep, InputInv, InputTypes
    <2> QED  BY <2>1, <2>3, UiKeeps
  <1>4. CASE SendOptionControl
    <2>1. Enqueue(Msg("option")) /\ UiStep /\ UNCHANGED <<requestedFps, storing>>
        BY <1>4 DEF SendOptionControl
    <2>2. Msg("option") \in Controls
        BY <1>1 DEF Plain
    <2>3. InputTypes'
        BY <2>1, <2>2, EnqueueKeeps, InputAssumption DEF UiStep, InputInv, InputTypes
    <2> QED  BY <2>1, <2>3, UiKeeps
  <1>5. CASE SendMouse
    <2>1. /\ UiStep /\ Len(mouse) < COMMANDS /\ mouse' = Append(mouse, Msg("mouse"))
          /\ UNCHANGED <<control, requestedFps, storing>> /\ Msg("mouse") \in Message
        BY <1>1, <1>5 DEF SendMouse, Plain
    <2>2. mouse' \in Seq(Message) /\ Len(mouse') = Len(mouse) + 1
        BY <2>1 DEF InputInv, InputTypes
    <2>3. InputTypes'
        BY <2>1, <2>2, InputAssumption DEF UiStep, InputInv, InputTypes
    <2> QED  BY <2>1, <2>3, UiKeeps
  <1>6. CASE SetRequestedFps
    <2>1. UiStep
        BY <1>6 DEF SetRequestedFps
    <2>2. PICK fps \in Fps :
            \/ requestedFps' = fps /\ UNCHANGED <<control, mouse, storing>>
            \/ /\ Enqueue([kind |-> "fps", fps |-> fps])
               /\ storing' = {fps} /\ UNCHANGED requestedFps
        BY <1>6 DEF SetRequestedFps
    <2>3. [kind |-> "fps", fps |-> fps] \in Controls
        BY DEF Message, Controls
    <2>4. /\ control' \in Seq(Controls) /\ Len(control') <= COMMANDS
          /\ mouse' \in Seq(Message) /\ Len(mouse') <= COMMANDS
          /\ requestedFps' \in Fps /\ storing' \subseteq Fps
        BY <2>2, <2>3, EnqueueKeeps DEF InputInv, InputTypes
    <2>5. InputTypes'
        BY <2>1, <2>4, InputAssumption DEF UiStep, InputInv, InputTypes
    <2> QED  BY <2>1, <2>5, UiKeeps
  <1>7. CASE StoreRequestedFps
      BY <1>7 DEF StoreRequestedFps, InputInv, InputTypes, RevocationInv, ClosingInv,
                  StartInv, Sending, SendingMouse
  <1>8. CASE TakeClipboardText
    <2>1. /\ clipboard \in Seq(1..MaxTexts) /\ clipboard # <<>> /\ taken \in Seq(1..MaxTexts)
          /\ taken' = Append(taken, Head(clipboard)) /\ clipboard' = Tail(clipboard)
        BY <1>8 DEF TakeClipboardText, InputInv, InputTypes
    <2>2. /\ taken' \in Seq(1..MaxTexts) /\ clipboard' \in Seq(1..MaxTexts)
          /\ Len(clipboard') = Len(clipboard) - 1 /\ Len(clipboard) \in Nat
      <3>1. Head(clipboard) \in 1..MaxTexts
        <4> DEFINE T == 1..MaxTexts
        <4>1. clipboard \in Seq(T) /\ clipboard # <<>>
            BY <2>1
        <4> HIDE DEF T
        <4>2. Head(clipboard) \in T
            BY <4>1
        <4> QED  BY <4>2 DEF T
      <3>2. taken' \in Seq(1..MaxTexts)
          BY <2>1, <3>1
      <3>3. /\ clipboard' \in Seq(1..MaxTexts)
            /\ Len(clipboard') = Len(clipboard) - 1 /\ Len(clipboard) \in Nat
          BY <2>1
      <3> QED  BY <3>2, <3>3
    <2>3. InputTypes'
        BY <1>8, <2>2, InputAssumption DEF TakeClipboardText, InputInv, InputTypes
    <2> QED  BY <1>8, <2>3 DEF TakeClipboardText, InputInv, RevocationInv, ClosingInv,
                               StartInv, Sending, SendingMouse
  <1>9. CASE RequestClose
      BY <1>9 DEF RequestClose, InputInv, InputTypes, RevocationInv, ClosingInv,
                  StartInv, Sending, SendingMouse
  <1>10. CASE LoginSends
      BY <1>10 DEF LoginSends, RunStep, InputInv, InputTypes, RevocationInv, ClosingInv,
                   StartInv, Sending, SendingMouse
  <1>11. CASE LoginAccepted
    <2>1. InputTypes'
        BY <1>11 DEF LoginAccepted, RunStep, InputInv, InputTypes
    <2> QED  BY <1>11, <2>1 DEF LoginAccepted, RunStep, InputInv, RevocationInv, ClosingInv,
                                StartInv, Sending, SendingMouse
  <1>12. CASE TasksStart
    <2>1. inputWriter' \in Writers /\ inputWriter'.at = "waiting"
        BY <1>12 DEF TasksStart, InputInv, InputTypes, Writers
    <2>2. InputTypes'
        BY <1>12, <2>1 DEF TasksStart, RunStep, InputInv, InputTypes
    <2> QED  BY <1>12, <2>1, <2>2 DEF TasksStart, RunStep, InputInv, RevocationInv,
                                      ClosingInv, StartInv, Sending, SendingMouse
  <1>13. CASE RunEnds
      BY <1>13 DEF RunEnds, RunStep, InputInv, InputTypes, RevocationInv, ClosingInv,
                   StartInv, Sending, SendingMouse
  <1>14. CASE ReceivePermission
    <2>1. PICK p \in Permission, enabled \in BOOLEAN :
            /\ remote' = [remote EXCEPT ![p] = enabled]
            /\ late' = IF p = "keyboard" THEN [k \in {"mouse", "key"} |-> 0] ELSE late
        BY <1>14 DEF ReceivePermission
    <2>2. Reported /\ UNCHANGED <<cancelled, loggedIn, requestedFps, control>>
        BY <1>14 DEF ReceivePermission
    <2>3. /\ remote' \in [Permission -> BOOLEAN]
          /\ p # "keyboard" => remote'["keyboard"] = remote["keyboard"] /\ late' = late
          /\ p = "keyboard" => late'["mouse"] = 0
          /\ late' \in [{"mouse", "key"} -> Nat]
        BY <2>1 DEF InputInv, InputTypes, Permission
    <2>4. InputTypes'
        BY <2>2, <2>3, InputAssumption DEF Reported, InputInv, InputTypes
    <2>5. RevocationInv'
        BY <2>2, <2>3 DEF Reported, InputInv, RevocationInv, Sending, SendingMouse
    <2> QED  BY <2>2, <2>4, <2>5 DEF Reported, InputInv, ClosingInv, StartInv, Sending
  <1>15. CASE ReceiveOption
    <2>1. InputTypes'
        BY <1>15, InputAssumption DEF ReceiveOption, Reported, InputInv, InputTypes
    <2> QED  BY <1>15, <2>1 DEF ReceiveOption, Reported, InputInv, RevocationInv, ClosingInv,
                                StartInv, Sending, SendingMouse
  <1>16. CASE ReceiveProbe
    <2>1. /\ control' \in Seq(Controls) /\ Len(control') <= COMMANDS
          /\ cancelled' \in BOOLEAN /\ (~cancelled' => ~cancelled) /\ loggedIn' \in BOOLEAN
      <3>1. CASE Enqueue(Msg("echo")) /\ UNCHANGED <<cancelled, loggedIn>>
        <4>1. Msg("echo") \in Controls
            BY <1>1 DEF Plain
        <4> QED  BY <3>1, <4>1, EnqueueKeeps DEF InputInv, InputTypes
      <3>2. CASE cancelled' = TRUE /\ loggedIn' = FALSE /\ UNCHANGED control
          BY <1>16, <3>2 DEF ReceiveProbe, Reported, InputInv, InputTypes
      <3> QED  BY <1>16, <3>1, <3>2 DEF ReceiveProbe
    <2>2. Reported /\ UNCHANGED <<remote, requestedFps, late>>
        BY <1>16 DEF ReceiveProbe
    <2>3. InputTypes'
      <3>1. reports' \in 0..MaxReports
          BY <2>2, InputAssumption DEF Reported, InputInv, InputTypes
      <3> QED  BY <2>1, <2>2, <3>1 DEF Reported, InputInv, InputTypes
    <2> QED  BY <2>1, <2>2, <2>3 DEF Reported, InputInv, RevocationInv, ClosingInv, StartInv,
                                     Sending, SendingMouse
  <1>17. CASE ReceiveClipboard
    <2> DEFINE room == IF Len(clipboard) >= CLIPBOARD_QUEUE THEN Tail(clipboard)
                       ELSE clipboard
    <2>1. /\ clipboard \in Seq(1..MaxTexts) /\ Len(clipboard) <= CLIPBOARD_QUEUE
          /\ texts + 1 \in 1..MaxTexts /\ clipboard' = Append(room, texts + 1)
          /\ texts' = texts + 1
        BY <1>17, InputAssumption DEF ReceiveClipboard, Store, InputInv, InputTypes
    <2>2. room \in Seq(1..MaxTexts) /\ Len(room) < CLIPBOARD_QUEUE
      <3>1. CASE Len(clipboard) >= CLIPBOARD_QUEUE
        <4>1. /\ clipboard # <<>> /\ Len(clipboard) \in Nat
              /\ Len(clipboard) = CLIPBOARD_QUEUE
            BY <2>1, <3>1, InputAssumption
        <4>2. Tail(clipboard) \in Seq(1..MaxTexts) /\ Len(Tail(clipboard)) = Len(clipboard) - 1
            BY <2>1, <4>1
        <4> QED  BY <3>1, <4>1, <4>2, InputAssumption
      <3>2. CASE ~(Len(clipboard) >= CLIPBOARD_QUEUE)
          BY <2>1, <3>2, InputAssumption
      <3> QED  BY <3>1, <3>2
    <2> HIDE DEF room
    <2>3. clipboard' \in Seq(1..MaxTexts) /\ Len(clipboard') = Len(room) + 1
        BY <2>1, <2>2
    <2>4. InputTypes'
        BY <1>17, <2>1, <2>2, <2>3, InputAssumption DEF ReceiveClipboard, InputInv, InputTypes
    <2> QED  BY <1>17, <2>4 DEF ReceiveClipboard, InputInv, RevocationInv, ClosingInv,
                                StartInv, Sending, SendingMouse
  <1>18. CASE WriterTakes
    <2>1. /\ control' \in Seq(Controls) /\ Len(control') <= COMMANDS
          /\ mouse' \in Seq(Message) /\ Len(mouse') <= COMMANDS
      <3>1. /\ control \in Seq(Controls) /\ Len(control) <= COMMANDS
            /\ mouse \in Seq(Message) /\ Len(mouse) <= COMMANDS
          BY DEF InputInv, InputTypes
      <3>2. ASSUME NEW M, NEW q \in Seq(M), Len(q) <= COMMANDS, q # <<>>
            PROVE  Tail(q) \in Seq(M) /\ Len(Tail(q)) <= COMMANDS
          BY <3>2, InputAssumption
      <3> QED  BY <1>18, <3>1, <3>2 DEF WriterTakes
    <2>2. \/ /\ control # <<>> /\ Head(control) \in Controls
             /\ inputWriter' = [at |-> "sending", message |-> Head(control)]
          \/ /\ mouse # <<>> /\ remote["keyboard"]
             /\ inputWriter' = [at |-> "sending", message |-> Head(mouse)]
          \/ inputWriter' = inputWriter
      <3>1. control # <<>> => Head(control) \in Controls
          BY DEF InputInv, InputTypes
      <3> QED  BY <1>18, <3>1 DEF WriterTakes
    <2>3. inputWriter' \in Writers
      <3>1. mouse # <<>> => Head(mouse) \in Message
          BY DEF InputInv, InputTypes
      <3> QED  BY <2>2, <3>1 DEF Writers, Controls, InputInv, InputTypes
    <2>4. /\ inputWriter.at = "waiting" /\ ~cancelled
          /\ UNCHANGED <<writerFrame, lateVars>>
        BY <1>18 DEF WriterTakes
    <2>5. InputTypes'
        BY <2>1, <2>3, <2>4 DEF writerFrame, InputInv, InputTypes
    <2> QED  BY <2>2, <2>4, <2>5 DEF writerFrame, InputInv, RevocationInv, ClosingInv,
                                     StartInv, Sending, SendingMouse, Controls
  <1>19. CASE WriterSends
    <2>1. /\ Sending /\ inputWriter' \in Writers /\ inputWriter'.at = "waiting"
          /\ UNCHANGED <<writerFrame, control, mouse>>
        BY <1>19 DEF WriterSends, Sending, InputInv, InputTypes, Writers
    <2> DEFINE kind == inputWriter.message.kind
    <2>2. late' = IF kind \in {"mouse", "key"} /\ ~remote["keyboard"]
                  THEN [late EXCEPT ![kind] = @ + 1] ELSE late
        BY <1>19 DEF WriterSends
    <2>3. lateClose' \in Nat /\ lateClose' <= 1 /\ (~cancelled => lateClose' = 0)
        BY <1>19, <2>1 DEF WriterSends, InputInv, InputTypes, ClosingInv
    <2>4. /\ late' \in [{"mouse", "key"} -> Nat]
          /\ late'["mouse"] = IF kind = "mouse" /\ ~remote["keyboard"]
                              THEN late["mouse"] + 1 ELSE late["mouse"]
      <3>1. late \in [{"mouse", "key"} -> Nat]
          BY DEF InputInv, InputTypes
      <3> HIDE DEF kind
      <3> QED  BY <2>2, <3>1
    <2>5. InputTypes'
        BY <2>1, <2>3, <2>4 DEF writerFrame, InputInv, InputTypes
    <2>6. RevocationInv'
        BY <2>1, <2>4 DEF writerFrame, InputInv, RevocationInv, Sending, SendingMouse
    <2>7. ClosingInv'
        BY <2>1, <2>3 DEF writerFrame, ClosingInv, Sending
    <2> QED  BY <2>1, <2>5, <2>6, <2>7 DEF writerFrame, InputInv, StartInv, Sending
  <1>20. CASE InputWriterEnds
    <2>1. inputWriter' \in Writers /\ inputWriter'.at = "over"
        BY <1>20 DEF InputWriterEnds, InputInv, InputTypes, Writers
    <2>2. inputWriter.at # "idle" /\ UNCHANGED <<writerFrame, control, mouse, lateVars>>
        BY <1>20 DEF InputWriterEnds
    <2>3. InputTypes'
        BY <2>1, <2>2 DEF writerFrame, InputInv, InputTypes
    <2> QED  BY <2>1, <2>2, <2>3 DEF writerFrame, InputInv, RevocationInv, ClosingInv,
                                     StartInv, Sending, SendingMouse
  <1>21. CASE WriterFails
    <2>1. inputWriter' \in Writers /\ inputWriter'.at = "over"
        BY <1>21 DEF WriterFails, InputInv, InputTypes, Writers
    <2>2. InputTypes'
        BY <1>21, <2>1 DEF WriterFails, InputInv, InputTypes
    <2> QED  BY <1>21, <2>1, <2>2 DEF WriterFails, InputInv, RevocationInv, ClosingInv,
                                      StartInv, Sending, SendingMouse
  <1>22. CASE UNCHANGED inputVars
      BY <1>22 DEF inputVars, InputInv, InputTypes, RevocationInv, ClosingInv, StartInv,
                   Sending, SendingMouse
  <1> QED  BY <1>2, <1>3, <1>4, <1>5, <1>6, <1>7, <1>8, <1>9, <1>10, <1>11, <1>12, <1>13,
              <1>14, <1>15, <1>16, <1>17, <1>18, <1>19, <1>20, <1>21, <1>22 DEF InputNext

(* For every capacity of the queues: at most the one mouse message in the  *)
(* writer's hands goes out after the keyboard was revoked, and at most one *)
(* record after the close (viewer.rs, write).                              *)
THEOREM InputStopsTheorem == InputSpec => []InputStops
  <1>1. InputSpec => []InputInv
      BY InputInvInit, InputInvStep, PTL DEF InputSpec
  <1> QED  BY <1>1, InputInvImplies, PTL

-----------------------------------------------------------------------------
(* The media path.                                                         *)

Receivers == [at : {"idle", "reading", "slot", "bytes", "sending", "ok", "error"},
              record : Record \cup {NoRecord}]
Feeders == [at : {"idle", "recv", "closing", "settling", "reopen", "opening",
                  "feeding", "done"},
            why : {"switch", "end"}, result : Results, closed : Results,
            record : HeldRecord, contract : Contracts \cup {NoContract},
            current : Contracts \cup {NoContract}]

PlainTypes ==
    /\ main \in {"authenticating", "accepted", "running", "joining", "dropping",
                 "finishing", "notifying", "done"}
    /\ joined \subseteq {"receive", "write", "feed"} /\ runResult \in Results
    /\ cancel \in BOOLEAN /\ authenticated \in BOOLEAN
    /\ lease \in {"held", "released", "lost"}
    /\ geometry \in Contracts \cup {NoContract} /\ source \in Contracts \cup {NoContract}
    /\ writer \in {"idle", "running", "ok", "error"}
    /\ observer \in BOOLEAN /\ stopped \in BOOLEAN /\ unconfirmed \in BOOLEAN
    /\ native \in {"none", "live", "destroyed", "quarantined"}
    /\ accepted \in Nat /\ pushed \in 0..accepted
    /\ pushedBefore \in Nat /\ pushedEver \in Nat
    /\ finished \in {"none", "ok", "unconfirmed", "destroy"}
    /\ closer \in {"idle", "loop", "registered", "checked", "waiting", "returned"}
    /\ notified \in BOOLEAN
    /\ records \in 0..MaxRecords /\ switches \in 0..MaxSwitches

QueueTypes ==
    /\ receiver \in Receivers /\ feeder \in Feeders
    /\ video \in Seq(Record) /\ Len(video) <= VideoRecords
    /\ slots \in Nat /\ bytes \in Nat

(* Who has a record in hand.                                               *)
ReceiverInv ==
    /\ receiver.at \in {"slot", "bytes", "sending"} <=> receiver.record # NoRecord
    /\ receiver.at # "idle" => source \in Contracts

(* Every record holds one slot from its admission to its end, and its      *)
(* bytes; the partial sums of the queue stand for the bytes in it.         *)
SlotOfReceiver == IF receiver.at \in {"bytes", "sending"} THEN 1 ELSE 0
SlotOfFeeder == IF feeder.record # NoRecord THEN 1 ELSE 0

SlotsFit == slots + Len(video) + SlotOfReceiver + SlotOfFeeder <= VideoRecords

Weighs(q, first, last) ==
    \E s \in [0..Len(q) -> 0..VideoBytes] :
        /\ s[0] = first /\ s[Len(q)] = last
        /\ \A i \in 1..Len(q) : s[i] = s[i - 1] + q[i].size
        /\ \A i, j \in 0..Len(q) : i <= j => s[i] <= s[j]

BytesInHand == IF receiver.at = "sending" THEN receiver.record.size ELSE 0

BytesFit ==
    \E last \in 0..VideoBytes :
        /\ Weighs(video, bytes + feeder.record.size, last)
        /\ last + BytesInHand <= VideoBytes

(* What the feeder holds at each of its places.                            *)
FeederInv ==
    /\ feeder.at \in {"idle", "recv", "done"} => feeder.record = NoRecord
    /\ feeder.at \in {"reopen", "opening", "feeding"} => feeder.record # NoRecord
    /\ feeder.at \in {"closing", "settling"} =>
         (feeder.why = "switch" <=> feeder.record # NoRecord)
    /\ native = "live" <=> feeder.current # NoContract /\ feeder.at # "settling"
    /\ observer <=> feeder.current # NoContract
    /\ feeder.at \in {"idle", "reopen", "opening", "done"} => feeder.current = NoContract
    /\ feeder.at = "settling" =>
         /\ feeder.current # NoContract /\ native \in {"destroyed", "quarantined"}
         /\ feeder.closed = "ok" => native = "destroyed"
    /\ feeder.at \in {"recv", "feeding"} => feeder.contract = feeder.current
    /\ feeder.at = "feeding" => feeder.current = feeder.record.contract
    /\ (feeder.at \in {"idle", "recv", "reopen", "opening"}
        \/ (feeder.at = "closing" /\ feeder.why = "switch")) => native # "quarantined"
    /\ feeder.at = "idle" =>
         feeder.result = "ok" /\ feeder.closed = "ok" /\ feeder.contract = NoContract
    /\ feeder.closed = "destroy" =>
         feeder.at = "settling" \/ (feeder.at = "done" /\ feeder.result = "destroy")

(* What `unconfirmed' stands for.                                          *)
ProofInv ==
    unconfirmed <=> \/ lease = "lost" \/ native \in {"live", "quarantined"}
                    \/ feeder.at \in {"opening", "settling"}

(* How far the ending of a session has come.                               *)
EndingInv ==
    /\ main \in {"authenticating", "accepted"} =>
         receiver.at = "idle" /\ writer = "idle" /\ feeder.at = "idle"
    /\ main \in {"authenticating", "accepted", "running"} => joined = {}
    /\ lease = "held" <=> main \notin {"finishing", "notifying", "done"}
    /\ main \in {"dropping", "finishing", "notifying", "done"} =>
         feeder.at \in {"idle", "done"} /\ (feeder.result = "destroy" => runResult = "destroy")
    /\ "feed" \in joined =>
         feeder.at = "done" /\ (feeder.result = "destroy" => runResult = "destroy")
    /\ finished # "none" => main \in {"notifying", "done"}

MediaInv ==
    /\ PlainTypes /\ QueueTypes /\ ReceiverInv /\ SlotsFit /\ BytesFit /\ FeederInv
    /\ ProofInv /\ EndingInv
    /\ PushedIsCountedOnce /\ ReleaseIsSafe /\ DestroyFailureIsReported

LEMMA RecordFacts ==
    /\ NoRecord.size = 0 /\ NoRecord.units = 0 /\ NoRecord \in HeldRecord
    /\ \A r \in Record : /\ r \in HeldRecord /\ r # NoRecord /\ r.contract \in Contracts
                         /\ r.size \in 1..VideoBytes /\ r.units \in 1..VideoBytes
    /\ \A r \in HeldRecord : /\ r.size \in 0..VideoBytes /\ r.units \in 0..VideoBytes
                             /\ r # NoRecord => r.contract \in Contracts /\ r.size # 0
<1>1. VideoBytes \in Nat /\ NoContract \notin Contracts
  BY MediaAssumption
<1> QED
  BY <1>1 DEF NoRecord, Record, HeldRecord

(* What the partial sums of a queue become when it, or what lies before    *)
(* it, changes.                                                            *)
LEMMA WeighsBounds ==
    ASSUME NEW q \in Seq(Record), NEW first, NEW last, Weighs(q, first, last)
    PROVE  first \in 0..VideoBytes /\ last \in 0..VideoBytes /\ first <= last
<1>1. Len(q) \in Nat /\ VideoBytes \in Nat
  BY MediaAssumption
<1>2. PICK s \in [0..Len(q) -> 0..VideoBytes] :
        /\ s[0] = first /\ s[Len(q)] = last
        /\ \A i, j \in 0..Len(q) : i <= j => s[i] <= s[j]
  BY DEF Weighs
<1> QED
  BY <1>1, <1>2

LEMMA WeighsShift ==
    ASSUME NEW q \in Seq(Record), NEW first, NEW last, Weighs(q, first, last), NEW d \in Int,
           first + d >= 0, last + d <= VideoBytes
    PROVE  Weighs(q, first + d, last + d)
<1> DEFINE n == Len(q)
<1>1. n \in Nat /\ VideoBytes \in Nat /\ n = Len(q) /\ \A i \in 1..n : q[i].size \in Nat
  BY MediaAssumption, RecordFacts
<1>2. PICK s \in [0..n -> 0..VideoBytes] :
        /\ s[0] = first /\ s[n] = last
        /\ \A i \in 1..n : s[i] = s[i - 1] + q[i].size
        /\ \A i, j \in 0..n : i <= j => s[i] <= s[j]
  BY DEF Weighs
<1> HIDE DEF n
<1> DEFINE t == [i \in 0..n |-> s[i] + d]
<1>3. ASSUME NEW i \in 0..n PROVE t[i] = s[i] + d /\ t[i] \in 0..VideoBytes /\ s[i] \in Nat
  <2>1. 0 \in 0..n /\ n \in 0..n /\ 0 <= i /\ i <= n
    BY <1>1
  <2>2. s[0] <= s[i] /\ s[i] <= s[n] /\ s[i] \in Nat /\ s[0] \in Nat /\ s[n] \in Nat
    <3>1. s[0] <= s[i]
      BY <1>2, <2>1
    <3>2. s[i] <= s[n]
      BY <1>2, <2>1
    <3>3. s[i] \in 0..VideoBytes /\ s[0] \in 0..VideoBytes /\ s[n] \in 0..VideoBytes
      BY <2>1
    <3> QED
      BY <1>1, <3>1, <3>2, <3>3
  <2>3. first + d >= 0 /\ last + d <= VideoBytes
    OBVIOUS
  <2>4. s[i] + d \in 0..VideoBytes
    BY <1>1, <1>2, <2>2, <2>3
  <2> QED
    BY <2>2, <2>4
<1>4. t \in [0..n -> 0..VideoBytes]
  BY <1>3
<1>5. t[0] = first + d /\ t[n] = last + d
  BY <1>1, <1>2, <1>3
<1>6. \A i \in 1..n : t[i] = t[i - 1] + q[i].size
  <2> SUFFICES ASSUME NEW i \in 1..n PROVE t[i] = t[i - 1] + q[i].size
    OBVIOUS
  <2>1. i \in 0..n /\ i - 1 \in 0..n
    BY <1>1
  <2>2. t[i] = s[i] + d /\ t[i - 1] = s[i - 1] + d /\ s[i] \in Nat /\ s[i - 1] \in Nat
    BY <1>3, <2>1
  <2>3. s[i] = s[i - 1] + q[i].size /\ q[i].size \in Nat
    BY <1>1, <1>2
  <2> HIDE DEF t
  <2> QED
    BY <2>2, <2>3
<1>7. \A i, j \in 0..n : i <= j => t[i] <= t[j]
  <2> SUFFICES ASSUME NEW i \in 0..n, NEW j \in 0..n, i <= j PROVE t[i] <= t[j]
    OBVIOUS
  <2>1. t[i] = s[i] + d /\ t[j] = s[j] + d /\ s[i] \in Nat /\ s[j] \in Nat /\ s[i] <= s[j]
    BY <1>2, <1>3
  <2> HIDE DEF t
  <2> QED
    BY <2>1
<1> HIDE DEF t
<1> QED
  BY <1>1, <1>4, <1>5, <1>6, <1>7 DEF Weighs

LEMMA WeighsTail ==
    ASSUME NEW q \in Seq(Record), NEW first, NEW last, Weighs(q, first, last), q # <<>>
    PROVE  Weighs(Tail(q), first + Head(q).size, last)
<1> DEFINE n == Len(q)
           r == Tail(q)
<1>1. /\ n \in Nat /\ n # 0 /\ n = Len(q) /\ Len(r) = n - 1 /\ n - 1 \in Nat
      /\ \A i \in 1..n - 1 : r[i] = q[i + 1]
      /\ Head(q) = q[1]
  OBVIOUS
<1>2. PICK s \in [0..n -> 0..VideoBytes] :
        /\ s[0] = first /\ s[n] = last
        /\ \A i \in 1..n : s[i] = s[i - 1] + q[i].size
        /\ \A i, j \in 0..n : i <= j => s[i] <= s[j]
  BY DEF Weighs
<1> HIDE DEF n, r
<1> DEFINE t == [i \in 0..n - 1 |-> s[i + 1]]
<1>3. t \in [0..n - 1 -> 0..VideoBytes]
  BY <1>1
<1>4. t[0] = first + Head(q).size /\ t[n - 1] = last
  <2>1. 0 \in 0..n - 1 /\ n - 1 \in 0..n - 1 /\ 1 \in 1..n /\ n - 1 + 1 = n /\ 1 - 1 = 0 /\ 0 + 1 = 1
    BY <1>1
  <2>2. t[0] = s[1] /\ t[n - 1] = s[n]
    BY <2>1
  <2>3. s[1] = s[0] + q[1].size
    BY <1>2, <2>1
  <2> QED
    BY <1>1, <1>2, <2>2, <2>3
<1>5. \A i \in 1..n - 1 : t[i] = t[i - 1] + r[i].size
  <2> SUFFICES ASSUME NEW i \in 1..n - 1 PROVE t[i] = t[i - 1] + r[i].size
    OBVIOUS
  <2>1. i \in 0..n - 1 /\ i - 1 \in 0..n - 1 /\ i + 1 \in 1..n /\ (i - 1) + 1 = i /\ (i + 1) - 1 = i
    BY <1>1
  <2>2. t[i] = s[i + 1] /\ t[i - 1] = s[i]
    BY <2>1
  <2>3. s[i + 1] = s[i] + q[i + 1].size
    BY <1>2, <2>1
  <2> QED
    BY <1>1, <2>2, <2>3
<1>6. \A i, j \in 0..n - 1 : i <= j => t[i] <= t[j]
  <2> SUFFICES ASSUME NEW i \in 0..n - 1, NEW j \in 0..n - 1, i <= j PROVE t[i] <= t[j]
    OBVIOUS
  <2>1. i + 1 \in 0..n /\ j + 1 \in 0..n /\ i + 1 <= j + 1
    BY <1>1
  <2> QED
    BY <1>2, <2>1
<1> HIDE DEF t
<1>7. Weighs(r, first + Head(q).size, last)
  BY <1>1, <1>3, <1>4, <1>5, <1>6 DEF Weighs
<1> QED
  BY <1>7 DEF r

LEMMA WeighsAppend ==
    ASSUME NEW q \in Seq(Record), NEW first, NEW last, Weighs(q, first, last),
           NEW r \in Record, last + r.size <= VideoBytes
    PROVE  Weighs(Append(q, r), first, last + r.size)
<1> DEFINE n == Len(q)
           a == Append(q, r)
           e == last + r.size
<1>1. /\ n \in Nat /\ n = Len(q) /\ Len(a) = n + 1 /\ a[n + 1] = r
      /\ \A i \in 1..n : a[i] = q[i]
  OBVIOUS
<1>2. PICK s \in [0..n -> 0..VideoBytes] :
        /\ s[0] = first /\ s[n] = last
        /\ \A i \in 1..n : s[i] = s[i - 1] + q[i].size
        /\ \A i, j \in 0..n : i <= j => s[i] <= s[j]
  BY DEF Weighs
<1>3. VideoBytes \in Nat /\ last \in Nat /\ r.size \in Nat /\ e \in 0..VideoBytes /\ last <= e
  <2>1. VideoBytes \in Nat /\ r.size \in Nat
    BY MediaAssumption, RecordFacts
  <2>2. last \in Nat
    BY WeighsBounds
  <2> QED
    BY <2>1, <2>2
<1>4. e = last + r.size
  OBVIOUS
<1> HIDE DEF n, a, e
<1> DEFINE t == [i \in 0..n + 1 |-> IF i = n + 1 THEN e ELSE s[i]]
<1>5. t \in [0..n + 1 -> 0..VideoBytes]
  BY <1>1, <1>2, <1>3
<1>6. t[n + 1] = e /\ \A i \in 0..n : t[i] = s[i]
  BY <1>1
<1>7. t[0] = first
  BY <1>1, <1>2, <1>6
<1> HIDE DEF t
<1>8. \A i \in 1..n + 1 : t[i] = t[i - 1] + a[i].size
  <2> SUFFICES ASSUME NEW i \in 1..n + 1 PROVE t[i] = t[i - 1] + a[i].size
    OBVIOUS
  <2>1. CASE i = n + 1
    <3>1. i - 1 = n /\ n \in 0..n
      BY <1>1, <2>1
    <3> QED
      BY <1>1, <1>2, <1>4, <1>6, <2>1, <3>1
  <2>2. CASE i # n + 1
    <3>1. i \in 1..n /\ i \in 0..n /\ i - 1 \in 0..n
      BY <1>1, <2>2
    <3>2. t[i] = s[i] /\ t[i - 1] = s[i - 1] /\ a[i] = q[i]
      BY <1>1, <1>6, <3>1
    <3> QED
      BY <1>2, <3>1, <3>2
  <2> QED
    BY <2>1, <2>2
<1>9. \A i, j \in 0..n + 1 : i <= j => t[i] <= t[j]
  <2> SUFFICES ASSUME NEW i \in 0..n + 1, NEW j \in 0..n + 1, i <= j PROVE t[i] <= t[j]
    OBVIOUS
  <2>1. CASE j \in 0..n
    <3>1. i \in 0..n
      BY <1>1, <2>1
    <3> QED
      BY <1>2, <1>6, <2>1, <3>1
  <2>2. CASE j = n + 1 /\ i \in 0..n
    <3>1. t[i] <= last /\ t[i] \in Nat
      <4>1. n \in 0..n /\ i <= n
        BY <1>1, <2>2
      <4>2. s[i] <= s[n] /\ s[i] \in Nat
        <5>1. s[i] <= s[n]
          BY <1>2, <2>2, <4>1
        <5>2. s[i] \in 0..VideoBytes
          BY <2>2
        <5> QED
          BY <1>3, <5>1, <5>2
      <4> QED
        BY <1>2, <1>6, <2>2, <4>2
    <3> QED
      BY <1>3, <1>6, <2>2, <3>1
  <2>3. CASE j = n + 1 /\ i = n + 1
    BY <1>3, <1>6, <2>3
  <2> QED
    BY <1>1, <2>1, <2>2, <2>3
<1>10. Weighs(a, first, e)
  BY <1>1, <1>5, <1>6, <1>7, <1>8, <1>9 DEF Weighs
<1> QED
  BY <1>10 DEF a, e

(* What leaves the queue, the receiver and the feeder alone.               *)
LEMMA QueuesKeep ==
    ASSUME MediaInv, UNCHANGED <<receiver, feeder, video, slots, bytes>>,
           receiver.at # "idle" => source' = source
    PROVE  QueueTypes' /\ ReceiverInv' /\ SlotsFit' /\ BytesFit'
<1>1. QueueTypes /\ ReceiverInv /\ SlotsFit /\ BytesFit
  BY DEF MediaInv
<1>2. QueueTypes' /\ ReceiverInv' /\ SlotsFit'
  BY <1>1 DEF QueueTypes, ReceiverInv, SlotsFit, SlotOfReceiver, SlotOfFeeder
<1>3. BytesFit'
  <2>1. BytesInHand' = BytesInHand
    BY DEF BytesInHand
  <2> QED
    BY <1>1, <2>1 DEF BytesFit
<1> QED
  BY <1>2, <1>3

LEMMA FeederKeeps ==
    ASSUME MediaInv, UNCHANGED <<feeder, native, observer>>
    PROVE  FeederInv'
BY DEF MediaInv, FeederInv

LEMMA BytesKeep ==
    ASSUME BytesFit, video' = video, BytesInHand' = BytesInHand,
           bytes' + feeder'.record.size = bytes + feeder.record.size
    PROVE  BytesFit'
BY DEF BytesFit

(* A step that touches neither the feeder nor the end of the session.      *)
LEMMA RestKeeps ==
    ASSUME MediaInv,
           UNCHANGED <<main, joined, runResult, lease, feeder, observer, native, pushed,
                       pushedEver, pushedBefore, unconfirmed, finished>>,
           main \in {"authenticating", "accepted"} => receiver' = receiver /\ writer' = writer
    PROVE  /\ FeederInv' /\ ProofInv' /\ EndingInv'
           /\ PushedIsCountedOnce' /\ ReleaseIsSafe' /\ DestroyFailureIsReported'
<1>1. FeederInv'
  BY FeederKeeps
<1>2. ProofInv' /\ EndingInv'
  BY DEF MediaInv, ProofInv, EndingInv
<1>3. PushedIsCountedOnce' /\ ReleaseIsSafe' /\ DestroyFailureIsReported'
  BY DEF MediaInv, PushedIsCountedOnce, ReleaseIsSafe, DestroyFailureIsReported
<1> QED
  BY <1>1, <1>2, <1>3

LEMMA UserKeeps ==
    ASSUME MediaInv, UserNext
    PROVE  MediaInv'
<1>1. PlainTypes /\ QueueTypes
  BY DEF MediaInv
<1>2. /\ UNCHANGED <<main, joined, runResult, lease, feeder, observer, native, pushed,
                     pushedEver, pushedBefore, unconfirmed, finished>>
      /\ UNCHANGED <<receiver, video, slots, bytes, source, writer, records, switches,
                     geometry, accepted>>
  BY DEF UserNext, UserRequestsClose, CloserStarts, CloserRegisters, CloserChecks, CloserWaits,
         CloserWakes, CloserStep, CloseRequested, mainVars, receiveVars, stateVars, decoderVars,
         closeVars
<1>3. /\ cancel' \in BOOLEAN /\ authenticated' \in BOOLEAN /\ stopped' \in BOOLEAN
      /\ notified' \in BOOLEAN
      /\ closer' \in {"idle", "loop", "registered", "checked", "waiting", "returned"}
  BY <1>1 DEF PlainTypes,
         UserNext, UserRequestsClose, CloserStarts, CloserRegisters, CloserChecks, CloserWaits,
         CloserWakes, CloserStep, CloseRequested, mainVars, receiveVars, stateVars, decoderVars,
         closeVars
<1>4. PlainTypes'
  BY <1>1, <1>2, <1>3 DEF PlainTypes
<1>5. QueueTypes' /\ ReceiverInv' /\ SlotsFit' /\ BytesFit'
  BY <1>2, QueuesKeep
<1>6. /\ FeederInv' /\ ProofInv' /\ EndingInv'
      /\ PushedIsCountedOnce' /\ ReleaseIsSafe' /\ DestroyFailureIsReported'
  BY <1>2, RestKeeps
<1> QED
  BY <1>4, <1>5, <1>6 DEF MediaInv

LEMMA OutsideKeeps ==
    ASSUME MediaInv, WriterEnds \/ DecoderFails
    PROVE  MediaInv'
<1>1. PlainTypes /\ QueueTypes /\ EndingInv
  BY DEF MediaInv
<1>2. /\ UNCHANGED <<main, joined, runResult, lease, feeder, observer, native, pushed,
                     pushedEver, pushedBefore, unconfirmed, finished>>
      /\ UNCHANGED <<receiver, video, slots, bytes, source, records, switches, cancel,
                     authenticated, geometry, accepted, closer, notified>>
      /\ main \in {"authenticating", "accepted"} => writer' = writer
  BY <1>1 DEF WriterEnds, DecoderFails, EndingInv, mainVars, receiveVars, stateVars, decoderVars,
              closeVars
<1>3. writer' \in {"idle", "running", "ok", "error"} /\ stopped' \in BOOLEAN
  BY <1>1 DEF PlainTypes, WriterEnds, DecoderFails, decoderVars
<1>4. PlainTypes'
  BY <1>1, <1>2, <1>3 DEF PlainTypes
<1>5. QueueTypes' /\ ReceiverInv' /\ SlotsFit' /\ BytesFit'
  BY <1>2, QueuesKeep
<1>6. /\ FeederInv' /\ ProofInv' /\ EndingInv'
      /\ PushedIsCountedOnce' /\ ReleaseIsSafe' /\ DestroyFailureIsReported'
  BY <1>2, RestKeeps
<1> QED
  BY <1>4, <1>5, <1>6 DEF MediaInv

LEMMA PushesKeep ==
    ASSUME MediaInv, DecoderPushes
    PROVE  MediaInv'
<1>1. PlainTypes /\ QueueTypes /\ FeederInv /\ ProofInv /\ EndingInv /\ PushedIsCountedOnce
      /\ ReleaseIsSafe /\ DestroyFailureIsReported
  BY DEF MediaInv
<1>2. /\ UNCHANGED <<main, joined, runResult, lease, feeder, observer, native,
                     pushedBefore, unconfirmed, finished>>
      /\ UNCHANGED <<receiver, video, slots, bytes, source, records, switches, cancel, writer,
                     authenticated, geometry, accepted, closer, notified, stopped>>
      /\ native = "live" /\ pushed < accepted /\ pushed' = pushed + 1 /\ pushedEver' = pushedEver + 1
  BY DEF DecoderPushes, mainVars, receiveVars, stateVars, closeVars
<1>3. observer
  BY <1>1, <1>2 DEF FeederInv
<1>4. PlainTypes'
  <2>1. pushed' \in 0..accepted' /\ pushedEver' \in Nat
    BY <1>1, <1>2 DEF PlainTypes
  <2> QED
    BY <1>1, <1>2, <2>1 DEF PlainTypes
<1>5. QueueTypes' /\ ReceiverInv' /\ SlotsFit' /\ BytesFit'
  BY <1>2, QueuesKeep
<1>6. PushedIsCountedOnce'
  <2>1. pushed \in Nat /\ pushedBefore \in Nat /\ pushedEver \in Nat
    BY <1>1 DEF PlainTypes
  <2> QED
    BY <1>1, <1>2, <1>3, <2>1 DEF PushedIsCountedOnce
<1>7. FeederInv' /\ ProofInv' /\ EndingInv'
  BY <1>1, <1>2 DEF FeederInv, ProofInv, EndingInv
<1>8. ReleaseIsSafe' /\ DestroyFailureIsReported'
  BY <1>1, <1>2 DEF ReleaseIsSafe, DestroyFailureIsReported
<1> QED
  BY <1>4, <1>5, <1>6, <1>7, <1>8 DEF MediaInv

(* The receiver: a record with its slot, then with its bytes.              *)
LEMMA ReceiverKeeps ==
    ASSUME MediaInv, ReceiverNext
    PROVE  MediaInv'
<1>1. /\ PlainTypes /\ QueueTypes /\ ReceiverInv /\ SlotsFit /\ BytesFit /\ EndingInv
      /\ VideoBytes \in Nat /\ VideoRecords \in Nat
  BY MediaAssumption DEF MediaInv
<1>2. /\ UNCHANGED <<main, joined, runResult, lease, feeder, observer, native, pushed,
                     pushedEver, pushedBefore, unconfirmed, finished>>
      /\ UNCHANGED <<cancel, authenticated, accepted, closer, notified, stopped, writer>>
      /\ receiver.at # "idle"
  BY DEF ReceiverNext, ReceiverCancelled, ReceiverFails, ReceiverSwitches, ReceiverReads,
         ReceiverAdmits, ReceiverSends, ReceiverStep, mainVars, stateVars, decoderVars, closeVars
<1>3. /\ FeederInv' /\ ProofInv' /\ EndingInv'
      /\ PushedIsCountedOnce' /\ ReleaseIsSafe' /\ DestroyFailureIsReported'
  <2>1. main \notin {"authenticating", "accepted"}
    BY <1>1, <1>2 DEF EndingInv
  <2> QED
    BY <1>2, <2>1, RestKeeps
<1>4. source \in Contracts
  BY <1>1, <1>2 DEF ReceiverInv
<1>5. PlainTypes' /\ source' \in Contracts
  <2>1. /\ geometry' \in Contracts \cup {NoContract} /\ source' \in Contracts
        /\ records' \in 0..MaxRecords /\ switches' \in 0..MaxSwitches
    BY <1>1, <1>4, MediaAssumption
       DEF PlainTypes, ReceiverNext, ReceiverCancelled, ReceiverFails, ReceiverSwitches,
           ReceiverReads, ReceiverAdmits, ReceiverSends, ReceiverStep
  <2> QED
    BY <1>1, <1>2, <2>1 DEF PlainTypes
<1> DEFINE r == receiver.record
<1>6. /\ receiver \in Receivers /\ feeder \in Feeders /\ video \in Seq(Record)
      /\ Len(video) <= VideoRecords /\ Len(video) \in Nat /\ slots \in Nat /\ bytes \in Nat
      /\ SlotOfFeeder \in {0, 1} /\ SlotOfFeeder' = SlotOfFeeder
  BY <1>1, <1>2 DEF QueueTypes, SlotOfFeeder
<1>7. /\ receiver.at \in {"idle", "reading", "slot", "bytes", "sending", "ok", "error"}
      /\ r \in Record \cup {NoRecord}
      /\ receiver.at \in {"slot", "bytes", "sending"} => r \in Record /\ r.size \in 1..VideoBytes
      /\ NoRecord.size = 0
  BY <1>1, <1>6, RecordFacts DEF Receivers, ReceiverInv
<1>8. PICK last \in 0..VideoBytes :
        Weighs(video, bytes + feeder.record.size, last) /\ last + BytesInHand <= VideoBytes
  BY <1>1 DEF BytesFit
<1>9. feeder.record.size \in Nat /\ feeder'.record.size = feeder.record.size
  BY <1>1, <1>2, <1>6, RecordFacts DEF Feeders
<1> SUFFICES QueueTypes' /\ ReceiverInv' /\ SlotsFit' /\ BytesFit'
  BY <1>3, <1>5 DEF MediaInv
<1>10. ASSUME NEW a \in {"reading", "slot", "bytes", "sending", "ok", "error"},
              NEW x \in Record \cup {NoRecord}, receiver' = [at |-> a, record |-> x],
              a \in {"slot", "bytes", "sending"} <=> x # NoRecord
       PROVE  receiver' \in Receivers /\ receiver'.at = a /\ receiver'.record = x /\ ReceiverInv'
  BY <1>5, <1>10 DEF Receivers, ReceiverInv
<1>11. CASE /\ ReceiverFails \/ ReceiverSwitches \/ ReceiverReads
  <2>1. UNCHANGED <<slots, bytes, video>> /\ receiver.at = "reading"
    BY <1>11 DEF ReceiverFails, ReceiverSwitches, ReceiverReads
  <2>2. \E a \in {"reading", "slot", "error"}, x \in Record \cup {NoRecord} :
            receiver' = [at |-> a, record |-> x] /\ (a = "slot" <=> x # NoRecord)
    <3>1. CASE ReceiverReads
      <4>1. PICK n \in 1..VideoBytes :
               receiver' = [at |-> "slot", record |-> [contract |-> source, units |-> n, size |-> n]]
        BY <3>1 DEF ReceiverReads, ReceiverStep
      <4> DEFINE x == [contract |-> source, units |-> n, size |-> n]
      <4>2. x \in Record
        BY <1>4 DEF Record
      <4> HIDE DEF x
      <4>3. receiver' = [at |-> "slot", record |-> x]
        BY <4>1 DEF x
      <4> QED
        BY <4>2, <4>3, RecordFacts
    <3> QED
      BY <1>11, <3>1 DEF ReceiverFails, ReceiverSwitches, ReceiverStep
  <2>3. PICK a \in {"reading", "slot", "error"}, x \in Record \cup {NoRecord} :
            receiver' = [at |-> a, record |-> x] /\ (a = "slot" <=> x # NoRecord)
    BY <2>2
  <2>4. receiver' \in Receivers /\ receiver'.at = a /\ ReceiverInv'
    BY <1>10, <2>3
  <2>5. SlotsFit'
    BY <1>1, <1>6, <2>1, <2>4 DEF SlotsFit, SlotOfReceiver
  <2>6. BytesInHand' = BytesInHand
    BY <2>1, <2>4 DEF BytesInHand
  <2>7. BytesFit'
    BY <1>1, <1>9, <2>1, <2>6, BytesKeep
  <2> QED
    BY <1>1, <1>2, <2>1, <2>4, <2>5, <2>7 DEF QueueTypes
<1>12. CASE ReceiverCancelled
  <2>1. /\ receiver' = [at |-> "ok", record |-> NoRecord] /\ video' = video
        /\ slots' = IF receiver.at \in {"bytes", "sending"} THEN slots + 1 ELSE slots
        /\ bytes' = IF receiver.at = "sending" THEN bytes + r.size ELSE bytes
    BY <1>12 DEF ReceiverCancelled, ReceiverStep
  <2>2. receiver' \in Receivers /\ receiver'.at = "ok" /\ receiver'.record = NoRecord /\ ReceiverInv'
    BY <1>10, <2>1
  <2>3. SlotsFit' /\ slots' \in Nat
    BY <1>1, <1>6, <2>1, <2>2 DEF SlotsFit, SlotOfReceiver
  <2>4. BytesInHand' = 0 /\ BytesInHand \in Nat /\ bytes' = bytes + BytesInHand
    BY <1>6, <1>7, <2>1, <2>2 DEF BytesInHand
  <2>5. Weighs(video, bytes + feeder.record.size + BytesInHand, last + BytesInHand)
    <3>1. bytes + feeder.record.size + BytesInHand >= 0 /\ BytesInHand \in Int
      BY <1>6, <1>9, <2>4
    <3> QED
      BY <1>6, <1>8, <3>1, WeighsShift
  <2>6. /\ bytes' + feeder'.record.size = bytes + feeder.record.size + BytesInHand
        /\ last + BytesInHand \in 0..VideoBytes /\ last + BytesInHand + BytesInHand' <= VideoBytes
    BY <1>1, <1>6, <1>8, <1>9, <2>4
  <2>7. BytesFit'
    BY <2>1, <2>5, <2>6 DEF BytesFit
  <2> QED
    BY <1>1, <1>2, <1>6, <2>1, <2>2, <2>3, <2>4, <2>7 DEF QueueTypes
<1>13. CASE ReceiverAdmits
  <2>1. CASE /\ receiver.at = "slot" /\ slots > 0 /\ slots' = slots - 1
             /\ ReceiverStep("bytes", r) /\ UNCHANGED <<bytes, video>>
    <3>1. receiver' = [at |-> "bytes", record |-> r] /\ r # NoRecord
      BY <1>1, <2>1 DEF ReceiverStep, ReceiverInv
    <3>2. receiver' \in Receivers /\ receiver'.at = "bytes" /\ ReceiverInv'
      BY <1>7, <1>10, <3>1
    <3>3. SlotsFit' /\ slots' \in Nat
      BY <1>1, <1>6, <2>1, <3>2 DEF SlotsFit, SlotOfReceiver
    <3>4. BytesInHand' = BytesInHand
      BY <2>1, <3>2 DEF BytesInHand
    <3>5. BytesFit'
      BY <1>1, <1>9, <2>1, <3>4, BytesKeep
    <3> QED
      BY <1>1, <1>2, <1>6, <2>1, <3>2, <3>3, <3>5 DEF QueueTypes
  <2>2. CASE /\ receiver.at = "bytes" /\ bytes >= r.size /\ bytes' = bytes - r.size
             /\ ReceiverStep("sending", r) /\ UNCHANGED <<slots, video>>
    <3>1. receiver' = [at |-> "sending", record |-> r] /\ r # NoRecord
      BY <1>1, <2>2 DEF ReceiverStep, ReceiverInv
    <3>2. receiver' \in Receivers /\ receiver'.at = "sending" /\ receiver'.record = r /\ ReceiverInv'
      BY <1>7, <1>10, <3>1
    <3>3. SlotsFit'
      BY <1>1, <1>6, <2>2, <3>2 DEF SlotsFit, SlotOfReceiver
    <3> DEFINE d == 0 - r.size
    <3>4. /\ r.size \in Nat /\ d \in Int /\ bytes' \in Nat /\ bytes' = bytes + d /\ d <= 0
          /\ BytesInHand' + d = 0
      BY <1>6, <1>7, <2>2, <3>2 DEF BytesInHand
    <3> HIDE DEF d
    <3> DEFINE f == feeder.record.size
               first == bytes + f
    <3>5. /\ first \in Nat /\ first + d >= 0
          /\ bytes' + feeder'.record.size = first + d
      <4>1. f \in Nat /\ feeder'.record.size = f
        BY <1>9
      <4> HIDE DEF f
      <4>2. bytes \in Nat /\ d \in Int /\ bytes + d >= 0 /\ bytes' = bytes + d
        BY <1>6, <3>4
      <4>3. first \in Nat /\ first + d >= 0 /\ bytes' + f = first + d
        BY <4>1, <4>2
      <4> QED
        BY <4>1, <4>3
    <3>6. last + d <= VideoBytes /\ last \in Int
      BY <1>1, <3>4
    <3> HIDE DEF first
    <3>7. Weighs(video, first, last)
      BY <1>8 DEF first
    <3>8. Weighs(video, first + d, last + d)
      BY <1>6, <3>4, <3>5, <3>6, <3>7, WeighsShift
    <3>9. last + d \in 0..VideoBytes
      BY <1>6, <3>8, WeighsBounds
    <3>10. BytesInHand' \in Nat /\ (last + d) + BytesInHand' = last
      BY <3>2, <3>4, <3>6 DEF BytesInHand
    <3>11. (last + d) + BytesInHand' <= VideoBytes
      BY <1>1, <3>10
    <3>12. BytesFit'
      BY <2>2, <3>5, <3>8, <3>9, <3>11 DEF BytesFit
    <3> QED
      BY <1>1, <1>2, <1>6, <2>2, <3>2, <3>3, <3>4, <3>12 DEF QueueTypes
  <2> QED
    BY <1>13, <2>1, <2>2 DEF ReceiverAdmits
<1>14. CASE ReceiverSends
  <2>1. receiver.at = "sending" /\ UNCHANGED <<slots, bytes>> /\ BytesInHand = r.size /\ r \in Record
    BY <1>7, <1>14 DEF ReceiverSends, BytesInHand
  <2>2. CASE /\ Len(video) < VideoRecords /\ video' = Append(video, r)
             /\ ReceiverStep("reading", NoRecord)
    <3>1. receiver' \in Receivers /\ receiver'.at = "reading" /\ ReceiverInv'
      BY <1>10, <2>2 DEF ReceiverStep
    <3>2. video' \in Seq(Record) /\ Len(video') = Len(video) + 1 /\ Len(video') <= VideoRecords
      BY <1>1, <1>6, <2>1, <2>2
    <3>3. SlotsFit'
      BY <1>1, <1>6, <2>1, <3>1, <3>2 DEF SlotsFit, SlotOfReceiver
    <3>4. Weighs(video', bytes + feeder.record.size, last + r.size)
      BY <1>6, <1>8, <2>1, <2>2, WeighsAppend
    <3>5. last + r.size \in 0..VideoBytes /\ BytesInHand' = 0 /\ last + r.size + BytesInHand' <= VideoBytes
      BY <1>1, <1>7, <1>8, <2>1, <3>1 DEF BytesInHand
    <3>6. BytesFit'
      BY <1>9, <2>1, <3>4, <3>5 DEF BytesFit
    <3> QED
      BY <1>1, <1>2, <1>6, <2>1, <3>1, <3>2, <3>3, <3>6 DEF QueueTypes
  <2>3. CASE ReceiverStep("error", NoRecord) /\ UNCHANGED video
    <3>1. receiver' \in Receivers /\ receiver'.at = "error" /\ ReceiverInv'
      BY <1>10, <2>3 DEF ReceiverStep
    <3>2. SlotsFit'
      BY <1>1, <1>6, <2>1, <2>3, <3>1 DEF SlotsFit, SlotOfReceiver
    <3>3. BytesInHand' = 0 /\ last + BytesInHand' <= VideoBytes
      BY <1>1, <1>8, <3>1 DEF BytesInHand
    <3>4. BytesFit'
      BY <1>8, <1>9, <2>1, <2>3, <3>3 DEF BytesFit
    <3> QED
      BY <1>1, <1>2, <1>6, <2>1, <2>3, <3>1, <3>2, <3>4 DEF QueueTypes
  <2> QED
    BY <1>14, <2>2, <2>3 DEF ReceiverSends
<1> QED
  BY <1>11, <1>12, <1>13, <1>14 DEF ReceiverNext

(* The feeder works only while run() is in its select or joins the tasks,  *)
(* so that its steps leave the end of the session alone.                   *)
LEMMA FeederWorks ==
    ASSUME MediaInv, feeder.at \notin {"idle", "done"}
    PROVE  /\ main \in {"running", "joining"} /\ finished = "none" /\ lease = "held"
           /\ "feed" \notin joined
BY DEF MediaInv, EndingInv, PlainTypes

LEMMA FeederStepKeeps ==
    ASSUME MediaInv, feeder.at \notin {"idle", "done"}, UNCHANGED feederFrame,
           cancel' \in BOOLEAN, authenticated' \in BOOLEAN, stopped' \in BOOLEAN,
           observer' \in BOOLEAN, unconfirmed' \in BOOLEAN,
           native' \in {"none", "live", "destroyed", "quarantined"},
           geometry' \in Contracts \cup {NoContract},
           accepted' \in Nat, pushed' \in 0..accepted', pushedBefore' \in Nat, pushedEver' \in Nat,
           QueueTypes', SlotsFit', BytesFit', FeederInv', ProofInv', PushedIsCountedOnce'
    PROVE  MediaInv'
<1>1. /\ UNCHANGED <<main, joined, runResult, lease, receiver, source, records, switches, writer,
                     finished, closer, notified>>
  BY DEF feederFrame, mainVars, receiveVars, closeVars
<1>2. /\ main \in {"running", "joining"} /\ finished = "none" /\ lease = "held"
      /\ "feed" \notin joined
  BY FeederWorks
<1>3. PlainTypes'
  BY <1>1 DEF MediaInv, PlainTypes
<1>4. ReceiverInv'
  BY <1>1 DEF MediaInv, ReceiverInv
<1>5. EndingInv'
  BY <1>1, <1>2 DEF MediaInv, EndingInv
<1>6. ReleaseIsSafe' /\ DestroyFailureIsReported'
  BY <1>1, <1>2 DEF ReleaseIsSafe, DestroyFailureIsReported
<1> QED
  BY <1>3, <1>4, <1>5, <1>6 DEF MediaInv

(* The permits of the record in hand: kept with it, or given back with it. *)
LEMMA PermitsStay ==
    ASSUME MediaInv, UNCHANGED <<receiver, video, slots, bytes>>, feeder' \in Feeders,
           feeder'.record.size = feeder.record.size,
           feeder'.record = NoRecord <=> feeder.record = NoRecord
    PROVE  QueueTypes' /\ SlotsFit' /\ BytesFit'
<1>1. QueueTypes /\ SlotsFit /\ BytesFit
  BY DEF MediaInv
<1>2. QueueTypes' /\ SlotsFit'
  BY <1>1 DEF QueueTypes, SlotsFit, SlotOfReceiver, SlotOfFeeder
<1>3. BytesInHand' = BytesInHand
  BY DEF BytesInHand
<1>4. BytesFit'
  BY <1>1, <1>3, BytesKeep
<1> QED
  BY <1>2, <1>4

LEMMA PermitsReturn ==
    ASSUME MediaInv, UNCHANGED <<receiver, video>>, feeder' \in Feeders,
           feeder'.record = NoRecord,
           slots' = IF feeder.record = NoRecord THEN slots ELSE slots + 1,
           bytes' = bytes + feeder.record.size
    PROVE  QueueTypes' /\ SlotsFit' /\ BytesFit'
<1>1. QueueTypes /\ SlotsFit /\ BytesFit
  BY DEF MediaInv
<1>2. /\ slots \in Nat /\ bytes \in Nat /\ feeder.record.size \in Nat /\ Len(video) \in Nat
      /\ receiver \in Receivers /\ video \in Seq(Record) /\ Len(video) <= VideoRecords
  BY <1>1, MediaAssumption, RecordFacts DEF QueueTypes, Feeders
<1>3. slots' \in Nat /\ bytes' \in Nat
  BY <1>2
<1>4. QueueTypes'
  BY <1>2, <1>3 DEF QueueTypes
<1>5. SlotsFit'
  <2>1. SlotOfReceiver' = SlotOfReceiver /\ SlotOfReceiver \in {0, 1} /\ SlotOfFeeder' = 0
    BY DEF SlotOfReceiver, SlotOfFeeder
  <2>2. slots' = slots + SlotOfFeeder
    BY <1>2 DEF SlotOfFeeder
  <2>3. SlotOfFeeder \in {0, 1} /\ VideoRecords \in Nat
    BY MediaAssumption DEF SlotOfFeeder
  <2> QED
    BY <1>1, <1>2, <2>1, <2>2, <2>3 DEF SlotsFit
<1>6. BytesFit'
  <2>1. BytesInHand' = BytesInHand
    BY DEF BytesInHand
  <2>2. bytes' + feeder'.record.size = bytes + feeder.record.size
    <3>1. feeder'.record.size = 0
      BY RecordFacts
    <3> QED
      BY <1>2, <1>3, <3>1
  <2> QED
    BY <1>1, <2>1, <2>2, BytesKeep
<1> QED
  BY <1>4, <1>5, <1>6

(* feed_loop returns: the record in hand and its permits go.               *)
LEMMA LoopReturnMeans ==
    ASSUME MediaInv, NEW result \in Results, FeedLoopReturns(result), UNCHANGED <<receiver, video>>
    PROVE  /\ feeder' \in Feeders /\ feeder'.at = "closing" /\ feeder'.why = "end"
           /\ feeder'.result = result /\ feeder'.closed = feeder.closed
           /\ feeder'.record = NoRecord /\ feeder'.current = feeder.current
           /\ cancel' \in BOOLEAN /\ authenticated' \in BOOLEAN /\ stopped' \in BOOLEAN
           /\ QueueTypes' /\ SlotsFit' /\ BytesFit'
<1>1. feeder \in Feeders /\ cancel \in BOOLEAN /\ authenticated \in BOOLEAN /\ stopped \in BOOLEAN
      /\ observer \in BOOLEAN
  BY DEF MediaInv, QueueTypes, PlainTypes
<1>2. /\ feeder' = [feeder EXCEPT !.at = "closing", !.why = "end", !.result = result,
                                  !.record = NoRecord]
      /\ slots' = IF feeder.record = NoRecord THEN slots ELSE slots + 1
      /\ bytes' = bytes + feeder.record.size
  BY DEF FeedLoopReturns
<1>3. /\ feeder' \in Feeders /\ feeder'.at = "closing" /\ feeder'.why = "end"
      /\ feeder'.result = result /\ feeder'.closed = feeder.closed
      /\ feeder'.record = NoRecord /\ feeder'.current = feeder.current
  BY <1>1, <1>2, RecordFacts DEF Feeders
<1>4. cancel' \in BOOLEAN /\ authenticated' \in BOOLEAN /\ stopped' \in BOOLEAN
  BY <1>1 DEF FeedLoopReturns, CloseRequested
<1>5. QueueTypes' /\ SlotsFit' /\ BytesFit'
  BY <1>2, <1>3, PermitsReturn
<1> QED
  BY <1>3, <1>4, <1>5

(* A return of feed_loop that leaves the decoder as it is.                 *)
LEMMA LoopReturnKeeps ==
    ASSUME MediaInv, NEW result \in Results, FeedLoopReturns(result),
           feeder.at \in {"recv", "reopen", "feeding"},
           UNCHANGED <<feederFrame, geometry, video, observer, native, accepted, pushed,
                       pushedBefore, unconfirmed, pushedEver>>
    PROVE  MediaInv'
<1>1. PlainTypes /\ FeederInv /\ ProofInv /\ PushedIsCountedOnce
  BY DEF MediaInv
<1>2. receiver' = receiver /\ lease' = lease
  BY DEF feederFrame, mainVars, receiveVars
<1>3. /\ feeder' \in Feeders /\ feeder'.at = "closing" /\ feeder'.why = "end"
      /\ feeder'.result = result /\ feeder'.closed = feeder.closed
      /\ feeder'.record = NoRecord /\ feeder'.current = feeder.current
      /\ cancel' \in BOOLEAN /\ authenticated' \in BOOLEAN /\ stopped' \in BOOLEAN
      /\ QueueTypes' /\ SlotsFit' /\ BytesFit'
  BY <1>2, LoopReturnMeans
<1>4. FeederInv'
  BY <1>1, <1>3 DEF FeederInv
<1>5. ProofInv' /\ PushedIsCountedOnce'
  BY <1>1, <1>2, <1>3 DEF ProofInv, PushedIsCountedOnce
<1>6. /\ observer' \in BOOLEAN /\ unconfirmed' \in BOOLEAN
      /\ native' \in {"none", "live", "destroyed", "quarantined"}
      /\ geometry' \in Contracts \cup {NoContract}
      /\ accepted' \in Nat /\ pushed' \in 0..accepted' /\ pushedBefore' \in Nat /\ pushedEver' \in Nat
  BY <1>1 DEF PlainTypes
<1>7. feeder.at \notin {"idle", "done"} /\ UNCHANGED feederFrame
  OBVIOUS
<1> QED
  BY <1>3, <1>4, <1>5, <1>6, <1>7, FeederStepKeeps

LEMMA StopsKeep ==
    ASSUME MediaInv, FeederStops \/ FeederGivesUp
    PROVE  MediaInv'
<1>1. PICK result \in Results : FeedLoopReturns(result)
  BY DEF FeederStops, FeederGivesUp, Results
<1>2. /\ feeder.at \in {"recv", "reopen", "feeding"}
      /\ UNCHANGED <<feederFrame, geometry, video, observer, native, accepted, pushed,
                     pushedBefore, unconfirmed, pushedEver>>
  BY DEF FeederStops, FeederGivesUp
<1> QED
  BY <1>1, <1>2, LoopReturnKeeps

LEMMA TakesKeep ==
    ASSUME MediaInv, FeederTakes
    PROVE  MediaInv'
<1> DEFINE h == Head(video)
<1>1. /\ PlainTypes /\ QueueTypes /\ SlotsFit /\ BytesFit /\ FeederInv /\ ProofInv
      /\ PushedIsCountedOnce
  BY DEF MediaInv
<1>2. /\ feeder.at = "recv" /\ feeder.record = NoRecord /\ feeder \in Feeders /\ slots \in Nat
      /\ video \in Seq(Record) /\ video # <<>> /\ receiver \in Receivers
      /\ bytes \in Nat /\ Len(video) <= VideoRecords
  BY <1>1 DEF FeederTakes, FeederInv, QueueTypes
<1>3. /\ h \in Record /\ Len(video) \in Nat /\ Tail(video) \in Seq(Record)
      /\ Len(Tail(video)) = Len(video) - 1
  BY <1>2
<1>4. /\ UNCHANGED <<feederFrame, cancel, authenticated, geometry, slots, bytes, observer, native,
                     stopped, accepted, pushed, pushedEver, pushedBefore, unconfirmed>>
      /\ video' = Tail(video)
      /\ feeder' = [feeder EXCEPT !.record = h, !.why = "switch",
                                  !.at = IF feeder.contract = h.contract
                                         THEN "feeding" ELSE "closing"]
  BY DEF FeederTakes, stateVars, decoderVars
<1>5. UNCHANGED <<receiver, lease>>
  BY <1>4 DEF feederFrame, mainVars, receiveVars
<1>6. h \in HeldRecord /\ h # NoRecord /\ h.size \in Nat /\ NoRecord.size = 0 /\ h.contract \in Contracts
  BY <1>3, RecordFacts
<1> HIDE DEF h
<1>7. /\ feeder' \in Feeders /\ feeder'.record = h /\ feeder'.why = "switch"
      /\ feeder'.at = (IF feeder.contract = h.contract THEN "feeding" ELSE "closing")
      /\ feeder'.current = feeder.current /\ feeder'.contract = feeder.contract
      /\ feeder'.closed = feeder.closed /\ feeder'.result = feeder.result
  BY <1>2, <1>4, <1>6 DEF Feeders
<1>8. QueueTypes'
  <2>1. Len(video') <= VideoRecords
    BY <1>2, <1>3, <1>4, MediaAssumption
  <2> QED
    BY <1>2, <1>3, <1>4, <1>5, <1>7, <2>1 DEF QueueTypes
<1>9. SlotsFit'
  <2>1. SlotOfReceiver' = SlotOfReceiver /\ SlotOfReceiver \in {0, 1}
    BY <1>5 DEF SlotOfReceiver
  <2>2. SlotOfFeeder' = 1 /\ SlotOfFeeder = 0
    BY <1>2, <1>6, <1>7 DEF SlotOfFeeder
  <2> QED
    BY <1>1, <1>2, <1>3, <1>4, <2>1, <2>2, MediaAssumption DEF SlotsFit
<1>10. BytesFit'
  <2>1. PICK last \in 0..VideoBytes :
          Weighs(video, bytes + feeder.record.size, last) /\ last + BytesInHand <= VideoBytes
    BY <1>1 DEF BytesFit
  <2>2. bytes + feeder.record.size = bytes
    BY <1>2, <1>6
  <2>3. Weighs(Tail(video), bytes + h.size, last)
    BY <1>2, <2>1, <2>2, WeighsTail DEF h
  <2>4. BytesInHand' = BytesInHand
    BY <1>5 DEF BytesInHand
  <2>5. bytes' + feeder'.record.size = bytes + h.size /\ video' = Tail(video)
    BY <1>4, <1>7
  <2> QED
    BY <2>1, <2>3, <2>4, <2>5 DEF BytesFit
<1>11. FeederInv'
  BY <1>1, <1>2, <1>4, <1>6, <1>7 DEF FeederInv
<1>12. ProofInv' /\ PushedIsCountedOnce'
  BY <1>1, <1>2, <1>4, <1>5, <1>7 DEF ProofInv, PushedIsCountedOnce
<1>13. /\ cancel' \in BOOLEAN /\ authenticated' \in BOOLEAN /\ stopped' \in BOOLEAN
       /\ observer' \in BOOLEAN /\ unconfirmed' \in BOOLEAN
       /\ native' \in {"none", "live", "destroyed", "quarantined"}
       /\ geometry' \in Contracts \cup {NoContract}
       /\ accepted' \in Nat /\ pushed' \in 0..accepted' /\ pushedBefore' \in Nat /\ pushedEver' \in Nat
  BY <1>1, <1>4 DEF PlainTypes
<1>14. feeder.at \notin {"idle", "done"} /\ UNCHANGED feederFrame
  BY <1>2, <1>4
<1> QED
  BY <1>8, <1>9, <1>10, <1>11, <1>12, <1>13, <1>14, FeederStepKeeps

LEMMA ClosesKeep ==
    ASSUME MediaInv, DecoderCloses
    PROVE  MediaInv'
<1>1. PlainTypes /\ FeederInv /\ ProofInv /\ PushedIsCountedOnce /\ feeder \in Feeders
  BY DEF MediaInv, QueueTypes
<1>2. /\ feeder.at = "closing"
      /\ UNCHANGED <<feederFrame, cancel, authenticated, geometry, slots, bytes, video, observer,
                     accepted, pushed, pushedBefore, unconfirmed, pushedEver>>
  BY DEF DecoderCloses, stateVars
<1>3. UNCHANGED <<receiver, lease>>
  BY <1>2 DEF feederFrame, mainVars, receiveVars
<1>4. /\ feeder' \in Feeders /\ stopped' \in BOOLEAN
      /\ native' \in {"none", "live", "destroyed", "quarantined"}
      /\ feeder'.record = feeder.record
      /\ FeederInv' /\ ProofInv'
  <2>1. CASE /\ feeder.current = NoContract
             /\ feeder' = [feeder EXCEPT !.at = IF feeder.why = "switch" THEN "reopen" ELSE "done"]
             /\ UNCHANGED <<native, stopped>>
    <3>1. /\ feeder' \in Feeders /\ feeder'.record = feeder.record
          /\ feeder'.at = (IF feeder.why = "switch" THEN "reopen" ELSE "done")
          /\ feeder'.why = feeder.why /\ feeder'.result = feeder.result
          /\ feeder'.closed = feeder.closed /\ feeder'.current = feeder.current
          /\ feeder'.contract = feeder.contract
      BY <1>1, <2>1 DEF Feeders
    <3>2. FeederInv'
      BY <1>1, <1>2, <2>1, <3>1 DEF FeederInv
    <3>3. ProofInv'
      BY <1>1, <1>2, <1>3, <2>1, <3>1 DEF ProofInv
    <3> QED
      BY <1>1, <2>1, <3>1, <3>2, <3>3 DEF PlainTypes
  <2>2. CASE /\ feeder.current # NoContract
             /\ stopped' = TRUE
             /\ \E r \in Results :
                  /\ feeder' = [feeder EXCEPT !.at = "settling", !.closed = r]
                  /\ \/ native' = "destroyed" /\ r # "destroy"
                     \/ native' = "quarantined" /\ r # "ok"
    <3>1. PICK r \in Results :
            /\ feeder' = [feeder EXCEPT !.at = "settling", !.closed = r]
            /\ \/ native' = "destroyed" /\ r # "destroy"
               \/ native' = "quarantined" /\ r # "ok"
      BY <2>2
    <3>2. /\ feeder' \in Feeders /\ feeder'.record = feeder.record /\ feeder'.at = "settling"
          /\ feeder'.closed = r
          /\ feeder'.why = feeder.why /\ feeder'.result = feeder.result
          /\ feeder'.current = feeder.current /\ feeder'.contract = feeder.contract
      BY <1>1, <3>1 DEF Feeders
    <3>3. FeederInv'
      BY <1>1, <1>2, <2>2, <3>1, <3>2 DEF FeederInv
    <3>4. unconfirmed
      BY <1>1, <1>2, <2>2 DEF FeederInv, ProofInv
    <3>5. ProofInv'
      BY <1>2, <3>2, <3>4 DEF ProofInv
    <3> QED
      BY <2>2, <3>1, <3>2, <3>3, <3>5
  <2> QED
    BY <2>1, <2>2 DEF DecoderCloses, Results
<1>5. QueueTypes' /\ SlotsFit' /\ BytesFit'
  BY <1>2, <1>3, <1>4, PermitsStay
<1>6. PushedIsCountedOnce'
  BY <1>1, <1>2 DEF PushedIsCountedOnce
<1>7. /\ cancel' \in BOOLEAN /\ authenticated' \in BOOLEAN
      /\ observer' \in BOOLEAN /\ unconfirmed' \in BOOLEAN
      /\ geometry' \in Contracts \cup {NoContract}
      /\ accepted' \in Nat /\ pushed' \in 0..accepted' /\ pushedBefore' \in Nat /\ pushedEver' \in Nat
  BY <1>1, <1>2 DEF PlainTypes
<1>8. feeder.at \notin {"idle", "done"} /\ UNCHANGED feederFrame
  BY <1>2
<1> QED
  BY <1>4, <1>5, <1>6, <1>7, <1>8, FeederStepKeeps

LEMMA SettlesKeep ==
    ASSUME MediaInv, DecoderSettles
    PROVE  MediaInv'
<1>1. PlainTypes /\ FeederInv /\ ProofInv /\ PushedIsCountedOnce /\ feeder \in Feeders
  BY DEF MediaInv, QueueTypes
<1>2. /\ feeder.at = "settling" /\ unconfirmed' = (unconfirmed /\ native # "destroyed")
      /\ pushedBefore' = pushedBefore + pushed /\ observer' = FALSE /\ AfterClose
      /\ UNCHANGED <<feederFrame, geometry, video, native, accepted, pushed, pushedEver>>
  BY DEF DecoderSettles
<1>3. UNCHANGED <<receiver, lease>> /\ lease = "held"
  BY <1>2, FeederWorks DEF feederFrame, mainVars, receiveVars
<1>4. /\ feeder.current # NoContract /\ native \in {"destroyed", "quarantined"} /\ observer
      /\ feeder.closed = "ok" => native = "destroyed"
      /\ feeder.why = "switch" <=> feeder.record # NoRecord
      /\ unconfirmed
  BY <1>1, <1>2 DEF FeederInv, ProofInv
<1>5. /\ feeder' \in Feeders /\ feeder'.at \in {"reopen", "done"} /\ FeederInv'
      /\ cancel' \in BOOLEAN /\ authenticated' \in BOOLEAN /\ stopped' \in BOOLEAN
      /\ QueueTypes' /\ SlotsFit' /\ BytesFit'
  <2>1. CASE /\ feeder.why = "switch" /\ feeder.closed = "ok"
             /\ feeder' = [feeder EXCEPT !.at = "reopen", !.current = NoContract]
             /\ UNCHANGED <<cancel, authenticated, stopped, slots, bytes>>
    <3>1. /\ feeder' \in Feeders /\ feeder'.at = "reopen" /\ feeder'.current = NoContract
          /\ feeder'.record = feeder.record /\ feeder'.closed = feeder.closed
      BY <1>1, <2>1 DEF Feeders
    <3>2. FeederInv'
      BY <1>1, <1>2, <1>4, <2>1, <3>1 DEF FeederInv
    <3>3. QueueTypes' /\ SlotsFit' /\ BytesFit'
      BY <1>2, <1>3, <2>1, <3>1, PermitsStay
    <3> QED
      BY <1>1, <2>1, <3>1, <3>2, <3>3 DEF PlainTypes
  <2>2. CASE /\ feeder.why = "switch" /\ feeder.closed # "ok"
             /\ feeder' = [feeder EXCEPT !.at = "done", !.current = NoContract,
                                         !.result = feeder.closed, !.record = NoRecord]
             /\ slots' = slots + 1 /\ bytes' = bytes + feeder.record.size
             /\ cancel' = TRUE /\ authenticated' = FALSE /\ UNCHANGED stopped
    <3>1. /\ feeder' \in Feeders /\ feeder'.at = "done" /\ feeder'.current = NoContract
          /\ feeder'.record = NoRecord /\ feeder'.closed = feeder.closed
          /\ feeder'.result = feeder.closed
      BY <1>1, <2>2, RecordFacts DEF Feeders
    <3>2. FeederInv'
      BY <1>1, <1>2, <1>4, <2>2, <3>1 DEF FeederInv
    <3>3. slots' = IF feeder.record = NoRecord THEN slots ELSE slots + 1
      BY <1>4, <2>2
    <3>4. QueueTypes' /\ SlotsFit' /\ BytesFit'
      BY <1>2, <1>3, <2>2, <3>1, <3>3, PermitsReturn
    <3> QED
      BY <1>1, <2>2, <3>1, <3>2, <3>4 DEF PlainTypes
  <2>3. CASE /\ feeder.why = "end"
             /\ feeder' = [feeder EXCEPT !.at = "done", !.current = NoContract,
                                         !.result = IF feeder.closed = "ok"
                                                    THEN feeder.result ELSE feeder.closed]
             /\ UNCHANGED <<cancel, authenticated, stopped, slots, bytes>>
    <3>1. /\ feeder' \in Feeders /\ feeder'.at = "done" /\ feeder'.current = NoContract
          /\ feeder'.record = feeder.record /\ feeder'.closed = feeder.closed
          /\ feeder'.result = (IF feeder.closed = "ok" THEN feeder.result ELSE feeder.closed)
      BY <1>1, <2>3 DEF Feeders
    <3>2. FeederInv'
      BY <1>1, <1>2, <1>4, <2>3, <3>1 DEF FeederInv
    <3>3. QueueTypes' /\ SlotsFit' /\ BytesFit'
      BY <1>2, <1>3, <2>3, <3>1, PermitsStay
    <3> QED
      BY <1>1, <2>3, <3>1, <3>2, <3>3 DEF PlainTypes
  <2> QED
    BY <1>2, <2>1, <2>2, <2>3 DEF AfterClose
<1>6. ProofInv'
  BY <1>2, <1>3, <1>4, <1>5 DEF ProofInv
<1>7. PushedIsCountedOnce'
  <2>1. pushed \in Nat /\ pushedBefore \in Nat
    BY <1>1 DEF PlainTypes
  <2> QED
    BY <1>1, <1>2, <1>4, <2>1 DEF PushedIsCountedOnce
<1>8. /\ observer' \in BOOLEAN /\ unconfirmed' \in BOOLEAN
      /\ native' \in {"none", "live", "destroyed", "quarantined"}
      /\ geometry' \in Contracts \cup {NoContract}
      /\ accepted' \in Nat /\ pushed' \in 0..accepted' /\ pushedBefore' \in Nat /\ pushedEver' \in Nat
  <2>1. unconfirmed' \in BOOLEAN
    BY <1>2
  <2>2. pushedBefore' \in Nat
    <3>1. pushed \in Nat /\ pushedBefore \in Nat
      BY <1>1 DEF PlainTypes
    <3> QED
      BY <1>2, <3>1
  <2>3. accepted' \in Nat /\ pushed' \in 0..accepted' /\ pushedEver' \in Nat
    BY <1>1, <1>2 DEF PlainTypes
  <2>4. geometry' \in Contracts \cup {NoContract}
    BY <1>1, <1>2 DEF PlainTypes
  <2> QED
    BY <1>2, <1>4, <2>1, <2>2, <2>3, <2>4
<1>9. feeder.at \notin {"idle", "done"} /\ UNCHANGED feederFrame
  BY <1>2
<1> QED
  BY <1>5, <1>6, <1>7, <1>8, <1>9, FeederStepKeeps

LEMMA ReopensKeep ==
    ASSUME MediaInv, FeederReopens
    PROVE  MediaInv'
<1>1. PlainTypes /\ FeederInv /\ ProofInv /\ PushedIsCountedOnce /\ feeder \in Feeders
  BY DEF MediaInv, QueueTypes
<1>2. /\ feeder.at = "reopen"
      /\ UNCHANGED <<feederFrame, geometry, video, observer, native, accepted, pushed,
                     pushedBefore, pushedEver>>
  BY DEF FeederReopens
<1>3. CASE FeedLoopReturns("ok") /\ UNCHANGED unconfirmed
  <2>1. "ok" \in Results
    BY DEF Results
  <2>2. /\ feeder.at \in {"recv", "reopen", "feeding"}
        /\ UNCHANGED <<feederFrame, geometry, video, observer, native, accepted, pushed,
                       pushedBefore, unconfirmed, pushedEver>>
    BY <1>2, <1>3
  <2> QED
    BY <1>3, <2>1, <2>2, LoopReturnKeeps
<1>4. CASE /\ feeder' = [feeder EXCEPT !.at = "opening"]
           /\ unconfirmed' = TRUE
           /\ UNCHANGED <<cancel, authenticated, stopped, slots, bytes>>
  <2>1. UNCHANGED <<receiver, lease>>
    BY <1>2 DEF feederFrame, mainVars, receiveVars
  <2>2. /\ feeder' \in Feeders /\ feeder'.at = "opening" /\ feeder'.record = feeder.record
        /\ feeder'.current = feeder.current /\ feeder'.closed = feeder.closed
    BY <1>1, <1>4 DEF Feeders
  <2>3. FeederInv'
    BY <1>1, <1>2, <2>2 DEF FeederInv
  <2>4. QueueTypes' /\ SlotsFit' /\ BytesFit'
    BY <1>2, <1>4, <2>1, <2>2, PermitsStay
  <2>5. ProofInv' /\ PushedIsCountedOnce'
    BY <1>1, <1>2, <1>4, <2>2 DEF ProofInv, PushedIsCountedOnce
  <2>6. /\ cancel' \in BOOLEAN /\ authenticated' \in BOOLEAN /\ stopped' \in BOOLEAN
        /\ observer' \in BOOLEAN /\ unconfirmed' \in BOOLEAN
        /\ native' \in {"none", "live", "destroyed", "quarantined"}
        /\ geometry' \in Contracts \cup {NoContract}
        /\ accepted' \in Nat /\ pushed' \in 0..accepted' /\ pushedBefore' \in Nat /\ pushedEver' \in Nat
    BY <1>1, <1>2, <1>4 DEF PlainTypes
  <2>7. feeder.at \notin {"idle", "done"} /\ UNCHANGED feederFrame
    BY <1>2
  <2> QED
    BY <2>3, <2>4, <2>5, <2>6, <2>7, FeederStepKeeps
<1> QED
  BY <1>3, <1>4 DEF FeederReopens

LEMMA OpensKeep ==
    ASSUME MediaInv, DecoderOpens
    PROVE  MediaInv'
<1>1. /\ PlainTypes /\ FeederInv /\ ProofInv /\ PushedIsCountedOnce /\ feeder \in Feeders
      /\ NoContract \notin Contracts
  BY MediaAssumption DEF MediaInv, QueueTypes
<1>2. /\ feeder.at = "opening"
      /\ UNCHANGED <<feederFrame, video, pushedBefore, pushedEver>>
  BY DEF DecoderOpens
<1>3. /\ feeder.record # NoRecord /\ feeder.record \in HeldRecord
      /\ feeder.record.contract \in Contracts /\ feeder.current = NoContract /\ ~observer
      /\ native \in {"none", "destroyed"} /\ unconfirmed
  BY <1>1, <1>2, RecordFacts DEF FeederInv, ProofInv, Feeders, PlainTypes
<1>4. UNCHANGED <<receiver, lease>> /\ lease = "held"
  BY <1>2, FeederWorks DEF feederFrame, mainVars, receiveVars
<1>5. feeder.at \notin {"idle", "done"} /\ UNCHANGED feederFrame
  BY <1>2
<1>6. CASE /\ native' = "live" /\ stopped' = FALSE
           /\ accepted' = 0 /\ pushed' = 0 /\ observer' = TRUE
           /\ geometry' = feeder.record.contract
           /\ feeder' = [feeder EXCEPT !.at = "feeding",
                                       !.current = feeder.record.contract,
                                       !.contract = feeder.record.contract]
           /\ UNCHANGED <<stateVars, slots, bytes, unconfirmed>>
  <2>1. /\ feeder' \in Feeders /\ feeder'.at = "feeding" /\ feeder'.record = feeder.record
        /\ feeder'.current = feeder.record.contract /\ feeder'.contract = feeder.record.contract
        /\ feeder'.closed = feeder.closed
    BY <1>1, <1>3, <1>6 DEF Feeders
  <2>2. feeder'.current # NoContract
    BY <1>1, <1>3, <2>1
  <2>3. FeederInv'
    BY <1>1, <1>2, <1>3, <1>6, <2>1, <2>2 DEF FeederInv
  <2>4. QueueTypes' /\ SlotsFit' /\ BytesFit'
    BY <1>2, <1>4, <1>6, <2>1, PermitsStay
  <2>5. ProofInv'
    BY <1>3, <1>6 DEF ProofInv
  <2>6. PushedIsCountedOnce'
    <3>1. pushedBefore \in Nat /\ pushedBefore + 0 = pushedBefore
      BY <1>1 DEF PlainTypes
    <3> QED
      BY <1>1, <1>2, <1>3, <1>6, <3>1 DEF PushedIsCountedOnce
  <2>7. /\ cancel' \in BOOLEAN /\ authenticated' \in BOOLEAN /\ stopped' \in BOOLEAN
        /\ observer' \in BOOLEAN /\ unconfirmed' \in BOOLEAN
        /\ native' \in {"none", "live", "destroyed", "quarantined"}
        /\ geometry' \in Contracts \cup {NoContract}
        /\ accepted' \in Nat /\ pushed' \in 0..accepted' /\ pushedBefore' \in Nat /\ pushedEver' \in Nat
    <3>1. accepted' \in Nat /\ pushed' \in 0..accepted'
      BY <1>6
    <3>2. geometry' \in Contracts \cup {NoContract}
      BY <1>3, <1>6
    <3>3. /\ cancel' \in BOOLEAN /\ authenticated' \in BOOLEAN /\ unconfirmed' \in BOOLEAN
          /\ pushedBefore' \in Nat /\ pushedEver' \in Nat
      BY <1>1, <1>2, <1>6 DEF PlainTypes, stateVars
    <3> QED
      BY <1>6, <3>1, <3>2, <3>3
  <2> QED
    BY <1>5, <2>3, <2>4, <2>5, <2>6, <2>7, FeederStepKeeps
<1>7. ASSUME NEW result \in Results, FeedLoopReturns(result),
             UNCHANGED <<geometry, observer, accepted, pushed>>,
             \/ native' = native /\ unconfirmed' = FALSE
             \/ native' = "quarantined" /\ unconfirmed' = unconfirmed
      PROVE  MediaInv'
  <2>1. /\ feeder' \in Feeders /\ feeder'.at = "closing" /\ feeder'.why = "end"
        /\ feeder'.result = result /\ feeder'.closed = feeder.closed
        /\ feeder'.record = NoRecord /\ feeder'.current = feeder.current
        /\ cancel' \in BOOLEAN /\ authenticated' \in BOOLEAN /\ stopped' \in BOOLEAN
        /\ QueueTypes' /\ SlotsFit' /\ BytesFit'
    BY <1>2, <1>4, <1>7, LoopReturnMeans
  <2>2. FeederInv'
    BY <1>1, <1>2, <1>3, <1>7, <2>1 DEF FeederInv
  <2>3. ProofInv'
    BY <1>3, <1>4, <1>7, <2>1 DEF ProofInv
  <2>4. PushedIsCountedOnce'
    BY <1>1, <1>2, <1>7 DEF PushedIsCountedOnce
  <2>5. /\ observer' \in BOOLEAN /\ unconfirmed' \in BOOLEAN
        /\ native' \in {"none", "live", "destroyed", "quarantined"}
        /\ geometry' \in Contracts \cup {NoContract}
        /\ accepted' \in Nat /\ pushed' \in 0..accepted' /\ pushedBefore' \in Nat /\ pushedEver' \in Nat
    BY <1>1, <1>2, <1>7 DEF PlainTypes
  <2> QED
    BY <1>5, <2>1, <2>2, <2>3, <2>4, <2>5, FeederStepKeeps
<1>8. CASE /\ unconfirmed' = FALSE /\ FeedLoopReturns("error")
           /\ UNCHANGED <<geometry, observer, native, accepted, pushed>>
  <2>1. "error" \in Results
    BY DEF Results
  <2> QED
    BY <1>7, <1>8, <2>1
<1>9. CASE /\ native' = "quarantined"
           /\ FeedLoopReturns("destroy") \/ FeedLoopReturns("error")
           /\ UNCHANGED <<geometry, observer, accepted, pushed, unconfirmed>>
  <2>1. "error" \in Results /\ "destroy" \in Results
    BY DEF Results
  <2>2. CASE FeedLoopReturns("destroy")
    BY <1>7, <1>9, <2>1, <2>2
  <2>3. CASE FeedLoopReturns("error")
    BY <1>7, <1>9, <2>1, <2>3
  <2> QED
    BY <1>9, <2>2, <2>3
<1> QED
  BY <1>6, <1>8, <1>9 DEF DecoderOpens

LEMMA SubmitsKeep ==
    ASSUME MediaInv, FeederSubmits
    PROVE  MediaInv'
<1>1. /\ PlainTypes /\ FeederInv /\ ProofInv /\ PushedIsCountedOnce /\ feeder \in Feeders
      /\ NoContract \notin Contracts
  BY MediaAssumption DEF MediaInv, QueueTypes
<1>2. /\ feeder.at = "feeding"
      /\ UNCHANGED <<feederFrame, cancel, authenticated, geometry, video, observer, native, stopped,
                     pushed, pushedBefore, unconfirmed, pushedEver>>
  BY DEF FeederSubmits, stateVars
<1>3. UNCHANGED <<receiver, lease>>
  BY <1>2 DEF feederFrame, mainVars, receiveVars
<1>4. /\ feeder.record # NoRecord /\ feeder.record \in HeldRecord
      /\ feeder.record.contract \in Contracts /\ feeder.current = feeder.record.contract
      /\ feeder.current # NoContract /\ native = "live" /\ feeder.contract = feeder.current
      /\ feeder.closed # "destroy"
  BY <1>1, <1>2, RecordFacts DEF FeederInv, Feeders
<1>5. /\ feeder' \in Feeders /\ accepted' \in Nat /\ pushed' \in 0..accepted'
      /\ feeder'.at \in {"recv", "feeding"} /\ FeederInv' /\ QueueTypes' /\ SlotsFit' /\ BytesFit'
  <2>1. CASE /\ feeder.record.units > 0
             /\ accepted' = accepted + 1
             /\ feeder' = [feeder EXCEPT !.record.units = @ - 1]
             /\ UNCHANGED <<slots, bytes>>
    <3> DEFINE x == [feeder.record EXCEPT !.units = @ - 1]
    <3>1. /\ x \in HeldRecord /\ x # NoRecord /\ x.size = feeder.record.size
          /\ x.contract = feeder.record.contract
      <4>1. feeder.record \in [contract : Contracts, units : 0..VideoBytes, size : 1..VideoBytes]
        BY <1>4 DEF HeldRecord
      <4>2. VideoBytes \in Nat
        BY MediaAssumption
      <4>3. x \in [contract : Contracts, units : 0..VideoBytes, size : 1..VideoBytes]
        BY <2>1, <4>1, <4>2
      <4>4. x.size = feeder.record.size /\ x.contract = feeder.record.contract
        BY <4>1
      <4>5. x # NoRecord
        BY <1>1, <1>4, <4>4 DEF NoRecord
      <4> QED
        BY <4>3, <4>4, <4>5 DEF HeldRecord
    <3>2. feeder' = [feeder EXCEPT !.record = x]
      BY <1>1, <2>1 DEF Feeders
    <3> HIDE DEF x
    <3>3. /\ feeder' \in Feeders /\ feeder'.at = feeder.at /\ feeder'.record = x
          /\ feeder'.current = feeder.current /\ feeder'.contract = feeder.contract
          /\ feeder'.closed = feeder.closed
      BY <1>1, <3>1, <3>2 DEF Feeders
    <3>4. FeederInv'
      BY <1>1, <1>2, <1>4, <3>1, <3>3 DEF FeederInv
    <3>5. QueueTypes' /\ SlotsFit' /\ BytesFit'
      BY <1>2, <1>3, <1>4, <2>1, <3>1, <3>3, PermitsStay
    <3>6. accepted' \in Nat /\ pushed' \in 0..accepted'
      BY <1>1, <1>2, <2>1 DEF PlainTypes
    <3> QED
      BY <1>2, <3>3, <3>4, <3>5, <3>6
  <2>2. CASE /\ feeder' = [feeder EXCEPT !.at = "recv", !.record = NoRecord]
             /\ slots' = slots + 1 /\ bytes' = bytes + feeder.record.size
             /\ UNCHANGED accepted
    <3>1. /\ feeder' \in Feeders /\ feeder'.at = "recv" /\ feeder'.record = NoRecord
          /\ feeder'.current = feeder.current /\ feeder'.contract = feeder.contract
          /\ feeder'.closed = feeder.closed
      BY <1>1, <2>2, RecordFacts DEF Feeders
    <3>2. FeederInv'
      BY <1>1, <1>2, <1>4, <3>1 DEF FeederInv
    <3>3. slots' = IF feeder.record = NoRecord THEN slots ELSE slots + 1
      BY <1>4, <2>2
    <3>4. QueueTypes' /\ SlotsFit' /\ BytesFit'
      BY <1>2, <1>3, <2>2, <3>1, <3>3, PermitsReturn
    <3>5. accepted' \in Nat /\ pushed' \in 0..accepted'
      BY <1>1, <1>2, <2>2 DEF PlainTypes
    <3> QED
      BY <3>1, <3>2, <3>4, <3>5
  <2> QED
    BY <2>1, <2>2 DEF FeederSubmits
<1>6. ProofInv' /\ PushedIsCountedOnce'
  BY <1>1, <1>2, <1>3, <1>5 DEF ProofInv, PushedIsCountedOnce
<1>7. /\ cancel' \in BOOLEAN /\ authenticated' \in BOOLEAN /\ stopped' \in BOOLEAN
      /\ observer' \in BOOLEAN /\ unconfirmed' \in BOOLEAN
      /\ native' \in {"none", "live", "destroyed", "quarantined"}
      /\ geometry' \in Contracts \cup {NoContract}
      /\ pushedBefore' \in Nat /\ pushedEver' \in Nat
  BY <1>1, <1>2 DEF PlainTypes
<1>8. feeder.at \notin {"idle", "done"} /\ UNCHANGED feederFrame
  BY <1>2
<1> QED
  BY <1>5, <1>6, <1>7, <1>8, FeederStepKeeps

(* run() and finish(): only the start of the tasks touches the media path. *)
LEMMA MainStepKeeps ==
    ASSUME MediaInv,
           UNCHANGED <<receiver, feeder, video, slots, bytes, source, writer, observer, native,
                       accepted, pushed, pushedBefore, pushedEver, records, switches, geometry,
                       closer>>,
           main' \in {"accepted", "joining", "dropping", "finishing", "notifying", "done"},
           joined' \in SUBSET {"receive", "write", "feed"}, runResult' \in Results,
           cancel' \in BOOLEAN, authenticated' \in BOOLEAN, stopped' \in BOOLEAN,
           unconfirmed' \in BOOLEAN, notified' \in BOOLEAN,
           lease' \in {"held", "released", "lost"},
           finished' \in {"none", "ok", "unconfirmed", "destroy"},
           ProofInv', EndingInv', ReleaseIsSafe', DestroyFailureIsReported'
    PROVE  MediaInv'
<1>1. PlainTypes'
  BY DEF MediaInv, PlainTypes
<1>2. QueueTypes' /\ ReceiverInv' /\ SlotsFit' /\ BytesFit'
  BY QueuesKeep
<1>3. FeederInv'
  BY FeederKeeps
<1>4. PushedIsCountedOnce'
  BY DEF MediaInv, PushedIsCountedOnce
<1> QED
  BY <1>1, <1>2, <1>3, <1>4 DEF MediaInv

(* Before finish() has set a result there is nothing to say of it.         *)
LEMMA NothingFinished ==
    ASSUME finished' = "none"
    PROVE  ReleaseIsSafe' /\ DestroyFailureIsReported'
BY DEF ReleaseIsSafe, DestroyFailureIsReported

LEMMA TaskResults ==
    ASSUME MediaInv, NEW t \in {"receive", "write", "feed"}, TaskDone(t)
    PROVE  /\ TaskResult(t) \in Results
           /\ t = "feed" => feeder.at = "done" /\ TaskResult(t) = feeder.result
<1>1. feeder \in Feeders
  BY DEF MediaInv, QueueTypes
<1>2. feeder.result \in Results
  BY <1>1 DEF Feeders
<1>3. CASE t = "receive"
  BY <1>3 DEF TaskDone, TaskResult, Results
<1>4. CASE t = "write"
  BY <1>4 DEF TaskDone, TaskResult, Results
<1>5. CASE t = "feed"
  BY <1>2, <1>5 DEF TaskDone, TaskResult
<1> QED
  BY <1>3, <1>4, <1>5

LEMMA AuthenticatesKeep ==
    ASSUME MediaInv, MainAuthenticates
    PROVE  MediaInv'
<1>1. PlainTypes /\ FeederInv /\ ProofInv /\ EndingInv
  BY DEF MediaInv
<1>2. /\ main = "authenticating" /\ main' \in {"dropping", "accepted"} /\ runResult' \in Results
      /\ UNCHANGED <<receiver, feeder, video, slots, bytes, source, writer, observer, native,
                     accepted, pushed, pushedBefore, pushedEver, records, switches, geometry,
                     closer>>
      /\ UNCHANGED <<joined, cancel, authenticated, stopped, unconfirmed, notified, lease, finished>>
  BY <1>1 DEF MainAuthenticates, mainFrame, stateVars, closeVars, PlainTypes, Results
<1>3. finished = "none" /\ feeder.at = "idle" /\ feeder.result = "ok" /\ joined = {} /\ lease = "held"
  BY <1>1, <1>2 DEF EndingInv, FeederInv, PlainTypes
<1>4. ProofInv'
  BY <1>1, <1>2 DEF ProofInv
<1>5. EndingInv'
  BY <1>1, <1>2, <1>3 DEF EndingInv
<1>6. ReleaseIsSafe' /\ DestroyFailureIsReported'
  BY <1>2, <1>3, NothingFinished
<1>7. /\ joined' \in SUBSET {"receive", "write", "feed"}
      /\ cancel' \in BOOLEAN /\ authenticated' \in BOOLEAN /\ stopped' \in BOOLEAN
      /\ unconfirmed' \in BOOLEAN /\ notified' \in BOOLEAN
      /\ lease' \in {"held", "released", "lost"}
      /\ finished' \in {"none", "ok", "unconfirmed", "destroy"}
      /\ main' \in {"accepted", "joining", "dropping", "finishing", "notifying", "done"}
  BY <1>1, <1>2 DEF PlainTypes
<1> QED
  BY <1>2, <1>4, <1>5, <1>6, <1>7, MainStepKeeps

LEMMA StartsKeep ==
    ASSUME MediaInv, MainStarts
    PROVE  MediaInv'
<1>1. /\ PlainTypes /\ QueueTypes /\ ReceiverInv /\ SlotsFit /\ BytesFit /\ FeederInv /\ ProofInv
      /\ EndingInv /\ PushedIsCountedOnce
  BY DEF MediaInv
<1>2. /\ main = "accepted"
      /\ UNCHANGED <<video, slots, bytes, observer, native, accepted, pushed, pushedBefore,
                     pushedEver, records, switches, closer>>
      /\ UNCHANGED <<joined, cancel, stopped, unconfirmed, notified, lease, finished>>
  BY DEF MainStarts, mainFrame, closeVars
<1>3. /\ finished = "none" /\ feeder.at = "idle" /\ feeder.result = "ok" /\ joined = {}
      /\ lease = "held" /\ receiver.at = "idle" /\ writer = "idle"
      /\ feeder.record = NoRecord /\ feeder.current = NoContract /\ feeder.contract = NoContract
      /\ feeder.closed = "ok"
  BY <1>1, <1>2 DEF EndingInv, FeederInv, PlainTypes
<1>4. ReleaseIsSafe' /\ DestroyFailureIsReported'
  BY <1>2, <1>3, NothingFinished
<1>5. CASE /\ main' = "dropping" /\ runResult' = "error"
           /\ UNCHANGED <<authenticated, geometry, source, receiver, writer, feeder>>
  <2>1. ProofInv'
    BY <1>1, <1>2, <1>5 DEF ProofInv
  <2>2. EndingInv'
    BY <1>1, <1>2, <1>3, <1>5 DEF EndingInv
  <2>3. runResult' \in Results
    BY <1>5 DEF Results
  <2>4. /\ joined' \in SUBSET {"receive", "write", "feed"}
        /\ cancel' \in BOOLEAN /\ authenticated' \in BOOLEAN /\ stopped' \in BOOLEAN
        /\ unconfirmed' \in BOOLEAN /\ notified' \in BOOLEAN
        /\ lease' \in {"held", "released", "lost"}
        /\ finished' \in {"none", "ok", "unconfirmed", "destroy"}
        /\ main' \in {"accepted", "joining", "dropping", "finishing", "notifying", "done"}
    BY <1>1, <1>2, <1>5 DEF PlainTypes
  <2> QED
    BY <1>2, <1>4, <1>5, <2>1, <2>2, <2>3, <2>4, MainStepKeeps
<1>6. CASE /\ main' = "running"
           /\ source' \in Contracts
           /\ geometry' = source'
           /\ authenticated' = TRUE
           /\ receiver' = [at |-> "reading", record |-> NoRecord]
           /\ writer' = "running"
           /\ feeder' = [feeder EXCEPT !.at = "recv"]
           /\ UNCHANGED runResult
  <2>1. /\ feeder' \in Feeders /\ feeder'.at = "recv" /\ feeder'.record = NoRecord
        /\ feeder'.current = NoContract /\ feeder'.contract = NoContract /\ feeder'.closed = "ok"
        /\ feeder'.result = "ok"
    <3>1. feeder \in Feeders
      BY <1>1 DEF QueueTypes
    <3> QED
      BY <1>3, <1>6, <3>1 DEF Feeders
  <2>2. receiver' \in Receivers /\ receiver'.at = "reading" /\ receiver'.record = NoRecord
    BY <1>6 DEF Receivers
  <2>3. QueueTypes'
    BY <1>1, <1>2, <2>1, <2>2 DEF QueueTypes
  <2>4. ReceiverInv'
    BY <1>6, <2>2 DEF ReceiverInv
  <2>5. SlotsFit'
    <3>1. SlotOfReceiver' = SlotOfReceiver /\ SlotOfFeeder' = SlotOfFeeder
      BY <1>3, <2>1, <2>2 DEF SlotOfReceiver, SlotOfFeeder
    <3> QED
      BY <1>1, <1>2, <3>1 DEF SlotsFit
  <2>6. BytesFit'
    <3>1. BytesInHand' = BytesInHand
      BY <1>3, <2>2 DEF BytesInHand
    <3>2. bytes' + feeder'.record.size = bytes + feeder.record.size
      BY <1>2, <1>3, <2>1
    <3> QED
      BY <1>1, <1>2, <3>1, <3>2, BytesKeep
  <2>7. FeederInv'
    BY <1>1, <1>2, <1>3, <2>1 DEF FeederInv
  <2>8. ProofInv' /\ PushedIsCountedOnce'
    BY <1>1, <1>2, <1>3, <2>1 DEF ProofInv, PushedIsCountedOnce
  <2>9. EndingInv'
    BY <1>2, <1>3, <1>6 DEF EndingInv
  <2>10. PlainTypes'
    BY <1>1, <1>2, <1>6 DEF PlainTypes
  <2> QED
    BY <1>4, <2>3, <2>4, <2>5, <2>6, <2>7, <2>8, <2>9, <2>10 DEF MediaInv
<1> QED
  BY <1>5, <1>6 DEF MainStarts

LEMMA JoinsKeep ==
    ASSUME MediaInv, MainStops \/ MainJoins
    PROVE  MediaInv'
<1>1. PlainTypes /\ FeederInv /\ ProofInv /\ EndingInv
  BY DEF MediaInv
<1>2. /\ main \in {"running", "joining"}
      /\ UNCHANGED <<receiver, feeder, video, slots, bytes, source, writer, observer, native,
                     accepted, pushed, pushedBefore, pushedEver, records, switches, geometry,
                     closer>>
      /\ UNCHANGED <<unconfirmed, notified, lease, finished>>
  BY DEF MainStops, MainJoins, mainFrame, closeVars
<1>3. finished = "none" /\ lease = "held"
  BY <1>1, <1>2 DEF EndingInv, PlainTypes
<1> DEFINE JoinedWell ==
             /\ main' \in {"joining", "dropping"} /\ joined' \in SUBSET {"receive", "write", "feed"}
             /\ runResult' \in Results
             /\ "feed" \in joined' =>
                  feeder.at = "done" /\ (feeder.result = "destroy" => runResult' = "destroy")
             /\ main' = "dropping" => "feed" \in joined'
<1>4. JoinedWell
  <2>1. ASSUME MainStops
        PROVE  JoinedWell
    <3>1. joined = {} /\ main' = "joining"
      BY <1>1, <2>1 DEF MainStops, EndingInv
    <3>2. CASE runResult' = "ok" /\ UNCHANGED joined
      BY <3>1, <3>2 DEF Results
    <3>3. CASE \E t \in {"receive", "write", "feed"} :
                 TaskDone(t) /\ runResult' = TaskResult(t) /\ joined' = {t}
      <4>1. PICK t \in {"receive", "write", "feed"} :
                 TaskDone(t) /\ runResult' = TaskResult(t) /\ joined' = {t}
        BY <3>3
      <4>2. TaskResult(t) \in Results
            /\ (t = "feed" => feeder.at = "done" /\ TaskResult(t) = feeder.result)
        BY <4>1, TaskResults
      <4> QED
        BY <3>1, <4>1, <4>2
    <3> QED
      BY <2>1, <3>2, <3>3 DEF MainStops
  <2>2. ASSUME MainJoins
        PROVE  JoinedWell
    <3>1. main = "joining"
      BY <2>2 DEF MainJoins
    <3>2. CASE \E t \in {"receive", "write", "feed"} \ joined :
                 /\ TaskDone(t)
                 /\ joined' = joined \cup {t}
                 /\ runResult' = IF runResult = "ok" \/ TaskResult(t) = "destroy"
                                 THEN TaskResult(t) ELSE runResult
                 /\ UNCHANGED main
      <4>1. PICK t \in {"receive", "write", "feed"} :
                 /\ TaskDone(t)
                 /\ joined' = joined \cup {t}
                 /\ runResult' = IF runResult = "ok" \/ TaskResult(t) = "destroy"
                                 THEN TaskResult(t) ELSE runResult
                 /\ UNCHANGED main
        BY <3>2
      <4>2. TaskResult(t) \in Results
            /\ (t = "feed" => feeder.at = "done" /\ TaskResult(t) = feeder.result)
        BY <4>1, TaskResults
      <4>3. /\ "feed" \in joined =>
                 feeder.at = "done" /\ (feeder.result = "destroy" => runResult = "destroy")
            /\ joined \in SUBSET {"receive", "write", "feed"} /\ runResult \in Results
        BY <1>1 DEF EndingInv, PlainTypes
      <4>4. "feed" \in joined' =>
                 feeder.at = "done" /\ (feeder.result = "destroy" => runResult' = "destroy")
        <5>1. CASE t = "feed"
          BY <4>1, <4>2, <4>3, <5>1
        <5>2. CASE t # "feed"
          BY <4>1, <4>2, <4>3, <5>2
        <5> QED
          BY <5>1, <5>2
      <4>5. joined' \in SUBSET {"receive", "write", "feed"} /\ runResult' \in Results
        BY <4>1, <4>2, <4>3
      <4> QED
        BY <3>1, <4>1, <4>4, <4>5
    <3>3. CASE /\ joined = {"receive", "write", "feed"}
               /\ main' = "dropping"
               /\ UNCHANGED <<joined, runResult>>
      BY <1>1, <3>3 DEF EndingInv, PlainTypes
    <3> QED
      BY <2>2, <3>2, <3>3 DEF MainJoins
  <2> QED
    BY <2>1, <2>2
<1>5. cancel' \in BOOLEAN /\ authenticated' \in BOOLEAN /\ stopped' \in BOOLEAN
  BY <1>1 DEF MainStops, MainJoins, CloseRequested, stateVars, PlainTypes
<1>6. ProofInv'
  BY <1>1, <1>2 DEF ProofInv
<1>7. EndingInv'
  BY <1>1, <1>2, <1>3, <1>4 DEF EndingInv
<1>8. ReleaseIsSafe' /\ DestroyFailureIsReported'
  BY <1>2, <1>3, NothingFinished
<1>9. /\ unconfirmed' \in BOOLEAN /\ notified' \in BOOLEAN
      /\ lease' \in {"held", "released", "lost"}
      /\ finished' \in {"none", "ok", "unconfirmed", "destroy"}
      /\ main' \in {"accepted", "joining", "dropping", "finishing", "notifying", "done"}
      /\ joined' \in SUBSET {"receive", "write", "feed"} /\ runResult' \in Results
  BY <1>1, <1>2, <1>4 DEF PlainTypes
<1> QED
  BY <1>2, <1>5, <1>6, <1>7, <1>8, <1>9, MainStepKeeps

LEMMA DropsLeaseKeep ==
    ASSUME MediaInv, MainDropsLease
    PROVE  MediaInv'
<1>1. PlainTypes /\ FeederInv /\ ProofInv /\ EndingInv
  BY DEF MediaInv
<1>2. /\ main = "dropping" /\ main' = "finishing"
      /\ \/ /\ lease' = "released"
            /\ UNCHANGED <<unconfirmed, runResult>>
         \/ /\ lease' = "lost"
            /\ unconfirmed' = TRUE
            /\ runResult' = IF runResult = "ok" THEN "error" ELSE runResult
      /\ UNCHANGED <<receiver, feeder, video, slots, bytes, source, writer, observer, native,
                     accepted, pushed, pushedBefore, pushedEver, records, switches, geometry,
                     closer>>
      /\ UNCHANGED <<joined, cancel, authenticated, stopped, notified, finished>>
  BY DEF MainDropsLease, mainFrame, stateVars, closeVars
<1>3. finished = "none" /\ lease = "held"
  BY <1>1, <1>2 DEF EndingInv, PlainTypes
<1>4. ProofInv'
  BY <1>1, <1>2, <1>3 DEF ProofInv
<1>5. runResult' \in Results /\ (runResult = "destroy" => runResult' = "destroy")
  BY <1>1, <1>2 DEF PlainTypes, Results
<1>6. EndingInv'
  BY <1>1, <1>2, <1>3, <1>5 DEF EndingInv
<1>7. ReleaseIsSafe' /\ DestroyFailureIsReported'
  BY <1>2, <1>3, NothingFinished
<1>8. /\ joined' \in SUBSET {"receive", "write", "feed"}
      /\ cancel' \in BOOLEAN /\ authenticated' \in BOOLEAN /\ stopped' \in BOOLEAN
      /\ unconfirmed' \in BOOLEAN /\ notified' \in BOOLEAN
      /\ lease' \in {"held", "released", "lost"}
      /\ finished' \in {"none", "ok", "unconfirmed", "destroy"}
      /\ main' \in {"accepted", "joining", "dropping", "finishing", "notifying", "done"}
  BY <1>1, <1>2 DEF PlainTypes
<1> QED
  BY <1>2, <1>4, <1>5, <1>6, <1>7, <1>8, MainStepKeeps

(* finish(): `unconfirmed' now says whether anything still uses the        *)
(* Surface, and a failed Destroy has reached the result of run().          *)
LEMMA FinishesKeep ==
    ASSUME MediaInv, MainFinishes
    PROVE  MediaInv'
<1>1. PlainTypes /\ FeederInv /\ ProofInv /\ EndingInv
  BY DEF MediaInv
<1>2. /\ main = "finishing" /\ main' = "notifying" /\ authenticated' = FALSE
      /\ finished' = CASE ~unconfirmed -> "ok"
                       [] unconfirmed /\ runResult = "destroy" -> "destroy"
                       [] OTHER -> "unconfirmed"
      /\ UNCHANGED <<receiver, feeder, video, slots, bytes, source, writer, observer, native,
                     accepted, pushed, pushedBefore, pushedEver, records, switches, geometry,
                     closer>>
      /\ UNCHANGED <<joined, runResult, cancel, lease, unconfirmed, stopped, notified>>
  BY DEF MainFinishes, receiveVars, decoderVars, closeVars
<1>3. /\ finished' \in {"ok", "destroy", "unconfirmed"}
      /\ finished' = "ok" <=> ~unconfirmed
      /\ finished' = "unconfirmed" => runResult # "destroy"
  BY <1>1, <1>2 DEF PlainTypes
<1>4. /\ feeder.at \in {"idle", "done"} /\ feeder.current = NoContract /\ ~observer
      /\ native # "live" /\ (feeder.result = "destroy" => runResult = "destroy")
      /\ lease \in {"released", "lost"}
      /\ feeder.closed = "destroy" => feeder.result = "destroy"
  BY <1>1, <1>2 DEF EndingInv, FeederInv, PlainTypes
<1>5. ReleaseIsSafe'
  <2>1. unconfirmed <=> lease = "lost" \/ native = "quarantined"
    BY <1>1, <1>4 DEF ProofInv
  <2> QED
    BY <1>2, <1>3, <1>4, <2>1 DEF ReleaseIsSafe
<1>6. DestroyFailureIsReported'
  BY <1>2, <1>3, <1>4 DEF DestroyFailureIsReported
<1>7. ProofInv'
  BY <1>1, <1>2 DEF ProofInv
<1>8. EndingInv'
  BY <1>1, <1>2, <1>4 DEF EndingInv
<1>9. /\ joined' \in SUBSET {"receive", "write", "feed"} /\ runResult' \in Results
      /\ cancel' \in BOOLEAN /\ authenticated' \in BOOLEAN /\ stopped' \in BOOLEAN
      /\ unconfirmed' \in BOOLEAN /\ notified' \in BOOLEAN
      /\ lease' \in {"held", "released", "lost"}
      /\ finished' \in {"none", "ok", "unconfirmed", "destroy"}
      /\ main' \in {"accepted", "joining", "dropping", "finishing", "notifying", "done"}
  BY <1>1, <1>2, <1>3 DEF PlainTypes
<1> QED
  BY <1>2, <1>5, <1>6, <1>7, <1>8, <1>9, MainStepKeeps

LEMMA NotifiesKeep ==
    ASSUME MediaInv, MainNotifies
    PROVE  MediaInv'
<1>1. PlainTypes /\ ProofInv /\ EndingInv /\ ReleaseIsSafe /\ DestroyFailureIsReported
  BY DEF MediaInv
<1>2. /\ main = "notifying" /\ main' = "done" /\ notified' \in BOOLEAN
      /\ UNCHANGED <<receiver, feeder, video, slots, bytes, source, writer, observer, native,
                     accepted, pushed, pushedBefore, pushedEver, records, switches, geometry,
                     closer>>
      /\ UNCHANGED <<joined, runResult, cancel, authenticated, lease, unconfirmed, stopped, finished>>
  BY DEF MainNotifies, receiveVars, decoderVars, stateVars
<1>3. ProofInv' /\ ReleaseIsSafe' /\ DestroyFailureIsReported'
  BY <1>1, <1>2 DEF ProofInv, ReleaseIsSafe, DestroyFailureIsReported
<1>4. EndingInv'
  BY <1>1, <1>2 DEF EndingInv
<1>5. /\ joined' \in SUBSET {"receive", "write", "feed"} /\ runResult' \in Results
      /\ cancel' \in BOOLEAN /\ authenticated' \in BOOLEAN /\ stopped' \in BOOLEAN
      /\ unconfirmed' \in BOOLEAN /\ lease' \in {"held", "released", "lost"}
      /\ finished' \in {"none", "ok", "unconfirmed", "destroy"}
      /\ main' \in {"accepted", "joining", "dropping", "finishing", "notifying", "done"}
  BY <1>1, <1>2 DEF PlainTypes
<1> QED
  BY <1>2, <1>3, <1>4, <1>5, MainStepKeeps

LEMMA MediaInitInv == MediaInit => MediaInv
<1> SUFFICES ASSUME MediaInit PROVE MediaInv
  OBVIOUS
<1>1. /\ VideoRecords \in Nat \ {0} /\ VideoBytes \in Nat \ {0} /\ MaxRecords \in Nat
      /\ MaxSwitches \in Nat /\ NoRecord.size = 0 /\ NoRecord \in HeldRecord
  BY MediaAssumption, RecordFacts
<1>2. PlainTypes
  <2>1. records \in 0..MaxRecords /\ switches \in 0..MaxSwitches
    BY <1>1 DEF MediaInit
  <2>2. accepted \in Nat /\ pushed \in 0..accepted /\ pushedBefore \in Nat /\ pushedEver \in Nat
    BY DEF MediaInit
  <2> QED
    BY <2>1, <2>2 DEF MediaInit, PlainTypes, Results
<1>3. feeder \in Feeders /\ receiver \in Receivers
  BY <1>1 DEF MediaInit, Feeders, Receivers, Results
<1>4. QueueTypes
  BY <1>1, <1>3 DEF MediaInit, QueueTypes
<1>5. ReceiverInv /\ FeederInv /\ ProofInv /\ EndingInv
  BY DEF MediaInit, ReceiverInv, FeederInv, ProofInv, EndingInv
<1>6. SlotsFit
  <2>1. SlotOfReceiver = 0 /\ SlotOfFeeder = 0
    BY DEF MediaInit, SlotOfReceiver, SlotOfFeeder
  <2> QED
    BY <1>1, <2>1 DEF MediaInit, SlotsFit
<1>7. BytesFit
  <2>1. Weighs(<<>>, VideoBytes, VideoBytes)
    <3> DEFINE s == [i \in 0..0 |-> VideoBytes]
    <3>1. s \in [0..Len(<<>>) -> 0..VideoBytes] /\ s[0] = VideoBytes
      BY <1>1
    <3>2. \A i \in 1..Len(<<>>) : s[i] = s[i - 1] + <<>>[i].size
      OBVIOUS
    <3>3. \A i, j \in 0..Len(<<>>) : i <= j => s[i] <= s[j]
      BY <1>1
    <3> HIDE DEF s
    <3>4. Len(<<>>) = 0
      OBVIOUS
    <3> QED
      BY <3>1, <3>2, <3>3, <3>4 DEF Weighs
  <2>2. BytesInHand = 0 /\ VideoBytes + 0 = VideoBytes /\ VideoBytes \in 0..VideoBytes
        /\ bytes + feeder.record.size = VideoBytes /\ video = <<>>
    BY <1>1 DEF MediaInit, BytesInHand
  <2>3. VideoBytes + BytesInHand <= VideoBytes
    BY <1>1, <2>2
  <2> QED
    BY <2>1, <2>2, <2>3 DEF BytesFit
<1>8. PushedIsCountedOnce /\ ReleaseIsSafe /\ DestroyFailureIsReported
  BY DEF MediaInit, PushedIsCountedOnce, ReleaseIsSafe, DestroyFailureIsReported
<1> QED
  BY <1>2, <1>4, <1>5, <1>6, <1>7, <1>8 DEF MediaInv

LEMMA MediaStutters ==
    ASSUME MediaInv, UNCHANGED mediaVars
    PROVE  MediaInv'
<1>1. /\ UNCHANGED <<main, joined, runResult, lease, feeder, observer, native, pushed,
                     pushedEver, pushedBefore, unconfirmed, finished>>
      /\ UNCHANGED <<receiver, video, slots, bytes, source, writer, records, switches,
                     geometry, accepted, cancel, authenticated, stopped, closer, notified>>
  BY DEF mediaVars
<1>2. PlainTypes'
  BY <1>1 DEF MediaInv, PlainTypes
<1>3. QueueTypes' /\ ReceiverInv' /\ SlotsFit' /\ BytesFit'
  BY <1>1, QueuesKeep
<1>4. /\ FeederInv' /\ ProofInv' /\ EndingInv'
      /\ PushedIsCountedOnce' /\ ReleaseIsSafe' /\ DestroyFailureIsReported'
  BY <1>1, RestKeeps
<1> QED
  BY <1>2, <1>3, <1>4 DEF MediaInv

LEMMA MediaStepInv == MediaInv /\ [MediaNext]_mediaVars => MediaInv'
<1> SUFFICES ASSUME MediaInv, [MediaNext]_mediaVars PROVE MediaInv'
  OBVIOUS
<1>1. CASE ReceiverNext
  BY <1>1, ReceiverKeeps
<1>2. CASE WriterEnds \/ DecoderFails
  BY <1>2, OutsideKeeps
<1>3. CASE DecoderPushes
  BY <1>3, PushesKeep
<1>4. CASE UserNext
  BY <1>4, UserKeeps
<1>5. CASE FeederNext
  <2>1. CASE FeederStops \/ FeederGivesUp
    BY <2>1, StopsKeep
  <2>2. CASE FeederTakes
    BY <2>2, TakesKeep
  <2>3. CASE DecoderCloses
    BY <2>3, ClosesKeep
  <2>4. CASE DecoderSettles
    BY <2>4, SettlesKeep
  <2>5. CASE FeederReopens
    BY <2>5, ReopensKeep
  <2>6. CASE DecoderOpens
    BY <2>6, OpensKeep
  <2>7. CASE FeederSubmits
    BY <2>7, SubmitsKeep
  <2> QED
    BY <1>5, <2>1, <2>2, <2>3, <2>4, <2>5, <2>6, <2>7 DEF FeederNext
<1>6. CASE MainNext
  <2>1. CASE MainAuthenticates
    BY <2>1, AuthenticatesKeep
  <2>2. CASE MainStarts
    BY <2>2, StartsKeep
  <2>3. CASE MainStops \/ MainJoins
    BY <2>3, JoinsKeep
  <2>4. CASE MainDropsLease
    BY <2>4, DropsLeaseKeep
  <2>5. CASE MainFinishes
    BY <2>5, FinishesKeep
  <2>6. CASE MainNotifies
    BY <2>6, NotifiesKeep
  <2> QED
    BY <1>6, <2>1, <2>2, <2>3, <2>4, <2>5, <2>6 DEF MainNext
<1>7. CASE UNCHANGED mediaVars
  BY <1>7, MediaStutters
<1> QED
  BY <1>1, <1>2, <1>3, <1>4, <1>5, <1>6, <1>7 DEF MediaNext

(* The permits bound what is left of them, and a record in the feeder's    *)
(* hand is in the decoder of its contract.                                 *)
LEMMA MediaInvImplies == MediaInv => DecoderIsHandled
<1> SUFFICES ASSUME MediaInv PROVE DecoderIsHandled
  OBVIOUS
<1>1. /\ PlainTypes /\ QueueTypes /\ SlotsFit /\ BytesFit /\ FeederInv
      /\ PushedIsCountedOnce /\ ReleaseIsSafe /\ DestroyFailureIsReported
      /\ VideoRecords \in Nat /\ VideoBytes \in Nat /\ NoContract \notin Contracts
  BY MediaAssumption DEF MediaInv
<1>2. slots \in 0..VideoRecords
  <2>1. SlotOfReceiver \in {0, 1} /\ SlotOfFeeder \in {0, 1}
    BY DEF SlotOfReceiver, SlotOfFeeder
  <2>2. Len(video) \in Nat /\ slots \in Nat
    BY <1>1 DEF QueueTypes
  <2> QED
    BY <1>1, <2>1, <2>2 DEF SlotsFit
<1>3. bytes \in 0..VideoBytes
  <2>1. PICK last \in 0..VideoBytes : Weighs(video, bytes + feeder.record.size, last)
    BY <1>1 DEF BytesFit
  <2>2. video \in Seq(Record) /\ bytes \in Nat /\ feeder.record.size \in Nat
    BY <1>1, RecordFacts DEF QueueTypes, Feeders
  <2>3. bytes + feeder.record.size \in 0..VideoBytes
    BY <2>1, <2>2, WeighsBounds
  <2> QED
    BY <1>1, <2>2, <2>3
<1>4. MediaTypeOK
  BY <1>1, <1>2, <1>3 DEF MediaTypeOK, PlainTypes, QueueTypes, Receivers, Feeders
<1>5. FedToItsDecoder
  <2>1. feeder.at = "feeding" =>
          feeder.record # NoRecord /\ feeder.record \in HeldRecord
          /\ feeder.current = feeder.record.contract
    BY <1>1 DEF FeederInv, QueueTypes, Feeders
  <2>2. feeder.at = "feeding" => feeder.current # NoContract
    BY <1>1, <2>1, RecordFacts
  <2> QED
    BY <1>1, <2>1, <2>2 DEF FedToItsDecoder, FeederInv
<1> QED
  BY <1>1, <1>4, <1>5 DEF DecoderIsHandled

(* Whatever the order of the records, of the changes of display, of the    *)
(* decoder's failures and of the close: the Surface is given back only     *)
(* when no decoder can use it, a failed Destroy is what close() reports,   *)
(* every picture pushed is counted once, and a unit reaches only the       *)
(* decoder opened for its contract (feed, feed_loop, close_decoder,        *)
(* run_inner and finish of viewer.rs).                                     *)
THEOREM MediaTheorem == MediaSpec => []DecoderIsHandled
<1> QED
  BY MediaInitInv, MediaStepInv, MediaInvImplies, PTL DEF MediaSpec

(* The geometry the viewer maps the mouse with is again the peer's as soon *)
(* as its decoder works on the peer's display (receive and feed_loop of    *)
(* viewer.rs publish it into the same field).                              *)
THEOREM GeometryTheorem == MediaSpec => []GeometryCatchesUp
<1>1. MediaInit => GeometryCatchesUp
  BY DEF MediaInit, GeometryCatchesUp
<1>2. MediaInv /\ GeometryCatchesUp /\ [MediaNext]_mediaVars => GeometryCatchesUp'
  <2> SUFFICES ASSUME MediaInv, GeometryCatchesUp, [MediaNext]_mediaVars
               PROVE  GeometryCatchesUp'
    OBVIOUS
  <2>1. feeder \in Feeders
    BY DEF MediaInv, QueueTypes
  <2>2. ASSUME feeder'.contract = feeder.contract, UNCHANGED <<source, geometry>>
        PROVE  GeometryCatchesUp'
    BY <2>2 DEF GeometryCatchesUp
  <2>3. ASSUME geometry' = source'
        PROVE  GeometryCatchesUp'
    BY <2>3 DEF GeometryCatchesUp
  <2>4. ASSUME NEW result, FeedLoopReturns(result)
        PROVE  feeder'.contract = feeder.contract
    BY <2>1, <2>4 DEF FeedLoopReturns, Feeders
  <2>5. CASE WriterEnds \/ DecoderFails \/ DecoderPushes \/ UserNext \/ UNCHANGED mediaVars
    <3>1. UNCHANGED <<feeder, source, geometry>>
      BY <2>5 DEF WriterEnds, DecoderFails, DecoderPushes, UserNext, UserRequestsClose,
           CloserStarts, CloserRegisters, CloserChecks, CloserWaits, CloserWakes, CloserStep,
           receiveVars, mediaVars
    <3> QED
      BY <2>2, <3>1
  <2>6. CASE ReceiverNext
    <3>1. \/ UNCHANGED <<feeder, source, geometry>>
          \/ geometry' = source'
      BY <2>6 DEF ReceiverNext, ReceiverCancelled, ReceiverFails, ReceiverSwitches, ReceiverReads,
           ReceiverAdmits, ReceiverSends, ReceiverStep
    <3> QED
      BY <2>2, <2>3, <3>1
  <2>7. CASE MainNext
    <3>1. \/ UNCHANGED <<feeder, source, geometry>>
          \/ geometry' = source'
      BY <2>7 DEF MainNext, MainAuthenticates, MainStarts, MainStops, MainJoins, MainDropsLease,
           MainFinishes, MainNotifies, receiveVars
    <3> QED
      BY <2>2, <2>3, <3>1
  <2>8. CASE FeederNext
    <3>1. source' = source
      BY <2>8 DEF FeederNext, FeederStops, FeederTakes, DecoderCloses, DecoderSettles,
           FeederReopens, DecoderOpens, FeederSubmits, FeederGivesUp, feederFrame, receiveVars
    <3>2. CASE FeederStops \/ FeederGivesUp
      BY <2>2, <2>4, <3>1, <3>2 DEF FeederStops, FeederGivesUp
    <3>3. CASE FeederTakes \/ DecoderCloses \/ DecoderSettles \/ FeederSubmits
      <4>1. feeder'.contract = feeder.contract
        BY <2>1, <3>3 DEF FeederTakes, DecoderCloses, DecoderSettles, AfterClose, FeederSubmits,
             Feeders
      <4>2. geometry' = geometry
        BY <3>3 DEF FeederTakes, DecoderCloses, DecoderSettles, FeederSubmits
      <4> QED
        BY <2>2, <3>1, <4>1, <4>2
    <3>4. CASE FeederReopens
      <4>1. feeder'.contract = feeder.contract
        BY <2>1, <2>4, <3>4 DEF FeederReopens, Feeders
      <4> QED
        BY <2>2, <3>1, <3>4, <4>1 DEF FeederReopens
    <3>5. CASE DecoderOpens
      <4>1. \/ geometry' = feeder'.contract
            \/ feeder'.contract = feeder.contract /\ geometry' = geometry
        BY <2>1, <2>4, <3>5 DEF DecoderOpens, Feeders
      <4> QED
        BY <2>2, <3>1, <4>1 DEF GeometryCatchesUp
    <3> QED
      BY <2>8, <3>2, <3>3, <3>4, <3>5 DEF FeederNext
  <2> QED
    BY <2>5, <2>6, <2>7, <2>8 DEF MediaNext
<1> QED
  BY MediaInitInv, MediaStepInv, <1>1, <1>2, PTL DEF MediaSpec

=============================================================================
