----------------------------- MODULE ViewerInput -----------------------------
(***************************************************************************)
(* The viewer's outbound messages and the settings both ends keep,         *)
(* crates/rd-engine/src/viewer.rs: the send_* entry points of the user     *)
(* interface, the two queues (mouse and control), the writer, and what     *)
(* receive() does with permissions, options, probes and clipboard texts.   *)
(*                                                                         *)
(* The interface, the receiver and the writer run on threads of their own. *)
(* A message is its kind, and for a rate its value; a clipboard text is    *)
(* its number in the order of arrival.                                     *)
(***************************************************************************)
EXTENDS Naturals, Sequences, SequencesExt

CONSTANTS
    COMMANDS,           \* capacity of the mouse and of the control channel
    CLIPBOARD_QUEUE,    \* inbound texts kept
    Fps,                \* requested rates
    MaxSends,           \* bound: calls of the interface
    MaxReports,         \* bound: permission, option and probe messages
    MaxTexts            \* bound: inbound clipboard texts

ASSUME InputAssumption ==
    /\ COMMANDS \in Nat \ {0} /\ CLIPBOARD_QUEUE \in Nat \ {0}
    /\ Fps # {}
    /\ MaxSends \in Nat /\ MaxReports \in Nat /\ MaxTexts \in Nat

Plain == {"mouse", "key", "clipboard", "option", "echo"}
Message == [kind : Plain \cup {"fps"}, fps : Fps]
Queue == {q \in Seq(Message) : Len(q) <= COMMANDS}
Permission == {"keyboard", "clipboard"}

VARIABLES
    phase,              \* run(): before the login, logged in, running, over
    optionsFps,         \* ViewerOptions.requested_fps, what login_request reads
    loginFps,           \* the rates the login request carried: {} before it
    cancelled, loggedIn,
    remote,             \* remote_keyboard, remote_clipboard
    localClipboard,     \* State.local_clipboard
    requestedFps,       \* State.requested_fps
    published,          \* State.control is Some
    control, mouse,     \* the channels
    inputWriter,             \* write(): idle, waiting, sending a message, over
    storing,            \* set_requested_fps between its send and its store
    clipboard,          \* Inner.clipboard
    taken,              \* history: texts the interface read
    late,               \* history: per kind, written since the revocation
    lateClose,          \* history: messages written since the cancellation
    sends, reports, texts

sessionVars == <<phase, optionsFps, loginFps, localClipboard, published>>
clipboardVars == <<clipboard, taken, texts>>
lateVars == <<late, lateClose>>
inputVars ==
    <<phase, optionsFps, loginFps, cancelled, loggedIn, remote, localClipboard,
      requestedFps, published, control, mouse, inputWriter, storing, clipboard, taken,
      late, lateClose, sends, reports, texts>>

InputTypeOK ==
    /\ phase \in {"login", "accepted", "running", "over"}
    /\ optionsFps \in Fps /\ loginFps \subseteq Fps /\ requestedFps \in Fps
    /\ cancelled \in BOOLEAN /\ loggedIn \in BOOLEAN
    /\ localClipboard \in BOOLEAN /\ published \in BOOLEAN
    /\ remote \in [Permission -> BOOLEAN]
    /\ control \in Queue /\ mouse \in Queue
    /\ inputWriter \in [at : {"idle", "waiting", "sending", "over"}, message : Message]
    /\ storing \subseteq Fps
    /\ clipboard \in Seq(1..MaxTexts) /\ Len(clipboard) <= CLIPBOARD_QUEUE
    /\ taken \in Seq(1..MaxTexts)
    /\ late \in [{"mouse", "key"} -> Nat] /\ lateClose \in Nat
    /\ sends \in 0..MaxSends /\ reports \in 0..MaxReports /\ texts \in 0..MaxTexts

----------------------------------------------------------------------------
(* The interface *)

Msg(kind) == [kind |-> kind, fps |-> optionsFps]

UiStep ==
    /\ sends < MaxSends /\ storing = {}
    /\ sends' = sends + 1
    /\ UNCHANGED <<sessionVars, cancelled, loggedIn, remote, inputWriter, clipboardVars,
                   lateVars, reports>>

(* input_allowed, and the same condition in send_mouse *)
InputAllowed == loggedIn /\ remote["keyboard"] /\ ~cancelled

(* A channel without room, or whose writer has gone, refuses: the call     *)
(* returns an error and nothing changes.                                   *)
Enqueue(message) ==
    /\ published /\ inputWriter.at # "over" /\ Len(control) < COMMANDS
    /\ control' = Append(control, message)
    /\ UNCHANGED mouse

(* send_key, send_text *)
SendKey ==
    /\ UiStep /\ InputAllowed
    /\ Enqueue(Msg("key"))
    /\ UNCHANGED <<requestedFps, storing>>

SendClipboardText ==
    /\ UiStep
    /\ localClipboard /\ loggedIn /\ remote["clipboard"] /\ ~cancelled
    /\ Enqueue(Msg("clipboard"))
    /\ UNCHANGED <<requestedFps, storing>>

(* send_option_control and the calls made of it: image quality, display,   *)
(* resolution, refresh                                                     *)
SendOptionControl ==
    /\ UiStep /\ loggedIn /\ ~cancelled
    /\ Enqueue(Msg("option"))
    /\ UNCHANGED <<requestedFps, storing>>

SendMouse ==
    /\ UiStep /\ InputAllowed
    /\ inputWriter.at # "over" /\ Len(mouse) < COMMANDS
    /\ mouse' = Append(mouse, Msg("mouse"))
    /\ UNCHANGED <<control, requestedFps, storing>>

(* Before authentication the rate is only stored; afterwards it is queued  *)
(* first and stored next, and a peer's option may come between.            *)
SetRequestedFps ==
    /\ UiStep
    /\ \E fps \in Fps :
         \/ /\ ~loggedIn
            /\ requestedFps' = fps
            /\ UNCHANGED <<control, mouse, storing>>
         \/ /\ loggedIn /\ ~cancelled
            /\ Enqueue([kind |-> "fps", fps |-> fps])
            /\ storing' = {fps}
            /\ UNCHANGED requestedFps

StoreRequestedFps ==
    /\ storing # {}
    /\ requestedFps' \in storing
    /\ storing' = {}
    /\ UNCHANGED <<sessionVars, cancelled, loggedIn, remote, control, mouse, inputWriter,
                   clipboardVars, lateVars, sends, reports>>

TakeClipboardText ==
    /\ localClipboard /\ clipboard # <<>>
    /\ taken' = Append(taken, Head(clipboard))
    /\ clipboard' = Tail(clipboard)
    /\ UNCHANGED <<sessionVars, cancelled, loggedIn, remote, requestedFps, control,
                   mouse, inputWriter, storing, lateVars, sends, reports, texts>>

(* State::request_close, by the interface or by run() *)
RequestClose ==
    /\ phase # "over" /\ ~cancelled
    /\ cancelled' = TRUE /\ loggedIn' = FALSE
    /\ UNCHANGED <<sessionVars, remote, requestedFps, control, mouse, inputWriter, storing,
                   clipboardVars, lateVars, sends, reports>>

----------------------------------------------------------------------------
(* run() *)

RunStep ==
    UNCHANGED <<optionsFps, cancelled, localClipboard, requestedFps, mouse, storing,
                clipboardVars, lateVars, sends, reports>>

(* login_request: the request is built from the options. *)
LoginSends ==
    /\ phase = "login" /\ loginFps = {} /\ ~cancelled
    /\ loginFps' = {optionsFps}
    /\ RunStep
    /\ UNCHANGED <<phase, loggedIn, remote, published, control, inputWriter>>

(* The accepted permissions are stored and the session authenticated; the  *)
(* control sender is published afterwards, and the tasks start.            *)
LoginAccepted ==
    /\ phase = "login" /\ loginFps # {}
    /\ phase' = "accepted"
    /\ remote' \in [Permission -> BOOLEAN]
    /\ loggedIn' = TRUE
    /\ RunStep
    /\ UNCHANGED <<loginFps, published, control, inputWriter>>

TasksStart ==
    /\ phase = "accepted"
    /\ phase' = "running"
    /\ published' = TRUE
    /\ inputWriter' = [inputWriter EXCEPT !.at = "waiting"]
    /\ RunStep
    /\ UNCHANGED <<loginFps, loggedIn, remote, control>>

(* The login was given up, or every task was joined; the control sender is *)
(* revoked.                                                                *)
RunEnds ==
    /\ phase \in {"login", "running"} /\ cancelled
    /\ phase = "running" => inputWriter.at = "over"
    /\ phase' = "over"
    /\ published' = FALSE
    /\ loggedIn' = FALSE
    /\ RunStep
    /\ UNCHANGED <<loginFps, remote, control, inputWriter>>

----------------------------------------------------------------------------
(* receive() *)

Reported ==
    /\ phase = "running" /\ ~cancelled
    /\ reports < MaxReports
    /\ reports' = reports + 1
    /\ UNCHANGED <<sessionVars, mouse, inputWriter, storing, clipboardVars, lateClose,
                   sends>>

(* The count of messages written since the revocation starts again.        *)
ReceivePermission ==
    /\ Reported
    /\ \E p \in Permission, enabled \in BOOLEAN :
         /\ remote' = [remote EXCEPT ![p] = enabled]
         /\ late' = IF p = "keyboard" THEN [k \in {"mouse", "key"} |-> 0] ELSE late
    /\ UNCHANGED <<cancelled, loggedIn, requestedFps, control>>

ReceiveOption ==
    /\ Reported
    /\ requestedFps' \in Fps
    /\ UNCHANGED <<cancelled, loggedIn, remote, control, late>>

(* A probe is echoed through the control channel; when the interface has   *)
(* filled it, receive() fails and run() closes the session.                *)
ReceiveProbe ==
    /\ Reported
    /\ \/ /\ Enqueue(Msg("echo"))
          /\ UNCHANGED <<cancelled, loggedIn>>
       \/ /\ Len(control) >= COMMANDS \/ inputWriter.at = "over"
          /\ cancelled' = TRUE /\ loggedIn' = FALSE
          /\ UNCHANGED control
    /\ UNCHANGED <<remote, requestedFps, late>>

(* store_inbound_clipboard: the oldest text makes room.  A text that is    *)
(* not text, too long or empty is dropped before.                          *)
Store(text) ==
    Append(IF Len(clipboard) >= CLIPBOARD_QUEUE THEN Tail(clipboard) ELSE clipboard, text)

ReceiveClipboard ==
    /\ phase = "running" /\ ~cancelled /\ localClipboard
    /\ texts < MaxTexts
    /\ texts' = texts + 1
    /\ clipboard' = Store(texts + 1)
    /\ UNCHANGED <<sessionVars, cancelled, loggedIn, remote, requestedFps, control,
                   mouse, inputWriter, storing, taken, lateVars, sends, reports>>

----------------------------------------------------------------------------
(* write() *)

writerFrame == <<sessionVars, cancelled, loggedIn, remote, requestedFps, storing,
                 clipboardVars, sends, reports>>

WriterTakesUnchecked ==     \* mutant
    /\ inputWriter.at = "waiting" /\ ~cancelled
    /\ \/ /\ control # <<>>
          /\ inputWriter' = [at |-> "sending", message |-> Head(control)]
          /\ control' = Tail(control)
          /\ UNCHANGED mouse
       \/ /\ control = <<>> /\ mouse # <<>>
          /\ mouse' = Tail(mouse)
          /\ inputWriter' = [at |-> "sending", message |-> Head(mouse)]
          /\ UNCHANGED control
    /\ UNCHANGED <<writerFrame, lateVars>>

(* The control channel goes first; a mouse message is checked again and    *)
(* dropped when the permission has gone.                                   *)
WriterTakes ==
    /\ inputWriter.at = "waiting" /\ ~cancelled
    /\ \/ /\ control # <<>>
          /\ inputWriter' = [at |-> "sending", message |-> Head(control)]
          /\ control' = Tail(control)
          /\ UNCHANGED mouse
       \/ /\ control = <<>> /\ mouse # <<>>
          /\ mouse' = Tail(mouse)
          /\ inputWriter' = IF loggedIn /\ remote["keyboard"]
                       THEN [at |-> "sending", message |-> Head(mouse)]
                       ELSE inputWriter
          /\ UNCHANGED control
    /\ UNCHANGED <<writerFrame, lateVars>>

WriterSendsAndContinues ==      \* mutant
    /\ inputWriter.at = "sending"
    /\ LET kind == inputWriter.message.kind IN
         late' = IF kind \in {"mouse", "key"} /\ ~remote["keyboard"]
                 THEN [late EXCEPT ![kind] = @ + 1] ELSE late
    /\ lateClose' = IF cancelled THEN lateClose + 1 ELSE lateClose
    /\ \/ /\ control = <<>> /\ UNCHANGED control
          /\ inputWriter' = [inputWriter EXCEPT !.at = "waiting"]
       \/ /\ control # <<>>
          /\ inputWriter' = [inputWriter EXCEPT !.message = Head(control)]
          /\ control' = Tail(control)
    /\ UNCHANGED <<writerFrame, mouse>>

(* The record goes out: also after a cancellation that comes while the     *)
(* poll of the send is under way.                                          *)
WriterSends ==
    /\ inputWriter.at = "sending"
    /\ inputWriter' = [inputWriter EXCEPT !.at = "waiting"]
    /\ LET kind == inputWriter.message.kind IN
         late' = IF kind \in {"mouse", "key"} /\ ~remote["keyboard"]
                 THEN [late EXCEPT ![kind] = @ + 1] ELSE late
    /\ lateClose' = IF cancelled THEN lateClose + 1 ELSE lateClose
    /\ UNCHANGED <<writerFrame, control, mouse>>

(* Cancelled, at the top or while sending. *)
InputWriterEnds ==
    /\ inputWriter.at \in {"waiting", "sending"} /\ cancelled
    /\ inputWriter' = [inputWriter EXCEPT !.at = "over"]
    /\ UNCHANGED <<writerFrame, control, mouse, lateVars>>

(* The stream fails: run() closes the session. *)
WriterFails ==
    /\ inputWriter.at = "sending" /\ ~cancelled
    /\ inputWriter' = [inputWriter EXCEPT !.at = "over"]
    /\ cancelled' = TRUE /\ loggedIn' = FALSE
    /\ UNCHANGED <<sessionVars, remote, requestedFps, storing, clipboardVars, sends,
                   reports, control, mouse, lateVars>>

----------------------------------------------------------------------------
InputInit ==
    /\ phase = "login" /\ loginFps = {}
    /\ optionsFps \in Fps /\ requestedFps = optionsFps
    /\ cancelled = FALSE /\ loggedIn = FALSE /\ published = FALSE
    /\ remote = [p \in Permission |-> FALSE]
    /\ localClipboard \in BOOLEAN
    /\ control = <<>> /\ mouse = <<>>
    /\ inputWriter = [at |-> "idle", message |-> Msg("option")]
    /\ storing = {} /\ clipboard = <<>> /\ taken = <<>>
    /\ late = [k \in {"mouse", "key"} |-> 0] /\ lateClose = 0
    /\ sends = 0 /\ reports = 0 /\ texts = 0

InputNext ==
    \/ SendKey \/ SendClipboardText \/ SendOptionControl \/ SendMouse
    \/ SetRequestedFps \/ StoreRequestedFps \/ TakeClipboardText \/ RequestClose
    \/ LoginSends \/ LoginAccepted \/ TasksStart \/ RunEnds
    \/ ReceivePermission \/ ReceiveOption \/ ReceiveProbe \/ ReceiveClipboard
    \/ WriterTakes \/ WriterSends \/ InputWriterEnds \/ WriterFails

InputSpec == InputInit /\ [][InputNext]_inputVars

----------------------------------------------------------------------------
(* Once the receiver has seen the keyboard permission revoked, at most the *)
(* one mouse message already in the writer's hands still goes out, however *)
(* many were queued before.                                                *)
RevokedMouseStops == late["mouse"] <= 1

(* Once the session is cancelled at most the record being sent still goes  *)
(* out, whatever the queues hold, and also when the close came before the  *)
(* login was accepted and authenticated is set again after it.             *)
ClosedIsSilent == lateClose <= 1

(* "Input revocation is rechecked at write time, so a queued message can   *)
(* never outlive a permission change" (enqueue): a key queued before the   *)
(* revocation does not go out after it, but for the one in the writer's    *)
(* hands.                                                                  *)
RevokedKeysStop == late["key"] <= 1

(* What the peer may still see of the user: no mouse event beyond the one  *)
(* in the writer's hands once it took the keyboard away, and at most one   *)
(* message once the session was closed (viewer.rs, write).                 *)
InputStops == InputTypeOK /\ RevokedMouseStops /\ ClosedIsSilent
=============================================================================
