--------------------------- MODULE SessionSettings ---------------------------
(***************************************************************************)
(* What one OpenHarmony session stores of its settings, and what reaches   *)
(* the peer of them: the setters, the reports and the display and          *)
(* clipboard calls of native/ohos_har/src/session_compat.rs, through       *)
(* crates/rd-engine/src/session_backend.rs, to the viewer's options and    *)
(* control channel (crates/rd-engine/src/viewer.rs).                       *)
(*                                                                         *)
(* Every call holds the registry lock, except the middle of session_start. *)
(* The viewer's own task logs in, drains the channel and takes what the    *)
(* peer reports.  OhosSession models logins, events and closing, and       *)
(* ViewerInput what else goes through the channel; here a message is what  *)
(* it asks for, and one start runs at a time.                              *)
(***************************************************************************)
EXTENDS Naturals, Sequences

CONSTANTS Rates,        \* frame rates the frontend asks for
          Names,        \* names of qualities it uses
          Customs,      \* custom qualities it uses
          Room,         \* COMMANDS: capacity of the control channel
          MaxSettingAdds,  \* bound: session_add calls
          MaxSettingCalls,     \* bound: setting, display and clipboard calls
          MaxReads      \* bound: telemetry reads

ASSUME SettingsConstants ==
    /\ Rates \subseteq Nat /\ Customs \subseteq Nat /\ Room \in Nat \ {0}
    /\ MaxSettingAdds \in Nat /\ MaxSettingCalls \in Nat /\ MaxReads \in Nat

VARIABLES session,      \* the CompatSession
          start,        \* the options session_start copied, between its locks
          viewer,       \* the backend
          channel,      \* the viewer's control channel
          told,         \* the rate and quality the peer was last asked for
          strayed,      \* history: set before the login was accepted, or
                        \* reported by the peer
          sample,       \* history: the last telemetry read
          adds, calls, reads

settingsVars == <<session, start, viewer, channel, told, strayed, sample,
                  adds, calls, reads>>
tallies == <<adds, calls, reads>>

NoSettings == [gen |-> 0]
NoStart == [step |-> "none"]
NoBackend == [kind |-> "none"]
NothingTold == [fps |-> 0, quality |-> [preset |-> "none", custom |-> 0]]

-----------------------------------------------------------------------------
(* Values *)

ValidRate(fps) == fps \in 1..240
ValidCustom(custom) == custom \in 10..2000

normalize_quality_name(name) ==
    IF name \in {"low", "best", "custom"} THEN name ELSE "balanced"

(* ViewerImageQuality: its label and the custom value it carries.          *)
engine_quality(s) ==
    CASE s.quality \in {"low", "best"} -> [label |-> s.quality, custom |-> 0]
      [] s.quality = "custom" /\ ValidCustom(s.custom) ->
            [label |-> "custom", custom |-> s.custom]
      [] OTHER -> [label |-> "balanced", custom |-> 0]

(* proto_quality and custom_quality: a custom quality travels as balanced  *)
(* with its value, a preset with the value 0.                              *)
wire_quality(q) ==
    [preset |-> IF q.label = "custom" THEN "balanced" ELSE q.label,
     custom |-> q.custom]

(* session_value and the snapshot of a RustDesk backend.                   *)
Reported == [fps |-> viewer.fps, quality |-> wire_quality(viewer.quality)]

Alive == session # NoSettings
Installed == Alive /\ session.installed
RustDesk == Installed /\ viewer.kind = "rustdesk"

(* The settings' types.                                                    *)
SettingsTypeOK ==
    /\ Alive => /\ session.fps \in 1..240 /\ session.custom \in Nat
                /\ session.quality \in {"low", "balanced", "best", "custom"}
                /\ session.installed => viewer # NoBackend
    /\ start.step \in {"none", "dial", "install"}
    /\ viewer.kind \in {"none", "rustdesk", "vnc"}
    /\ Len(channel) <= Room
    /\ strayed \in BOOLEAN

-----------------------------------------------------------------------------
(* The session *)

SettingsAdd ==
    /\ ~Alive /\ adds < MaxSettingAdds
    /\ \E fps \in Rates, name \in Names, custom \in Customs,
          viewOnly \in BOOLEAN, clipboard \in BOOLEAN :
          session' = [gen |-> adds + 1, viewOnly |-> viewOnly,
                      clipboard |-> clipboard, installed |-> FALSE,
                      fps |-> IF ValidRate(fps) THEN fps ELSE 60,
                      quality |-> normalize_quality_name(name),
                      custom |-> IF ValidCustom(custom) THEN custom ELSE 0,
                      revision |-> 1, elapsed |-> 0]
    /\ adds' = adds + 1
    /\ UNCHANGED <<start, viewer, channel, told, strayed, sample, calls, reads>>

\* mutant
SetViewOnlyAnyTime(enabled) ==
    /\ Alive /\ calls < MaxSettingCalls
    /\ session' = [session EXCEPT !.viewOnly = enabled]
    /\ calls' = calls + 1
    /\ UNCHANGED <<start, viewer, channel, told, strayed, sample, adds, reads>>

(* The input policy cannot change once the backend is installed.           *)
SetViewOnly(enabled) ==
    /\ Alive /\ ~session.installed /\ calls < MaxSettingCalls
    /\ session' = [session EXCEPT !.viewOnly = enabled]
    /\ calls' = calls + 1
    /\ UNCHANGED <<start, viewer, channel, told, strayed, sample, adds, reads>>

SettingsClose ==
    /\ Alive
    /\ session' = NoSettings
    /\ viewer' = IF session.installed THEN NoBackend ELSE viewer
    /\ channel' = IF session.installed THEN <<>> ELSE channel
    /\ UNCHANGED <<start, told, strayed, sample, tallies>>

(* session_start under its first lock: the settings are copied.            *)
SettingsStartBegins ==
    /\ Alive /\ ~session.installed /\ start = NoStart
    /\ start' = [step |-> "dial", fps |-> session.fps,
                 quality |-> engine_quality(session),
                 clipboard |-> session.clipboard]
    /\ UNCHANGED <<session, viewer, channel, told, strayed, sample, tallies>>

(* Without the lock: the backend opens, or the start is refused.           *)
SettingsStartDials ==
    /\ start.step = "dial"
    /\ \/ /\ \E kind \in {"rustdesk", "vnc"} :
                viewer' = [kind |-> kind, fps |-> start.fps,
                           stage |-> IF kind = "vnc" THEN "running" ELSE "login",
                           options |-> [fps |-> start.fps, quality |-> start.quality],
                           quality |-> start.quality,
                           clipboard |-> start.clipboard, granted |-> FALSE]
          /\ start' = [start EXCEPT !.step = "install"]
          /\ strayed' = FALSE /\ told' = NothingTold
       \/ start' = NoStart /\ UNCHANGED <<viewer, strayed, told>>
    /\ UNCHANGED <<session, channel, sample, tallies>>

(* The second lock: a session removed meanwhile closes the backend.        *)
SettingsStartInstalls ==
    /\ start.step = "install"
    /\ start' = NoStart
    /\ session' = IF Alive THEN [session EXCEPT !.installed = TRUE] ELSE session
    /\ viewer' = IF Alive THEN viewer ELSE NoBackend
    /\ UNCHANGED <<channel, told, strayed, sample, tallies>>

-----------------------------------------------------------------------------
(* The channel of a RustDesk viewer *)

Authenticated == viewer.stage \in {"accepted", "running"}

(* send_option_control and enqueue: the channel is published after the     *)
(* viewer is authenticated, and a full one refuses.                        *)
CanSend == viewer.stage = "running" /\ Len(channel) < Room

Called == /\ calls < MaxSettingCalls /\ calls' = calls + 1
          /\ UNCHANGED <<start, told, sample, adds, reads>>

(* A setting goes to the channel first and is kept only when it got there; *)
(* before the login was accepted it is kept only.                          *)
\* mutant
SettingKeptFirst(message, kept) ==
    /\ viewer' = kept
    /\ channel' = IF Authenticated /\ CanSend THEN Append(channel, message) ELSE channel
    /\ strayed' = (strayed \/ ~Authenticated)

Setting(message, kept) ==
    \/ /\ Authenticated /\ CanSend
       /\ channel' = Append(channel, message)
       /\ viewer' = kept
       /\ UNCHANGED strayed
    \/ /\ Authenticated /\ ~CanSend
       /\ UNCHANGED <<viewer, channel, strayed>>
    \/ /\ ~Authenticated
       /\ viewer' = kept /\ strayed' = TRUE
       /\ UNCHANGED channel

(* Viewer::set_requested_fps; a VNC backend accepts and ignores a rate.    *)
RequestRate(fps) ==
    IF RustDesk THEN Setting([kind |-> "fps", fps |-> fps],
                             [viewer EXCEPT !.fps = fps])
                ELSE UNCHANGED <<viewer, channel, strayed>>

(* Viewer::set_image_quality; a VNC backend refuses.                       *)
RequestQuality(q) ==
    IF RustDesk THEN Setting([kind |-> "quality", quality |-> wire_quality(q)],
                             [viewer EXCEPT !.quality = q])
                ELSE UNCHANGED <<viewer, channel, strayed>>

(* The session keeps a setting also when its backend refuses it.           *)
Intended(s, fps) == [s EXCEPT !.fps = fps, !.revision = @ + 1]

SetCustomFps(fps) ==
    /\ Alive /\ ValidRate(fps) /\ Called
    /\ session' = Intended(session, fps)
    /\ RequestRate(fps)

SetImageQuality(name) ==
    /\ Alive /\ Called
    /\ name = "custom" => ValidCustom(session.custom)
    /\ session' = [session EXCEPT !.quality = normalize_quality_name(name)]
    /\ RequestQuality(engine_quality(session'))

(* The answer of the backend is not looked at.                             *)
SetCustomImageQuality(custom) ==
    /\ Alive /\ ValidCustom(custom) /\ Called
    /\ session' = [session EXCEPT !.custom = custom]
    /\ IF session.quality = "custom" THEN RequestQuality(engine_quality(session'))
       ELSE UNCHANGED <<viewer, channel, strayed>>

(* A RustDesk backend queues the message, a VNC backend does it at once or *)
(* refuses.                                                                *)
Queues(kind) ==
    /\ viewer.kind = "rustdesk" /\ CanSend
    /\ channel' = Append(channel, [kind |-> kind])
    /\ UNCHANGED <<session, viewer, strayed>>

SendClipboard ==
    /\ Installed /\ Called /\ ~session.viewOnly /\ session.clipboard
    /\ viewer.kind = "rustdesk" => viewer.clipboard /\ viewer.granted
    /\ Queues("clipboard")

(* session_change_resolution, and session_refresh, which any session may.  *)
ChangeResolution == Installed /\ Called /\ ~session.viewOnly /\ Queues("resolution")

RefreshVideo == Installed /\ Called /\ Queues("refresh")

(* Only display 0; the switch and the query of it are two messages, and    *)
(* the second may find the channel full.                                   *)
SwitchDisplay ==
    /\ Installed /\ Called /\ viewer.kind = "rustdesk" /\ CanSend
    /\ channel' = IF Len(channel) + 1 < Room
                  THEN channel \o <<[kind |-> "switch"], [kind |-> "query"]>>
                  ELSE Append(channel, [kind |-> "switch"])
    /\ UNCHANGED <<session, viewer, strayed>>

-----------------------------------------------------------------------------
(* The viewer's own steps *)

ViewerStep == UNCHANGED <<session, start, sample, tallies>>

(* login_request is made of the options the viewer was started with.       *)
LoginSends ==
    /\ viewer.kind = "rustdesk" /\ viewer.stage = "login"
    /\ viewer' = [viewer EXCEPT !.stage = "sent"]
    /\ told' = [fps |-> viewer.options.fps, quality |-> wire_quality(viewer.options.quality)]
    /\ ViewerStep /\ UNCHANGED <<channel, strayed>>

LoginAccepted ==
    /\ viewer.kind = "rustdesk" /\ viewer.stage = "sent"
    /\ \E granted \in BOOLEAN :
          viewer' = [viewer EXCEPT !.stage = "accepted", !.granted = granted]
    /\ ViewerStep /\ UNCHANGED <<channel, told, strayed>>

ChannelPublished ==
    /\ viewer.kind = "rustdesk" /\ viewer.stage = "accepted"
    /\ viewer' = [viewer EXCEPT !.stage = "running"]
    /\ ViewerStep /\ UNCHANGED <<channel, told, strayed>>

WriterSends ==
    /\ channel # <<>>
    /\ LET m == Head(channel) IN
         told' = CASE m.kind = "fps" -> [told EXCEPT !.fps = m.fps]
                   [] m.kind = "quality" -> [told EXCEPT !.quality = m.quality]
                   [] OTHER -> told
    /\ channel' = Tail(channel)
    /\ ViewerStep /\ UNCHANGED <<viewer, strayed>>

(* The peer's own report replaces what the viewer keeps.                   *)
PeerReports ==
    /\ viewer.kind = "rustdesk" /\ viewer.stage = "running" /\ Called
    /\ \E fps \in Rates : viewer' = [viewer EXCEPT !.fps = fps]
    /\ strayed' = TRUE
    /\ UNCHANGED <<session, channel>>

-----------------------------------------------------------------------------
(* session_get_frame_rate_snapshot: the clock of a session only advances,  *)
(* and a session without a running backend shows no rate.                  *)
advance_telemetry_clock(s) == {s.elapsed, s.elapsed + 1}

FrameRateSnapshot ==
    /\ Alive /\ reads < MaxReads
    /\ reads' = reads + 1
    /\ session' \in {[session EXCEPT !.elapsed = e] :
                        e \in advance_telemetry_clock(session)}
    /\ sample' = IF session.installed
                 THEN {[gen |-> session.gen, revision |-> session.revision,
                        fps |-> session.fps, elapsed |-> session'.elapsed]}
                 ELSE sample
    /\ UNCHANGED <<start, viewer, channel, told, strayed, adds, calls>>

SettingsInit ==
    /\ session = NoSettings /\ start = NoStart /\ viewer = NoBackend
    /\ channel = <<>> /\ strayed = FALSE /\ sample = {}
    /\ told = NothingTold
    /\ adds = 0 /\ calls = 0 /\ reads = 0

SettingsNext ==
    \/ SettingsAdd \/ SettingsClose
    \/ SettingsStartBegins \/ SettingsStartDials \/ SettingsStartInstalls
    \/ \E enabled \in BOOLEAN : SetViewOnly(enabled)
    \/ \E fps \in Rates : SetCustomFps(fps)
    \/ \E name \in Names : SetImageQuality(name)
    \/ \E custom \in Customs : SetCustomImageQuality(custom)
    \/ SendClipboard \/ ChangeResolution \/ RefreshVideo \/ SwitchDisplay
    \/ LoginSends \/ LoginAccepted \/ ChannelPublished \/ WriterSends \/ PeerReports
    \/ FrameRateSnapshot

SettingsSpec == SettingsInit /\ [][SettingsNext]_settingsVars

-----------------------------------------------------------------------------
(* Properties                                                              *)

(* The rate and the quality a session reports are the ones its peer was    *)
(* asked for, once the channel has drained: a change the full or not yet   *)
(* published channel refused is not reported.  Settings made before the    *)
(* login was accepted, and a peer's own report, are excepted.              *)
ReportedIsTold ==
    (RustDesk /\ Authenticated /\ channel = <<>> /\ ~strayed) => Reported = told

(* "Bumped whenever the requested rate changes, so a UI sampler treats a   *)
(* rate change as a new observation window": two reads of one session with *)
(* the same revision show the same rate, and the clock never moves back.   *)
SamplesAgree == [][\A a \in sample, b \in sample' :
    (a.gen = b.gen /\ a.revision = b.revision)
    => a.fps = b.fps /\ a.elapsed <= b.elapsed]_settingsVars

(* No clipboard text and no resolution change waits in the channel of a    *)
(* view-only session, whatever was set while its start was under way.      *)
ViewOnlyQueuesNothing == (Installed /\ session.viewOnly) =>
    \A i \in DOMAIN channel : channel[i].kind \notin {"clipboard", "resolution"}
=============================================================================
