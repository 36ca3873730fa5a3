------------------------------ MODULE MCDevice ------------------------------
(***************************************************************************)
(* The instance of what a device does around its sessions that TLC checks: *)
(* the Windows producer thread, its bitrate control, the colour contract   *)
(* of the pictures, the input of the user, the settings of a session, the  *)
(* native owners of the OpenHarmony bridge and the files of the desktop    *)
(* client.  They meet only in values fixed when a session opens, so a      *)
(* behaviour moves one of them and leaves the others in one of their       *)
(* initial states.                                                         *)
(***************************************************************************)
EXTENDS WindowsProducer, WindowsBitrate, MediaColor, InputPath, SessionSettings,
        OhosBridge, LocalStore

VARIABLE part      \* what this behaviour is about

(* Every surface format and colour space the code tells apart, of an even  *)
(* and an odd width, on a display of eight and of ten bits.                *)
SomeDesktops == [width : {1, 2}, format : {"BGRA8", "RGB10A2", "FP16"},
                 space : {"G22_P709", "G2084_P2020", "scrgb"}, bits : {8, 10}]

(* No encoder, an old one, and one that does all there is.                 *)
SomeCards == {{}, {<<"H264", 8>>}, {<<"H264", 8>>, <<"H265", 8>>, <<"H265", 10>>}}

Init ==
    /\ part \in {"producer", "rate", "colour", "input", "settings", "bridge", "store"}
    /\ WinInit /\ SettingsInit /\ BridgeInit
    /\ part # "rate" => encoder = ResolveBitrate(CHOOSE s \in Shapes : TRUE)
    /\ RateInit
    /\ part # "colour" => desktop = CHOOSE d \in Desktops : TRUE
    /\ ColorInit
    /\ part # "colour" => options.card = {}
    /\ part # "input" => seat = [front |-> "ohos", route |-> "vnc", viewOnly |-> FALSE]
    /\ InputInit
    /\ part # "store" => realm = "peer"
    /\ LocalInit
    /\ part # "store" => peer.password = "none"

Next ==
    \/ part = "producer" /\ WinNext
       /\ UNCHANGED <<part, rateVars, colorVars, inputVars, settingsVars, bridgeVars, localVars>>
    \/ part = "rate" /\ RateNext
       /\ UNCHANGED <<part, winVars, colorVars, inputVars, settingsVars, bridgeVars, localVars>>
    \/ part = "colour" /\ ColorNext
       /\ UNCHANGED <<part, winVars, rateVars, inputVars, settingsVars, bridgeVars, localVars>>
    \/ part = "input" /\ InputNext
       /\ UNCHANGED <<part, winVars, rateVars, colorVars, settingsVars, bridgeVars, localVars>>
    \/ part = "settings" /\ SettingsNext
       /\ UNCHANGED <<part, winVars, rateVars, colorVars, inputVars, bridgeVars, localVars>>
    \/ part = "bridge" /\ BridgeNext
       /\ UNCHANGED <<part, winVars, rateVars, colorVars, inputVars, settingsVars, localVars>>
    \/ part = "store" /\ LocalNext
       /\ UNCHANGED <<part, winVars, rateVars, colorVars, inputVars, settingsVars, bridgeVars>>

Spec ==
    /\ Init
    /\ [][Next]_<<part, winVars, rateVars, colorVars, inputVars, settingsVars, bridgeVars,
                  localVars>>
    /\ WF_winVars(part = "producer" /\ WorkerNext)
    /\ WF_winVars(part = "producer" /\ JoinAndRetry)

(* The stream a viewer asked for: the unit after a keyframe request is a   *)
(* key unit, the pictures keep the negotiated pace (windows_publisher.rs), *)
(* the bitrate does not pulse (windows_bitrate.rs, observe), and two       *)
(* samples of one revision show one rate (session_compat.rs).              *)
StreamIsSteady == KeyframeIsNext /\ PaceIsKept /\ NoPulse /\ SamplesAgree

(* A unit says of its picture what the desktop meant when it was taken     *)
(* (media_color.rs, windows_publisher.rs).                                 *)
ColourIsTrue == part = "colour" => ColorTypeOK /\ ColourIsKept

(* Input that was delivered leaves no key, modifier or button held that    *)
(* the user let go of, and a click never overtakes the modifiers pressed   *)
(* before it (flutter_input.rs, session_backend.rs, input.rs).             *)
InputIsFaithful == part = "input" => InputTypeOK /\ NoStuckInput /\ ClickSeesModifiers

(* A session reports the settings its peer was told, and one that only     *)
(* looks on has nothing of the user's in its channel (session_compat.rs,   *)
(* the set calls).                                                         *)
SettingsAreTold ==
    part = "settings" => SettingsTypeOK /\ ReportedIsTold /\ ViewOnlyQueuesNothing

(* What the user stored is what is read back, and the Windows host keeps   *)
(* one identity (flutter_state.rs, config.rs, rd-engine-windows-host.rs).  *)
StoreIsFaithful == part = "store" => LocalTypeOK /\ SettingsAreKept /\ OneIdentity

(* A close request ends the worker, whatever the consumer does             *)
(* (platform/windows_host_publisher.rs, close).                            *)
ProducerEnds == part = "producer" => WinCloseEnds
=============================================================================
