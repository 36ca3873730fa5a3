------------------------------ MODULE MCCommon ------------------------------
(***************************************************************************)
(* The instance of hbb_common that TLC checks: the frame codec, the        *)
(* WebRTC streams, the TLS fallback, the file transfer jobs and the        *)
(* configuration file.  The library's parts do not call each other, so a   *)
(* behaviour moves one of them and leaves the others in one of their       *)
(* initial states.                                                         *)
(***************************************************************************)
EXTENDS Framing, WebRtc, TlsFallback, FileTransfer, ConfigStore

VARIABLE part      \* the part this behaviour is about

(* Two files: one of two blocks, so that a download can be partial, and    *)
(* one of one.  The receiver has a file by the name of the first already.  *)
TwoSizes == <<2, 1>>

Init ==
    /\ part \in {"framing", "webrtc", "tls", "transfer", "config"}
    /\ FramingInit
    /\ part # "webrtc" => inline = TRUE
    /\ RtcInit
    /\ TlsInit
    /\ part # "tls" => /\ ~permitted /\ site = [stacks |-> Stacks, valid |-> TRUE]
                       /\ caller = [c \in Callers |-> Fresh("websocket", 0)]
    /\ TransferInit
    /\ disk = [f \in Files |-> IF f = 1 THEN [NoFiles EXCEPT !.path = <<>>] ELSE NoFiles]
    /\ ConfigInit
    /\ part # "config" => machine = "ohos" /\ onDisk.key = Unset

Next ==
    \/ part = "framing" /\ FramingNext
       /\ UNCHANGED <<part, rtcVars, tlsVars, transferVars, configVars>>
    \/ part = "webrtc" /\ RtcNext
       /\ UNCHANGED <<part, framingVars, tlsVars, transferVars, configVars>>
    \/ part = "tls" /\ TlsNext
       /\ UNCHANGED <<part, framingVars, rtcVars, transferVars, configVars>>
    \/ part = "transfer" /\ TransferNext
       /\ UNCHANGED <<part, framingVars, rtcVars, tlsVars, configVars>>
    \/ part = "config" /\ ConfigNext
       /\ UNCHANGED <<part, framingVars, rtcVars, tlsVars, transferVars>>

(* The fairness of each part, while it is the one that runs: see           *)
(* FramingFairness, RtcFairness and TransferFairness.                      *)
Fairness ==
    /\ WF_framingVars(part = "framing" /\ Deliver)
    /\ WF_framingVars(part = "framing" /\ Reading)
    /\ \A t \in Tasks : /\ WF_rtcVars(part = "webrtc" /\ OnEnded(t))
                        /\ WF_rtcVars(part = "webrtc" /\ Wake(t))
    /\ WF_transferVars(part = "transfer" /\ HandleReadJobs)
    /\ WF_transferVars(part = "transfer" /\ ReaderTakes)
    /\ WF_transferVars(part = "transfer" /\ WriterTakes)

Spec ==
    /\ Init
    /\ [][Next]_<<part, framingVars, rtcVars, tlsVars, transferVars, configVars>>
    /\ Fairness

(* A byte stream cut anywhere gives back the frames that were sent, and a  *)
(* WebRTC stream is to the peer whose offer it answers and is used only on *)
(* its real channel (bytes_codec.rs, decode; webrtc.rs, new, send_bytes).  *)
StreamsAreExact ==
    /\ part = "framing" => FramingTypeOK /\ FramesAreExact
    /\ part = "webrtc" => RtcTypeOK /\ StreamIsToPeer /\ ChannelIsReal

(* A digest vouches for the download it lies beside, and a file that was   *)
(* sent to its end is whole and in its place (fs.rs, write, read).         *)
TransferIsFaithful == part = "transfer" => TransferTypeOK /\ DigestVouches /\ SentIsWhole

(* A restart brings back the same device, and the last password the user   *)
(* set opens it (config.rs, load, store; password_security.rs).            *)
ConfigSurvives == part = "config" => ConfigTypeOK /\ RestartIsTheSame /\ PasswordSurvives

(* What is waited for comes or fails: every frame sent is decoded unless   *)
(* the connection breaks, a task that waits for its WebRTC connection      *)
(* wakes once it is open or has ended, and a reading job ends unless the   *)
(* user is asked about a file and never answers (bytes_codec.rs, decode;   *)
(* webrtc.rs, wait_for_connect_result; fs.rs, handle_read_jobs, confirm).  *)
WaitsEnd ==
    /\ part = "framing" => FramesArrive
    /\ part = "webrtc" => WaitersWake
    /\ part = "transfer" => JobEnds
=============================================================================
