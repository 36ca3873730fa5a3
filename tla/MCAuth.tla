------------------------------- MODULE MCAuth -------------------------------
(***************************************************************************)
(* The instance of authentication that TLC checks.  The host's state       *)
(* machine meets either every record a peer could send it, in any order,   *)
(* or a viewer that follows the code, over a wire, with its answers in     *)
(* flight.                                                                 *)
(***************************************************************************)
EXTENDS AuthPeers

VARIABLE part      \* "host", the state machine alone, or "peers"

MCFeatureOrder == <<"keyboard", "clipboard">>

(* Every policy, with and without a second factor; a ceiling that is below *)
(* what the password and the approval offer, and one that is not.          *)
MCConfigs ==
    {c \in HostAuthConfig :
        /\ c.ceiling \in {Features, {"keyboard"}}
        /\ c.password_permissions = Features}

(* Of a viewer that follows the code: a retry may change the password and  *)
(* an option, never the target; the claimed version decides whether a      *)
(* pending approval is explained.                                          *)
MCRequests ==
    {r \in LoginRequest :
        /\ r.my_id \in Ids
        /\ r.fault \in {"none", "target"}
        /\ r.fault = "target" => r.password = "empty"
        /\ r.disable \in {{}, {"keyboard"}}
        /\ r.disable = {"keyboard"} => r.password = "right" /\ r.fault = "none"
        /\ r.modern = (r.password # "right")}

MCOffers == {Features}

Init ==
    /\ part \in {"host", "peers"} /\ PeersInit
    /\ part = "peers" => config.ceiling = {"keyboard"}

Next ==
    \/ /\ part = "host" /\ AuthNext
       /\ UNCHANGED <<part, hostVars, viewerVars, toHost, toViewer, userVars>>
    \/ part = "peers" /\ PeersNext /\ UNCHANGED part

(* PeersFairness, while there are two peers.                               *)
Fairness ==
    /\ WF_peerVars(part = "peers" /\ HostRecv)
    /\ WF_peerVars(part = "peers" /\ HostPollsApproval)
    /\ WF_peerVars(part = "peers" /\ HostSends)
    /\ WF_peerVars(part = "peers" /\ UserNotifies)

Spec == Init /\ [][Next]_<<part, peerVars>> /\ Fairness

(* Viewer and host agree at every point of the exchange: when it is quiet, *)
(* in what the host has published, and in what the viewer takes itself for *)
(* (authentication.rs, session.rs).                                        *)
PeersAgree ==
    /\ AuthTypeOK
    /\ part = "peers" => QuietPeersAgree /\ PublishedIsGranted /\ ActiveIsAuthorized

(* A local decision about a session that awaits approval is applied,       *)
(* whatever the host is doing when it is made (authentication.rs,          *)
(* poll_approval; session.rs).                                             *)
DecisionCounts == part = "peers" => DecisionIsApplied
=============================================================================
