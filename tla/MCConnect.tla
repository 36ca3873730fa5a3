------------------------------ MODULE MCConnect ------------------------------
(***************************************************************************)
(* The instance of what a viewer connects with that TLC checks: the dial   *)
(* through the rendezvous servers, the keyed stream it ends in, or the VNC *)
(* client, which dials by itself.  A behaviour moves one of the three; the *)
(* other two stay in one of their initial states.                          *)
(***************************************************************************)
EXTENDS Rendezvous, SecureWire, VncClient

VARIABLE part      \* the connection this behaviour is about

(* One peer address of eight bits.  The low bits of time stamps below 16   *)
(* make it cross every boundary of AddrMangle.                             *)
PeerAddresses == {[ip |-> 15, port |-> 1]}

Init ==
    /\ part \in {"dial", "wire", "vnc"}
    /\ RendezvousInit
    /\ part # "dial" => /\ net.honest /\ net.relay
                        /\ ~config.override /\ config.valid
                        /\ config.deadline = CHOOSE d \in Deadlines : TRUE
    /\ part # "wire" => keys = CHOOSE k \in Configs : TRUE
    /\ SecureInit
    /\ VncInit
    /\ part # "vnc" => /\ server.minor = 8 /\ server.offers = VncSecurities
                       /\ server.right /\ client.secret

Next ==
    \/ part = "dial" /\ RendezvousNext /\ UNCHANGED <<part, secureVars, vncVars>>
    \/ part = "wire" /\ SecureNext /\ UNCHANGED <<part, dialVars, vncVars>>
    \/ part = "vnc" /\ VncNext /\ UNCHANGED <<part, dialVars, secureVars>>

(* The fairness of each part, while it is the one that runs: see           *)
(* RendezvousFairness, SecureFairness and VncFairness.                     *)
Fairness ==
    /\ WF_dialVars(part = "dial" /\ Tick)
    /\ WF_dialVars(part = "dial" /\ DeadlinePasses)
    /\ WF_dialVars(part = "dial" /\ DialTask)
    /\ \A p \in Peers : WF_secureVars(part = "wire" /\ SendReleased(p))
    /\ WF_vncVars(part = "vnc" /\ ReaderSteps)
    /\ WF_vncVars(part = "vnc" /\ CloseShuts)

Spec ==
    /\ Init /\ [][Next]_<<part, dialVars, secureVars, vncVars>>
    /\ Fairness

(* What the dial reads is the right thing read rightly: against honest     *)
(* servers it never fails for what it read (a late answer to an earlier    *)
(* request, a hello, any address), and a silent peer address leaves a      *)
(* known relay half of the time (rendezvous.rs, connect_viewer).           *)
DialIsRobust == part = "dial" => DialTypeOK /\ HonestIsUnderstood /\ RelayKeepsHalf

(* Nobody waits for ever: the dial tells its caller by the deadline,       *)
(* whoever stays silent (rendezvous.rs, connect_viewer), a writer that is  *)
(* blocked when its connection ends is let go (transport.rs), and so is    *)
(* the VNC reader, which holds its session in a blocking read              *)
(* (vnc/live.rs, close).                                                   *)
WaitsAreBounded ==
    /\ part = "dial" => DialEnds
    /\ part = "wire" => WriterIsReleased
    /\ part = "vnc" => CloseEndsReader
=============================================================================
