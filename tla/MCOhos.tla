------------------------------- MODULE MCOhos -------------------------------
(***************************************************************************)
(* The instance of the two OpenHarmony native owners that TLC checks: the  *)
(* surface decoder of a viewer or the screen publisher of a host.  They    *)
(* share no state, so a behaviour moves one of them and leaves the other   *)
(* as it starts.                                                           *)
(***************************************************************************)
EXTENDS OhosDecoder, OhosPublisher

VARIABLE part      \* the owner this behaviour is about

Init == part \in {"decoder", "publisher"} /\ DecoderInit /\ PublisherInit

Next ==
    \/ part = "decoder" /\ DecoderNext /\ UNCHANGED <<part, publisherVars>>
    \/ part = "publisher" /\ PublisherNext /\ UNCHANGED <<part, decoderVars>>

(* For what never happens no fairness is needed.                           *)
SafetySpec == Init /\ [][Next]_<<part, decoderVars, publisherVars>>

(* DecoderFairness and PublisherFairness, for the owner that runs.         *)
Fairness ==
    /\ WF_decoderVars(part = "decoder" /\ WorkerNextStep)
    /\ WF_decoderVars(part = "decoder" /\ CallbackPosts)
    /\ WF_decoderVars(part = "decoder" /\ CallbackExits)
    /\ WF_decoderVars(part = "decoder" /\ FeederRegisters /\ feeder = "waiting")
    /\ WF_decoderVars(part = "decoder" /\ (FeederSubmits \/ FeederWaits \/ FeederReturns))
    /\ WF_publisherVars(part = "publisher" /\ PublisherWorkerNext)
    /\ WF_publisherVars(part = "publisher" /\ CallbackRuns)
    /\ WF_publisherVars(part = "publisher" /\ EncoderCallExits)
    /\ WF_publisherVars(part = "publisher" /\ RecvRegisters /\ consumer = "waiting")
    /\ WF_publisherVars(part = "publisher" /\ (RecvTakes \/ RecvWaits \/ RecvEnds))
    /\ WF_publisherVars(part = "publisher" /\ OpenReturns)
    /\ WF_publisherVars(part = "publisher" /\ CloseReturns)

Spec == SafetySpec /\ Fairness

(* Whoever lets go of a decoder or a publisher, in any state, its worker   *)
(* ends, its close returns and its receiver is not left waiting            *)
(* (ohos_decoder.rs, ohos_publisher.rs).                                   *)
NativeWorkEnds ==
    /\ part = "decoder" => CloseEnds
    /\ part = "publisher" => ReceiverIsReleased /\ LettingGoEnds
=============================================================================
