------------------------------ MODULE MCViewer ------------------------------
(***************************************************************************)
(* The instance of the viewer that TLC checks: its media path or its input *)
(* path.  The two share only the cancellation and the authentication of    *)
(* the session, which each module models for itself, so a behaviour moves  *)
(* one of them and leaves the other where it starts.                       *)
(***************************************************************************)
EXTENDS ViewerMedia, ViewerInput

VARIABLE part      \* the path this behaviour is about

Init ==
    /\ part \in {"media", "input"}
    /\ MediaInit /\ InputInit
    /\ part # "input" => /\ localClipboard
                         /\ optionsFps = CHOOSE f \in Fps : TRUE

Next ==
    \/ part = "media" /\ MediaNext /\ UNCHANGED <<part, inputVars>>
    \/ part = "input" /\ InputNext /\ UNCHANGED <<part, mediaVars>>

Spec == Init /\ [][Next]_<<part, mediaVars, inputVars>> /\ (part = "media" => MediaFairness)

(* A session that was cancelled finishes and every close() of it returns   *)
(* (viewer.rs, run, close).                                                *)
CancelEnds == part = "media" => CancelFinishes /\ CloseReturns
=============================================================================
