------------------------- MODULE OhosNative_proofs -------------------------
(***************************************************************************)
(* The decoder's accounting and what its threads may rely on, and the      *)
(* publisher's teardown, consent, credits, stream and sleep: for every set *)
(* of native buffers, every queue limit and every bound on callbacks.      *)
(*                                                                         *)
(* UnitsAreConserved needs two additions to be inductive: the types of the *)
(* quantities it adds up, and that an ended worker has closed the decoder, *)
(* without which a late submission could enter a queue nobody drains.      *)
(*                                                                         *)
(* What the publisher has in order while it runs it gives up as soon as it *)
(* halts: a callback that finds it halting drops its buffer.  So the       *)
(* invariants of the buffers and of the stream speak of a publisher that   *)
(* has not halted, and what survives a halt (credits, the order of what    *)
(* was published, its metadata) is inductive beside them.                  *)
(***************************************************************************)
EXTENDS OhosDecoder, OhosPublisher, FiniteSetTheorems, SequenceTheorems, WellFoundedInduction,
        TLAPS

StatsType ==
    [accepted : Nat, pushed : Nat, cancelled : Nat, eos : BOOLEAN,
     quarantined : BOOLEAN, closed : BOOLEAN]

UnitsInv ==
    /\ packets \in Seq(Units)
    /\ reserved_units \in Nat
    /\ stats \in StatsType
    /\ unit \in Units
    /\ pc = "ended" => closing
    /\ UnitsAreConserved

(* What the updates of the counters do to them, one lemma per update    *)
(* (the provers take one record update at a time).                         *)
LEMMA AcceptedUpdate ==
    ASSUME NEW s \in StatsType, NEW t,
           t = [s EXCEPT !.accepted = @ + 1]
    PROVE  /\ t \in StatsType /\ t.accepted = s.accepted + 1
           /\ t.pushed = s.pushed /\ t.cancelled = s.cancelled
BY DEF StatsType

(* Counting a unit as pushed, Shared::submitted(.., true). *)
LEMMA PushedUpdate ==
    ASSUME NEW s \in StatsType, NEW t,
           t = [s EXCEPT !.pushed = @ + 1]
    PROVE  /\ t \in StatsType /\ t.accepted = s.accepted
           /\ t.pushed = s.pushed + 1 /\ t.cancelled = s.cancelled
BY DEF StatsType

(* Counting a unit as cancelled, Shared::submitted(.., false). *)
LEMMA CancelledUpdate ==
    ASSUME NEW s \in StatsType, NEW t,
           t = [s EXCEPT !.cancelled = @ + 1]
    PROVE  /\ t \in StatsType /\ t.accepted = s.accepted
           /\ t.pushed = s.pushed /\ t.cancelled = s.cancelled + 1
BY DEF StatsType

(* Counting several units as cancelled at once. *)
LEMMA CancelledSet ==
    ASSUME NEW s \in StatsType, NEW n \in Nat, NEW t,
           t = [s EXCEPT !.cancelled = n]
    PROVE  /\ t \in StatsType /\ t.accepted = s.accepted
           /\ t.pushed = s.pushed /\ t.cancelled = n
BY DEF StatsType

(* Recording the end of the output stream, Shared::output. *)
LEMMA EosUpdate ==
    ASSUME NEW s \in StatsType, NEW t,
           t = [s EXCEPT !.eos = TRUE]
    PROVE  /\ t \in StatsType /\ t.accepted = s.accepted
           /\ t.pushed = s.pushed /\ t.cancelled = s.cancelled
BY DEF StatsType

(* Shared::quarantine: the reserved units are cancelled, the flag is set. *)
LEMMA QuarantinedUpdate ==
    ASSUME NEW s \in StatsType, NEW n \in Nat
    PROVE  LET t == [s EXCEPT !.quarantined = TRUE, !.cancelled = @ + n]
           IN /\ t \in StatsType /\ t.accepted = s.accepted
              /\ t.pushed = s.pushed /\ t.cancelled = s.cancelled + n
<1> DEFINE t == [s EXCEPT !.quarantined = TRUE, !.cancelled = @ + n]
           u == [s EXCEPT !.quarantined = TRUE]
           m == s.cancelled + n
<1>1. u \in StatsType
  BY DEF StatsType
<1>2. m \in Nat
  BY DEF StatsType
<1>3. t = [u EXCEPT !.cancelled = m]
  OBVIOUS
<1>4. t.accepted = s.accepted /\ t.pushed = s.pushed /\ t.cancelled = s.cancelled + n
  BY DEF StatsType
<1>5. t \in StatsType
  <2> HIDE DEF t, u, m
  <2> QED
    BY <1>1, <1>2, <1>3, CancelledSet, Zenon
<1> QED
  BY <1>4, <1>5, Zenon

(* Shared::closed: the queued units are cancelled, the flag is set. *)
LEMMA ClosedUpdate ==
    ASSUME NEW s \in StatsType, NEW n \in Nat
    PROVE  LET t == [s EXCEPT !.closed = TRUE, !.cancelled = @ + n]
           IN /\ t \in StatsType /\ t.accepted = s.accepted
              /\ t.pushed = s.pushed /\ t.cancelled = s.cancelled + n
<1> DEFINE t == [s EXCEPT !.closed = TRUE, !.cancelled = @ + n]
           u == [s EXCEPT !.closed = TRUE]
           m == s.cancelled + n
<1>1. u \in StatsType
  BY DEF StatsType
<1>2. m \in Nat
  BY DEF StatsType
<1>3. t = [u EXCEPT !.cancelled = m]
  OBVIOUS
<1>4. t.accepted = s.accepted /\ t.pushed = s.pushed /\ t.cancelled = s.cancelled + n
  BY DEF StatsType
<1>5. t \in StatsType
  <2> HIDE DEF t, u, m
  <2> QED
    BY <1>1, <1>2, <1>3, CancelledSet, Zenon
<1> QED
  BY <1>4, <1>5, Zenon

(* A step that leaves the queue and its credits alone, moves the worker    *)
(* between places where it holds no unit, and takes back no close, keeps   *)
(* the accounting.                                                         *)
LEMMA FrameStep ==
    ASSUME UnitsInv, packets' = packets, reserved_units' = reserved_units,
           stats' \in StatsType, stats'.accepted = stats.accepted,
           stats'.pushed = stats.pushed, stats'.cancelled = stats.cancelled,
           unit' \in Units, closing => closing',
           pc' = pc \/ (pc # "ended" /\ pc' # "ended" /\ InHand' = InHand)
    PROVE  UnitsInv'
BY DEF UnitsInv, UnitsAreConserved, InHand

(* Everything that is left is cancelled at once, by quarantine() or by     *)
(* closed(): no credit remains.                                            *)
LEMMA DrainStep ==
    ASSUME UnitsInv, packets' = <<>>, reserved_units' = 0, stats' \in StatsType,
           stats'.accepted = stats.accepted, stats'.pushed = stats.pushed,
           stats'.cancelled = stats.cancelled + reserved_units,
           unit' = unit, closing', pc' \in {"report", "closed", "ended"}
    PROVE  UnitsInv'
<1>1. packets' \in Seq(Units) /\ Len(packets') = 0
  OBVIOUS
<1>2. InHand' = 0
  BY DEF InHand
<1>3. /\ stats.accepted \in Nat /\ stats.pushed \in Nat /\ stats.cancelled \in Nat
      /\ stats.accepted = stats.pushed + stats.cancelled + reserved_units
      /\ reserved_units \in Nat
  BY DEF UnitsInv, UnitsAreConserved, StatsType
<1>4. stats'.accepted = stats'.pushed + stats'.cancelled + reserved_units'
  BY <1>3
<1> QED
  BY <1>1, <1>2, <1>4 DEF UnitsInv, UnitsAreConserved

(* submit(): one more accepted unit, one more credit. *)
LEMMA SubmitStep == UnitsInv /\ FeederSubmits => UnitsInv'
<1> SUFFICES ASSUME UnitsInv, FeederSubmits PROVE UnitsInv'
  OBVIOUS
<1>1. /\ packets' = Append(packets, unit) /\ reserved_units' = reserved_units + 1
      /\ unit' = 0 /\ closing' = closing /\ pc' = pc /\ ~closing
  BY DEF FeederSubmits, workerVars, Rejected
<1>0. stats' = [stats EXCEPT !.accepted = @ + 1]
  BY DEF FeederSubmits
<1>2. pc # "ended"
  BY <1>1 DEF UnitsInv
<1>3. /\ packets' \in Seq(Units) /\ Len(packets') = Len(packets) + 1
      /\ Len(packets) \in Nat
  BY <1>1 DEF UnitsInv
<1>4. /\ stats' \in StatsType /\ stats'.accepted = stats.accepted + 1
      /\ stats'.pushed = stats.pushed /\ stats'.cancelled = stats.cancelled
  <2>1. stats \in StatsType
    BY DEF UnitsInv
  <2> QED
    BY <1>0, <2>1, AcceptedUpdate, Zenon
<1>5. /\ stats.accepted = stats.pushed + stats.cancelled + reserved_units
      /\ reserved_units = Len(packets) + InHand
  BY <1>2 DEF UnitsInv, UnitsAreConserved
<1>6. /\ stats.accepted \in Nat /\ stats.pushed \in Nat
      /\ stats.cancelled \in Nat /\ reserved_units \in Nat
  BY DEF UnitsInv, StatsType
<1>7. InHand' = InHand /\ InHand \in Nat
  BY <1>1 DEF InHand
<1>8. unit' \in Units
  BY <1>1, DecoderAssumption DEF Units
<1> QED
  BY <1>1, <1>2, <1>3, <1>4, <1>5, <1>6, <1>7, <1>8 DEF UnitsInv, UnitsAreConserved

(* next(): a unit that leaves the queue is in the worker's hand. *)
LEMMA NextStep == UnitsInv /\ WorkerNext => UnitsInv'
<1> SUFFICES ASSUME UnitsInv, WorkerNext PROVE UnitsInv'
  OBVIOUS
<1>1. /\ pc = "next" /\ reserved_units' = reserved_units /\ stats' = stats
      /\ closing' = closing /\ unit' = unit
  BY DEF WorkerNext, feederVars
<1>2. CASE packets' = packets /\ pc' \in {"shutdown", "available", "render", "changed", "next"}
  BY <1>1, <1>2, FrameStep DEF InHand, UnitsInv
<1>3. CASE packets # <<>> /\ packets' = Tail(packets) /\ pc' = "push"
  <2>1. /\ packets' \in Seq(Units) /\ Len(packets') = Len(packets) - 1
        /\ Len(packets) \in Nat /\ Len(packets) > 0
    BY <1>3 DEF UnitsInv
  <2>2. InHand = 0 /\ InHand' = 1
    BY <1>1, <1>3 DEF InHand
  <2>3. reserved_units = Len(packets) + InHand
    BY <1>1 DEF UnitsInv, UnitsAreConserved
  <2>4. reserved_units' = Len(packets') + InHand'
    BY <1>1, <2>1, <2>2, <2>3
  <2> QED
    BY <1>1, <1>3, <2>1, <2>4 DEF UnitsInv, UnitsAreConserved
<1>4. \/ packets' = packets /\ pc' = "shutdown"
      \/ packets' = packets /\ pc' \in {"available", "render", "changed"}
      \/ packets # <<>> /\ packets' = Tail(packets) /\ pc' = "push"
      \/ packets' = packets /\ pc' = pc
  BY ZenonT(30) DEF WorkerNext, GoesTo, workerVars
<1> QED
  BY <1>1, <1>2, <1>3, <1>4

(* One more unit is pushed or cancelled. *)
Settled ==
    /\ stats' \in StatsType /\ stats'.accepted = stats.accepted
    /\ stats'.pushed + stats'.cancelled = stats.pushed + stats.cancelled + 1

(* The arithmetic of a successful push. *)
LEMMA PushedSettles ==
    ASSUME stats \in StatsType, stats' = [stats EXCEPT !.pushed = @ + 1]
    PROVE  Settled
<1>1. /\ stats' \in StatsType /\ stats'.accepted = stats.accepted
      /\ stats'.pushed = stats.pushed + 1 /\ stats'.cancelled = stats.cancelled
  BY PushedUpdate, Zenon
<1>2. stats.pushed \in Nat /\ stats.cancelled \in Nat
  BY DEF StatsType
<1>3. ASSUME NEW a \in Nat, NEW b \in Nat PROVE (a + 1) + b = a + b + 1
  OBVIOUS
<1> QED
  BY <1>1, <1>2, <1>3, Zenon DEF Settled

(* The arithmetic of a failed push. *)
LEMMA CancelledSettles ==
    ASSUME stats \in StatsType, stats' = [stats EXCEPT !.cancelled = @ + 1]
    PROVE  Settled
<1>1. /\ stats' \in StatsType /\ stats'.accepted = stats.accepted
      /\ stats'.pushed = stats.pushed /\ stats'.cancelled = stats.cancelled + 1
  BY CancelledUpdate, Zenon
<1>2. stats.pushed \in Nat /\ stats.cancelled \in Nat
  BY DEF StatsType
<1>3. ASSUME NEW a \in Nat, NEW b \in Nat PROVE a + (b + 1) = a + b + 1
  OBVIOUS
<1> QED
  BY <1>1, <1>2, <1>3, Zenon DEF Settled

(* One unit more is settled and one credit less is held: the sum stays.   *)
LEMMA SettledSum ==
    ASSUME NEW p \in Nat, NEW c \in Nat, NEW q \in Nat, NEW d \in Nat,
           NEW r \in Nat, NEW s \in Nat, s = r - 1, q + d = p + c + 1
    PROVE  p + c + r = q + d + s
OBVIOUS

(* submitted(): the unit in hand is pushed or cancelled, and its credit    *)
(* comes back.                                                             *)
LEMMA SubmittedStep ==
    ASSUME UnitsInv, pc \in {"push", "pushing"}, packets' = packets,
           reserved_units' = reserved_units - 1, Settled,
           unit' = unit, closing' = closing, pc' \in {"next", "failing"}
    PROVE  UnitsInv'
<1>1. InHand = 1 /\ InHand' = 0
  BY DEF InHand
<1>2. /\ stats.accepted = stats.pushed + stats.cancelled + reserved_units
      /\ reserved_units = Len(packets) + InHand
  BY DEF UnitsInv, UnitsAreConserved
<1>3. /\ stats.accepted \in Nat /\ stats.pushed \in Nat
      /\ stats.cancelled \in Nat /\ reserved_units \in Nat /\ Len(packets) \in Nat
  BY DEF UnitsInv, StatsType
<1>4. /\ stats' \in StatsType /\ stats'.accepted = stats.accepted
      /\ stats'.pushed + stats'.cancelled = stats.pushed + stats.cancelled + 1
  BY DEF Settled
<1>5. stats'.pushed \in Nat /\ stats'.cancelled \in Nat
  BY <1>4 DEF StatsType
<1>6. reserved_units' \in Nat /\ reserved_units' = Len(packets') + InHand'
  BY <1>1, <1>2, <1>3
<1>7. stats'.accepted = stats'.pushed + stats'.cancelled + reserved_units'
  <2>1. stats.pushed + stats.cancelled + reserved_units
          = stats'.pushed + stats'.cancelled + reserved_units'
    BY <1>3, <1>4, <1>5, <1>6, SettledSum
  <2> QED
    BY <1>2, <1>4, <2>1, Zenon
<1> QED
  BY <1>4, <1>6, <1>7 DEF UnitsInv, UnitsAreConserved

(* quarantine() and closed() drain; everything else is a frame step. *)
LEMMA QuarantineStep ==
    ASSUME UnitsInv, Quarantine, unit' = unit, pc' \in {"report", "closed", "ended"}
    PROVE  UnitsInv'
<1>1. /\ packets' = <<>> /\ reserved_units' = 0 /\ closing'
      /\ stats' = [stats EXCEPT !.quarantined = TRUE, !.cancelled = @ + reserved_units]
  BY DEF Quarantine
<1>2. /\ stats' \in StatsType /\ stats'.accepted = stats.accepted
      /\ stats'.pushed = stats.pushed
      /\ stats'.cancelled = stats.cancelled + reserved_units
  <2>1. stats \in StatsType /\ reserved_units \in Nat
    BY DEF UnitsInv
  <2> QED
    BY <1>1, <2>1, QuarantinedUpdate, Zenon
<1> QED
  BY <1>1, <1>2, DrainStep

(* closed(): what is queued when the worker ends is all that has a credit. *)
LEMMA ClosesStep == UnitsInv /\ WorkerCloses => UnitsInv'
<1> SUFFICES ASSUME UnitsInv, WorkerCloses PROVE UnitsInv'
  OBVIOUS
<1>1. /\ pc = "closed" /\ pc' = "ended" /\ packets' = <<>> /\ reserved_units' = 0
      /\ closing' /\ unit' = unit
      /\ stats' = [stats EXCEPT !.closed = TRUE, !.cancelled = @ + Len(packets)]
  BY DEF WorkerCloses, GoesTo, feederVars
<1>2. reserved_units = Len(packets)
  BY <1>1 DEF UnitsInv, UnitsAreConserved, InHand
<1>3. /\ stats' \in StatsType /\ stats'.accepted = stats.accepted
      /\ stats'.pushed = stats.pushed
      /\ stats'.cancelled = stats.cancelled + reserved_units
  <2>1. stats \in StatsType /\ Len(packets) \in Nat
    BY DEF UnitsInv
  <2> QED
    BY <1>1, <1>2, <2>1, ClosedUpdate, Zenon
<1> QED
  BY <1>1, <1>3, DrainStep

(* The accounting is inductive. *)
LEMMA UnitsInvInductive == UnitsInv /\ [DecoderNext]_decoderVars => UnitsInv'
<1> SUFFICES ASSUME UnitsInv, [DecoderNext]_decoderVars PROVE UnitsInv'
  OBVIOUS
<1>t. stats \in StatsType /\ unit \in Units
  BY DEF UnitsInv
<1>1. CASE WorkerSetup
  BY <1>1, <1>t, FrameStep DEF WorkerSetup, GoesTo, queueVars, feederVars, InHand
<1>2. CASE WorkerNext
  BY <1>2, NextStep
<1>3. CASE WorkerInputAvailable
  BY <1>3, <1>t, FrameStep DEF WorkerInputAvailable, feederVars, InHand
<1>4. CASE WorkerStreamChanged
  BY <1>4, <1>t, FrameStep DEF WorkerStreamChanged, queueVars, feederVars, InHand
<1>5. CASE WorkerPush
  <2>1. CASE pc' = "pushing" /\ UNCHANGED <<reserved_units, stats>>
    BY <1>5, <1>t, <2>1, FrameStep DEF WorkerPush, feederVars, InHand
  <2>2. CASE /\ reserved_units' = reserved_units - 1 /\ pc' = "failing"
             /\ stats' = [stats EXCEPT !.cancelled = @ + 1]
    <3>1. /\ pc = "push" /\ packets' = packets /\ unit' = unit /\ closing' = closing
      BY <1>5 DEF WorkerPush, feederVars
    <3>2. Settled
      BY <1>t, <2>2, CancelledSettles, Zenon
    <3> QED
      BY <2>2, <3>1, <3>2, SubmittedStep
  <2> QED
    BY <1>5, <2>1, <2>2 DEF WorkerPush
<1>6. CASE WorkerPushReturns
  <2>1. /\ pc = "pushing" /\ packets' = packets /\ unit' = unit /\ closing' = closing
    BY <1>6 DEF WorkerPushReturns, feederVars
  <2>2. CASE Submitted(TRUE) /\ pc' = "next"
    <3>1. reserved_units' = reserved_units - 1 /\ stats' = [stats EXCEPT !.pushed = @ + 1]
      BY <2>2, Zenon DEF Submitted
    <3>2. Settled
      BY <1>t, <3>1, PushedSettles, Zenon
    <3>3. reserved_units' = reserved_units - 1
      BY <3>1, Zenon
    <3> QED
      BY <2>1, <2>2, <3>2, <3>3, SubmittedStep
  <2>3. CASE Submitted(FALSE) /\ pc' = "failing"
    <3>1. reserved_units' = reserved_units - 1 /\ stats' = [stats EXCEPT !.cancelled = @ + 1]
      BY <2>3, Zenon DEF Submitted
    <3>2. Settled
      BY <1>t, <3>1, CancelledSettles, Zenon
    <3>3. reserved_units' = reserved_units - 1
      BY <3>1, Zenon
    <3> QED
      BY <2>1, <2>3, <3>2, <3>3, SubmittedStep
  <2> QED
    BY <1>6, <2>2, <2>3 DEF WorkerPushReturns
<1>7. CASE WorkerRender
  BY <1>7, <1>t, FrameStep DEF WorkerRender, feederVars, InHand
<1>8. CASE WorkerRenderReturns
  <2>1. /\ pc = "rendering" /\ pc' \in {"next", "failing"} /\ unit' = unit
        /\ packets' = packets /\ reserved_units' = reserved_units
        /\ closing => closing'
        /\ stats' = stats \/ stats' = [stats EXCEPT !.eos = TRUE]
    BY <1>8 DEF WorkerRenderReturns, queueVars, feederVars
  <2>2. /\ stats' \in StatsType /\ stats'.accepted = stats.accepted
        /\ stats'.pushed = stats.pushed /\ stats'.cancelled = stats.cancelled
    BY <1>t, <2>1, EosUpdate, Zenon
  <2> QED
    BY <1>t, <2>1, <2>2, FrameStep DEF InHand
<1>9. CASE WorkerFails
  BY <1>9, <1>t, FrameStep DEF WorkerFails, GoesTo, queueVars, feederVars, InHand
<1>10. CASE WorkerShutdown
  BY <1>10, <1>t, FrameStep DEF WorkerShutdown, GoesTo, queueVars, feederVars, InHand
<1>11. CASE WorkerDestroys
  <2>1. CASE /\ pc' = "wait_idle"
             /\ UNCHANGED <<closing, stats, packets, reserved_units>>
    BY <1>11, <1>t, <2>1, FrameStep DEF WorkerDestroys, feederVars, InHand
  <2>2. CASE Quarantine /\ pc' = "report"
    BY <1>11, <2>2, QuarantineStep DEF WorkerDestroys, feederVars
  <2> QED
    BY <1>11, <2>1, <2>2 DEF WorkerDestroys, GoesTo
<1>12. CASE WorkerFrees
  BY <1>12, <1>t, FrameStep DEF WorkerFrees, GoesTo, queueVars, feederVars, InHand
<1>25. CASE WorkerReports
  BY <1>25, <1>t, FrameStep DEF WorkerReports, GoesTo, queueVars, feederVars, InHand
<1>13. CASE WorkerCloses
  BY <1>13, ClosesStep
<1>14. CASE WorkerPanics
  BY <1>14, QuarantineStep DEF WorkerPanics, feederVars
<1>15. CASE FeederRegisters
  <2>1. /\ unit' \in Units /\ pc' = pc /\ packets' = packets /\ stats' = stats
        /\ reserved_units' = reserved_units /\ closing' = closing
    BY <1>15, <1>t DEF FeederRegisters, queueVars, workerVars
  <2> QED
    BY <1>t, <2>1, FrameStep
<1>16. CASE FeederSubmits
  BY <1>16, SubmitStep
<1>17. CASE FeederWaits
  BY <1>17, <1>t, FrameStep DEF FeederWaits, queueVars, workerVars
<1>18. CASE FeederReturns
  <2>1. 0 \in Units
    BY DecoderAssumption DEF Units
  <2> QED
    BY <1>18, <1>t, <2>1, FrameStep DEF FeederReturns, queueVars, workerVars
<1>19. CASE FeederCancels
  BY <1>19, <1>t, FrameStep DEF FeederCancels, queueVars, workerVars
<1>20. CASE CallbackEnters
  BY <1>20, <1>t, FrameStep DEF CallbackEnters, queueVars, workerVars, feederVars
<1>21. CASE CallbackPosts
  BY <1>21, <1>t, FrameStep DEF CallbackPosts, workerVars, feederVars
<1>22. CASE CallbackExits
  BY <1>22, <1>t, FrameStep DEF CallbackExits, queueVars, workerVars, feederVars
<1>23. CASE RequestClose
  BY <1>23, <1>t, FrameStep DEF RequestClose, queueVars, workerVars, feederVars
<1>24. CASE UNCHANGED decoderVars
  BY <1>24, <1>t, FrameStep DEF decoderVars
<1> QED
  BY <1>1, <1>2, <1>3, <1>4, <1>5, <1>6, <1>7, <1>8, <1>9, <1>10, <1>11, <1>12,
     <1>13, <1>14, <1>15, <1>16, <1>17, <1>18, <1>19, <1>20, <1>21, <1>22, <1>23,
     <1>24, <1>25 DEF DecoderNext, WorkerNextStep, FeederNext, CallbackNext

(* A decoder starts with nothing accepted and nothing queued. *)
LEMMA UnitsInvInit == DecoderInit => UnitsInv
<1> SUFFICES ASSUME DecoderInit PROVE UnitsInv
  OBVIOUS
<1>1. 0 \in Units
  BY DecoderAssumption DEF Units
<1>2. packets \in Seq(Units) /\ Len(packets) = 0
  BY DEF DecoderInit
<1> QED
  BY <1>1, <1>2 DEF DecoderInit, UnitsInv, UnitsAreConserved, InHand, StatsType

(* No access unit is ever lost or counted twice by the decoder, for every  *)
(* queue limit and every set of native buffers: submit(), next(),          *)
(* submitted(), quarantine() and closed() keep the books balanced under    *)
(* every interleaving with callbacks and with an unwinding worker.         *)
THEOREM ConservationTheorem == DecoderSpec => []UnitsAreConserved
<1>1. UnitsInv => UnitsAreConserved
  BY DEF UnitsInv
<1> QED
  BY <1>1, UnitsInvInit, UnitsInvInductive, PTL DEF DecoderSpec

----------------------------------------------------------------------------
(***************************************************************************)
(* What the threads of the decoder never get wrong about each other.       *)
(*                                                                         *)
(* DecoderIsSound is not inductive for four reasons.  The reserved bytes   *)
(* are never negative because they are the sum of the queued units and of  *)
(* the one in hand (BytesInv, which names the partial sums, so that no     *)
(* induction on the queue is needed).  The context goes only after Destroy *)
(* because the worker comes to wait_idle that way (LifeInv).  A feeder     *)
(* that is about to sleep has already been told what it must be told       *)
(* (WaitInv).  No index is announced twice because every buffer is at one  *)
(* place: with the codec, in a callback that has not posted, or announced, *)
(* and then at one place of the worker's at most (IndexInv).               *)
(***************************************************************************)
HandBytes == IF pc \in {"push", "pushing"} THEN hand.unit ELSE 0

(* f[i] is the size of the units behind the first i of the queue. *)
SumsQueue(f, q) ==
    /\ f \in [0..Len(q) -> Nat]
    /\ f[Len(q)] = 0
    /\ \A i \in 1..Len(q) : f[i - 1] = f[i] + q[i]

BytesInv == \E f : SumsQueue(f, packets) /\ reserved_bytes = f[0] + HandBytes

LifeInv ==
    /\ context = "freed" =>
         calls = {} /\ native = "destroyed" /\ pc \in {"report", "closed", "ended"}
    /\ pc = "wait_idle" => native = "destroyed"

WaitInv == feeder \in {"full", "waiting"} /\ ~woken => ~HasRoom(unit) /\ ~Stopped

InputBuffer(i) == [kind |-> "Input", index |-> i]

(* The buffers whose index the decoder has registered. *)
Announced ==
    {b \in Buffers : \/ b.kind = "Input" /\ b.index \in input_indices
                     \/ b.kind = "Output" /\ b.index \in output_indices}

(* A buffer that is with the codec, or in a callback that has not posted,  *)
(* is not registered, and not at both places.                              *)
Elsewhere ==
    /\ codecOwns \cap Announced = {}
    /\ \A c \in calls : ~c.posted => c.event \notin Announced /\ c.event \notin codecOwns

(* The buffers the worker knows are registered, each at one place. *)
EventsKnown ==
    /\ \A i \in 1..Len(events) : events[i] \in Buffers => events[i] \in Announced
    /\ \A i, j \in 1..Len(events) : events[i] = events[j] /\ events[i] \in Buffers => i = j

InputsKnown ==
    /\ \A i \in 1..Len(inputs) : InputBuffer(inputs[i]) \in Announced
    /\ \A i, j \in 1..Len(inputs) : inputs[i] = inputs[j] => i = j
    /\ \A i \in 1..Len(inputs), j \in 1..Len(events) : InputBuffer(inputs[i]) # events[j]

HandKnown ==
    /\ pc \in {"available", "push"} => hand.buffer.kind = "Input"
    /\ pc = "render" => hand.buffer.kind = "Output"
    /\ pc \in {"available", "push", "render"} =>
         /\ hand.buffer \in Announced
         /\ \A i \in 1..Len(events) : events[i] # hand.buffer
         /\ \A i \in 1..Len(inputs) : InputBuffer(inputs[i]) # hand.buffer

IndexInv == Elsewhere /\ EventsKnown /\ InputsKnown /\ HandKnown

SoundInv ==
    /\ UnitsInv /\ DecoderTypeOK
    /\ BytesInv /\ LifeInv /\ WaitInv /\ IndexInv /\ NoFalseDuplicate

(* What the bytes in the queue and in hand add up to is never negative.    *)
LEMMA BytesCover ==
    ASSUME UnitsInv, BytesInv, DecoderTypeOK
    PROVE  /\ reserved_bytes - HandBytes \in Nat /\ HandBytes \in Nat
<1>1. PICK f : SumsQueue(f, packets) /\ reserved_bytes = f[0] + HandBytes
  BY DEF BytesInv
<1>2. Len(packets) \in Nat
  BY DEF UnitsInv
<1>3. f[0] \in Nat
  BY <1>1, <1>2 DEF SumsQueue
<1>4. HandBytes \in Nat
  <2>1. hand.unit \in Units
    BY DEF DecoderTypeOK
  <2> QED
    BY <2>1, DecoderAssumption DEF HandBytes, Units
<1> QED
  BY <1>1, <1>3, <1>4

(* The queue and its bytes are left alone. *)
LEMMA BytesFrame ==
    ASSUME BytesInv, packets' = packets, reserved_bytes' = reserved_bytes,
           HandBytes' = HandBytes
    PROVE  BytesInv'
BY DEF BytesInv

(* The unit in hand gives its bytes back. *)
LEMMA BytesGive ==
    ASSUME UnitsInv, DecoderTypeOK, BytesInv, pc \in {"push", "pushing"},
           packets' = packets, reserved_bytes' = reserved_bytes - hand.unit,
           pc' \in {"next", "failing"}
    PROVE  BytesInv'
<1>1. PICK f : SumsQueue(f, packets) /\ reserved_bytes = f[0] + HandBytes
  BY DEF BytesInv
<1>2. Len(packets) \in Nat /\ HandBytes = hand.unit /\ HandBytes' = 0
  BY DEF UnitsInv, HandBytes
<1>3. f[0] \in Nat
  BY <1>1, <1>2 DEF SumsQueue
<1>4. HandBytes \in Nat
  BY BytesCover
<1>5. reserved_bytes' = f[0] + HandBytes'
  BY <1>1, <1>2, <1>3, <1>4
<1> QED
  BY <1>1, <1>5 DEF BytesInv

(* The queue is emptied and so is the account. *)
LEMMA BytesDrain ==
    ASSUME packets' = <<>>, reserved_bytes' = 0, HandBytes' = 0
    PROVE  BytesInv'
<1> DEFINE f == [i \in 0..0 |-> 0]
<1>1. SumsQueue(f, packets')
  BY DEF SumsQueue
<1>2. f[0] = 0
  OBVIOUS
<1>3. reserved_bytes' = f[0] + HandBytes'
  BY <1>2
<1> HIDE DEF f
<1> QED
  BY <1>1, <1>3 DEF BytesInv

(* submit(): every partial sum grows by the new unit. *)
LEMMA BytesSubmit ==
    ASSUME UnitsInv, DecoderTypeOK, BytesInv, packets' = Append(packets, unit),
           reserved_bytes' = reserved_bytes + unit, HandBytes' = HandBytes
    PROVE  BytesInv'
<1>1. PICK f : SumsQueue(f, packets) /\ reserved_bytes = f[0] + HandBytes
  BY DEF BytesInv
<1> DEFINE n == Len(packets)
           g == [i \in 0..(n + 1) |-> IF i = n + 1 THEN 0 ELSE f[i] + unit]
<1>2. n \in Nat /\ unit \in Nat /\ packets \in Seq(Units)
  BY DecoderAssumption DEF UnitsInv, Units
<1>3. /\ Len(packets') = n + 1 /\ packets'[n + 1] = unit
      /\ \A i \in 1..n : packets'[i] = packets[i]
  BY <1>2
<1>4. /\ f \in [0..n -> Nat] /\ f[n] = 0
      /\ \A i \in 1..n : f[i - 1] = f[i] + packets[i]
  BY <1>1 DEF SumsQueue
<1>5. \A i \in 1..n : packets[i] \in Nat
  BY <1>2, DecoderAssumption DEF Units
<1> HIDE DEF n
<1>6. g \in [0..(n + 1) -> Nat]
  BY <1>2, <1>4
<1>7. g[n + 1] = 0 /\ \A i \in 0..n : g[i] = f[i] + unit
  BY <1>2
<1>8. ASSUME NEW i \in 1..(n + 1) PROVE g[i - 1] = g[i] + packets'[i]
  <2> HIDE DEF g
  <2>1. CASE i = n + 1
    BY <1>2, <1>3, <1>4, <1>7, <2>1
  <2>2. CASE i # n + 1
    <3>1. i \in 1..n /\ i - 1 \in 0..n /\ i \in 0..n
      BY <1>2, <2>2
    <3>2. f[i - 1] = f[i] + packets[i] /\ f[i] \in Nat /\ packets[i] \in Nat
      BY <1>4, <1>5, <3>1
    <3>3. g[i - 1] = f[i - 1] + unit /\ g[i] = f[i] + unit /\ packets'[i] = packets[i]
      BY <1>3, <1>7, <3>1
    <3> QED
      BY <1>2, <3>2, <3>3
  <2> QED
    BY <2>1, <2>2
<1> HIDE DEF g
<1>9. SumsQueue(g, packets')
  BY <1>3, <1>6, <1>7, <1>8 DEF SumsQueue
<1>10. reserved_bytes' = g[0] + HandBytes'
  <2>1. f[0] \in Nat /\ HandBytes \in Nat /\ g[0] = f[0] + unit
    BY <1>2, <1>4, <1>7, BytesCover
  <2> QED
    BY <1>1, <1>2, <2>1
<1> QED
  BY <1>9, <1>10 DEF BytesInv

(* next(): the first unit goes from the queue into the hand. *)
LEMMA BytesTake ==
    ASSUME UnitsInv, DecoderTypeOK, BytesInv, packets # <<>>, packets' = Tail(packets),
           reserved_bytes' = reserved_bytes, HandBytes = 0, HandBytes' = packets[1]
    PROVE  BytesInv'
<1>1. PICK f : SumsQueue(f, packets) /\ reserved_bytes = f[0] + HandBytes
  BY DEF BytesInv
<1> DEFINE n == Len(packets) - 1
           g == [i \in 0..n |-> f[i + 1]]
<1>2. n \in Nat /\ packets \in Seq(Units) /\ Len(packets) = n + 1
  BY DEF UnitsInv
<1>3. Len(packets') = n /\ \A i \in 1..n : packets'[i] = packets[i + 1]
  BY <1>2
<1>4. /\ f \in [0..(n + 1) -> Nat] /\ f[n + 1] = 0
      /\ \A i \in 1..(n + 1) : f[i - 1] = f[i] + packets[i]
  BY <1>1, <1>2 DEF SumsQueue
<1> HIDE DEF n
<1>6. g \in [0..n -> Nat]
  BY <1>2, <1>4
<1>7. \A i \in 0..n : g[i] = f[i + 1]
  OBVIOUS
<1> HIDE DEF g
<1>8. ASSUME NEW i \in 1..n PROVE g[i - 1] = g[i] + packets'[i]
  <2>1. i + 1 \in 1..(n + 1) /\ i - 1 \in 0..n /\ i \in 0..n /\ (i - 1) + 1 = i
        /\ (i + 1) - 1 = i
    BY <1>2
  <2>2. f[i] = f[i + 1] + packets[i + 1]
    BY <1>4, <2>1
  <2>3. g[i - 1] = f[i] /\ g[i] = f[i + 1]
    BY <1>7, <2>1
  <2> QED
    BY <1>3, <2>2, <2>3
<1>9. g[n] = 0
  BY <1>2, <1>4, <1>7
<1>10. SumsQueue(g, packets')
  BY <1>3, <1>6, <1>8, <1>9 DEF SumsQueue
<1>11. reserved_bytes' = g[0] + HandBytes'
  <2>1. 1 \in 1..(n + 1) /\ 0 \in 0..n
    BY <1>2
  <2>2. f[0] = f[1] + packets[1] /\ g[0] = f[1] /\ f[0] \in Nat
    BY <1>2, <1>4, <1>7, <2>1
  <2> QED
    BY <1>1, <2>2
<1> QED
  BY <1>10, <1>11 DEF BytesInv

(* The account of the bytes, step by step. *)
LEMMA BytesInductive ==
    UnitsInv /\ DecoderTypeOK /\ BytesInv /\ [DecoderNext]_decoderVars => BytesInv'
<1> SUFFICES ASSUME UnitsInv, DecoderTypeOK, BytesInv, [DecoderNext]_decoderVars
             PROVE  BytesInv'
  OBVIOUS
<1>1. CASE WorkerSetup
  BY <1>1, BytesFrame DEF WorkerSetup, GoesTo, queueVars, HandBytes
<1>2. CASE WorkerNext
  <2>1. pc = "next" /\ reserved_bytes' = reserved_bytes /\ HandBytes = 0
    BY <1>2 DEF WorkerNext, HandBytes
  <2>2. CASE packets' = packets /\ pc' \in {"shutdown", "available", "render", "changed", "next"}
    BY <2>1, <2>2, BytesFrame DEF HandBytes
  <2>3. CASE /\ packets # <<>> /\ packets' = Tail(packets) /\ pc' = "push"
             /\ hand' = [buffer |-> [kind |-> "Input", index |-> Head(inputs)],
                         unit |-> Head(packets)]
    <3>1. Head(packets) = packets[1]
      BY <2>3 DEF UnitsInv
    <3>2. HandBytes' = packets[1]
      BY <2>3, <3>1 DEF HandBytes
    <3> QED
      BY <2>1, <2>3, <3>2, BytesTake
  <2> QED
    BY <1>2, <2>2, <2>3, <2>1, ZenonT(30) DEF WorkerNext, GoesTo, workerVars
<1>3. CASE WorkerInputAvailable
  BY <1>3, BytesFrame DEF WorkerInputAvailable, HandBytes
<1>4. CASE WorkerStreamChanged
  BY <1>4, BytesFrame DEF WorkerStreamChanged, queueVars, HandBytes
<1>5. CASE WorkerPush
  <2>1. pc = "push" /\ packets' = packets
    BY <1>5 DEF WorkerPush
  <2>2. CASE reserved_bytes' = reserved_bytes /\ hand' = hand /\ pc' = "pushing"
    BY <2>1, <2>2, BytesFrame DEF HandBytes
  <2>3. CASE reserved_bytes' = reserved_bytes - hand.unit /\ pc' = "failing"
    BY <2>1, <2>3, BytesGive
  <2> QED
    BY <1>5, <2>2, <2>3 DEF WorkerPush
<1>6. CASE WorkerPushReturns
  BY <1>6, BytesGive DEF WorkerPushReturns, Submitted
<1>7. CASE WorkerRender
  BY <1>7, BytesFrame DEF WorkerRender, HandBytes
<1>8. CASE WorkerRenderReturns
  BY <1>8, BytesFrame DEF WorkerRenderReturns, queueVars, HandBytes
<1>9. CASE WorkerFails
  BY <1>9, BytesFrame DEF WorkerFails, GoesTo, queueVars, HandBytes
<1>10. CASE WorkerShutdown
  BY <1>10, BytesFrame DEF WorkerShutdown, GoesTo, queueVars, HandBytes
<1>11. CASE WorkerDestroys
  <2>1. CASE UNCHANGED <<packets, reserved_bytes>> /\ pc' = "wait_idle"
    BY <1>11, <2>1, BytesFrame DEF WorkerDestroys, HandBytes
  <2>2. CASE Quarantine /\ pc' = "report"
    BY <2>2, BytesDrain DEF Quarantine, HandBytes
  <2> QED
    BY <1>11, <2>1, <2>2 DEF WorkerDestroys, GoesTo
<1>12. CASE WorkerFrees
  BY <1>12, BytesFrame DEF WorkerFrees, GoesTo, queueVars, HandBytes
<1>13. CASE WorkerReports
  BY <1>13, BytesFrame DEF WorkerReports, GoesTo, queueVars, HandBytes
<1>14. CASE WorkerCloses
  BY <1>14, BytesDrain DEF WorkerCloses, GoesTo, HandBytes
<1>15. CASE WorkerPanics
  BY <1>15, BytesDrain DEF WorkerPanics, Quarantine, HandBytes
<1>16. CASE FeederSubmits
  BY <1>16, BytesSubmit DEF FeederSubmits, workerVars, HandBytes
<1>17. CASE FeederRegisters \/ FeederWaits \/ FeederReturns \/ FeederCancels
  <2>1. packets' = packets /\ reserved_bytes' = reserved_bytes /\ pc' = pc /\ hand' = hand
    BY <1>17 DEF FeederRegisters, FeederWaits, FeederReturns, FeederCancels, queueVars,
                 workerVars
  <2> QED
    BY <2>1, BytesFrame DEF HandBytes
<1>18. CASE CallbackEnters \/ CallbackPosts \/ CallbackExits \/ RequestClose
  <2>1. packets' = packets /\ reserved_bytes' = reserved_bytes /\ pc' = pc /\ hand' = hand
    BY <1>18 DEF CallbackEnters, CallbackPosts, CallbackExits, RequestClose, queueVars,
                 workerVars
  <2> QED
    BY <2>1, BytesFrame DEF HandBytes
<1>19. CASE UNCHANGED decoderVars
  BY <1>19, BytesFrame DEF decoderVars, HandBytes
<1> QED
  BY <1>1, <1>2, <1>3, <1>4, <1>5, <1>6, <1>7, <1>8, <1>9, <1>10, <1>11, <1>12,
     <1>13, <1>14, <1>15, <1>16, <1>17, <1>18, <1>19
  DEF DecoderNext, WorkerNextStep, FeederNext, CallbackNext

(* The context goes only in wait_idle, when no callback is under way, and  *)
(* the codec, which is destroyed by then, starts none afterwards.          *)
LEMMA LifeInductive ==
    LifeInv /\ [DecoderNext]_decoderVars => LifeInv'
<1> SUFFICES ASSUME LifeInv, [DecoderNext]_decoderVars PROVE LifeInv'
  OBVIOUS
<1>1. CASE WorkerSetup \/ WorkerNext \/ WorkerInputAvailable \/ WorkerStreamChanged
  BY <1>1 DEF LifeInv, WorkerSetup, WorkerNext, WorkerInputAvailable,
              WorkerStreamChanged, GoesTo, nativeVars, codecVars, workerVars
<1>2. CASE WorkerPush \/ WorkerPushReturns \/ WorkerRender \/ WorkerRenderReturns
  BY <1>2 DEF LifeInv, WorkerPush, WorkerPushReturns, WorkerRender,
              WorkerRenderReturns, nativeVars, codecVars
<1>3. CASE WorkerFails \/ WorkerShutdown \/ WorkerReports \/ WorkerCloses
  BY <1>3 DEF LifeInv, WorkerFails, WorkerShutdown, WorkerReports, WorkerCloses,
              GoesTo, nativeVars, codecVars
<1>4. CASE WorkerDestroys \/ WorkerPanics
  BY <1>4 DEF LifeInv, WorkerDestroys, WorkerPanics, Quarantine, GoesTo, codecVars
<1>5. CASE WorkerFrees
  BY <1>5 DEF LifeInv, WorkerFrees, GoesTo, codecVars
<1>6. CASE FeederNext
  BY <1>6 DEF LifeInv, FeederNext, FeederRegisters, FeederSubmits, FeederWaits,
              FeederReturns, FeederCancels, workerVars, nativeVars, codecVars
<1>7. CASE CallbackEnters
  BY <1>7 DEF LifeInv, CallbackEnters, workerVars, nativeVars
<1>8. CASE CallbackPosts \/ CallbackExits
  <2>1. /\ context' = context /\ native' = native /\ pc' = pc
        /\ calls # {}
    BY <1>8 DEF CallbackPosts, CallbackExits, workerVars, nativeVars
  <2> QED
    BY <2>1 DEF LifeInv
<1>9. CASE RequestClose
  BY <1>9 DEF LifeInv, RequestClose, workerVars, nativeVars, codecVars
<1>10. CASE UNCHANGED decoderVars
  BY <1>10 DEF LifeInv, decoderVars
<1> QED
  BY <1>1, <1>2, <1>3, <1>4, <1>5, <1>6, <1>7, <1>8, <1>9, <1>10
  DEF DecoderNext, WorkerNextStep, CallbackNext

(* A step that makes no room and stops nothing leaves the feeder asleep    *)
(* for the reason it had.                                                  *)
LEMMA WaitFrame ==
    ASSUME WaitInv, feeder' = feeder, unit' = unit, woken' = woken,
           reserved_units' = reserved_units, reserved_bytes' = reserved_bytes,
           closing' = closing, failure' = failure
    PROVE  WaitInv'
BY DEF WaitInv, HasRoom, Stopped

(* A step that notifies leaves no feeder asleep. *)
LEMMA WaitNotified ==
    ASSUME WaitInv, feeder' = feeder, NotifyCapacity
    PROVE  WaitInv'
BY DEF WaitInv, NotifyCapacity

(* Whatever makes room, fails or closes notifies the feeder. *)
LEMMA WaitInductive ==
    WaitInv /\ [DecoderNext]_decoderVars => WaitInv'
<1> SUFFICES ASSUME WaitInv, [DecoderNext]_decoderVars PROVE WaitInv'
  OBVIOUS
<1>1. CASE WorkerSetup
  BY <1>1, WaitFrame, WaitNotified DEF WorkerSetup, Fail, queueVars, feederVars
<1>2. CASE WorkerNext \/ WorkerInputAvailable \/ WorkerStreamChanged \/ WorkerRender
           \/ WorkerFrees
  <2>1. /\ feeder' = feeder /\ unit' = unit /\ woken' = woken
        /\ reserved_units' = reserved_units /\ reserved_bytes' = reserved_bytes
        /\ closing' = closing /\ failure' = failure
    BY <1>2 DEF WorkerNext, WorkerInputAvailable, WorkerStreamChanged, WorkerRender,
                WorkerFrees, queueVars, feederVars
  <2> QED
    BY <2>1, WaitFrame
<1>3. CASE WorkerPush
  BY <1>3, WaitFrame, WaitNotified DEF WorkerPush, feederVars
<1>4. CASE WorkerPushReturns
  BY <1>4, WaitNotified DEF WorkerPushReturns, Submitted, feederVars
<1>5. CASE WorkerRenderReturns
  BY <1>5, WaitFrame, WaitNotified DEF WorkerRenderReturns, queueVars, feederVars
<1>6. CASE WorkerFails \/ WorkerShutdown \/ WorkerReports \/ WorkerCloses
  BY <1>6, WaitNotified DEF WorkerFails, WorkerShutdown, WorkerReports, WorkerCloses,
                            Fail, feederVars
<1>7. CASE WorkerDestroys
  BY <1>7, WaitFrame, WaitNotified DEF WorkerDestroys, Quarantine, feederVars
<1>8. CASE WorkerPanics
  BY <1>8, WaitNotified DEF WorkerPanics, Quarantine, feederVars
<1>9. CASE FeederRegisters \/ FeederSubmits \/ FeederReturns
  BY <1>9 DEF WaitInv, FeederRegisters, FeederSubmits, FeederReturns
<1>10. CASE FeederWaits
  BY <1>10 DEF WaitInv, FeederWaits, HasRoom, Stopped, Rejected, queueVars
<1>11. CASE FeederCancels
  BY <1>11, WaitFrame DEF FeederCancels, queueVars
<1>12. CASE CallbackEnters \/ CallbackExits
  BY <1>12, WaitFrame DEF CallbackEnters, CallbackExits, queueVars, feederVars
<1>13. CASE CallbackPosts
  <2>1. /\ feeder' = feeder /\ unit' = unit /\ closing' = closing
        /\ reserved_units' = reserved_units /\ reserved_bytes' = reserved_bytes
    BY <1>13 DEF CallbackPosts, feederVars
  <2>2. NotifyCapacity \/ UNCHANGED <<failure, woken>>
    BY <1>13 DEF CallbackPosts, Fail, Posted
  <2> QED
    BY <2>1, <2>2, WaitFrame, WaitNotified
<1>14. CASE RequestClose
  BY <1>14, WaitNotified DEF RequestClose, feederVars
<1>15. CASE UNCHANGED decoderVars
  BY <1>15, WaitFrame DEF decoderVars
<1> QED
  BY <1>1, <1>2, <1>3, <1>4, <1>5, <1>6, <1>7, <1>8, <1>9, <1>10, <1>11, <1>12,
     <1>13, <1>14, <1>15
  DEF DecoderNext, WorkerNextStep, FeederNext, CallbackNext

(* The hand with a callback's buffer and no unit. *)
LEMMA HandOfEvent ==
    ASSUME NEW e
    PROVE  /\ [Idle EXCEPT !.buffer = e] = [buffer |-> e, unit |-> 0]
           /\ [Idle EXCEPT !.buffer = e].buffer = e
BY DEF Idle

(* What is in the set of events. *)
LEMMA EventForms ==
    /\ Idle \in [buffer : Events, unit : Units] /\ 0 \in Units
    /\ Changed \notin Buffers /\ ErrorEvent \notin Buffers
    /\ \A e \in Events : e.kind = "Input" => e.index \in Inputs /\ e = InputBuffer(e.index)
    /\ \A e \in Events : e.kind = "Output" => e.index \in Outputs
    /\ \A e \in Events : e \in Buffers <=> e.kind \in {"Input", "Output"}
    /\ \A i \in Inputs : InputBuffer(i) \in Buffers
    /\ \A i, j : InputBuffer(i) = InputBuffer(j) => i = j
<1>1. Idle \in [buffer : Events, unit : Units] /\ 0 \in Units
  BY DecoderAssumption DEF Idle, Events, Units
<1>2. Changed.kind = "StreamChanged" /\ ErrorEvent.kind = "Error"
  BY DEF Changed, ErrorEvent
<1>3. \A b \in Buffers : b.kind \in {"Input", "Output"}
  BY DEF Buffers
<1>4. \A b \in Buffers : b.kind = "Input" => b.index \in Inputs /\ b = InputBuffer(b.index)
  BY DEF Buffers, InputBuffer
<1>5. \A b \in Buffers : b.kind = "Output" => b.index \in Outputs
  BY DEF Buffers
<1>6. \A i \in Inputs : InputBuffer(i) \in Buffers
  BY DEF Buffers, InputBuffer
<1>7. \A i, j : InputBuffer(i) = InputBuffer(j) => i = j
  BY DEF InputBuffer
<1> QED
  BY <1>1, <1>2, <1>3, <1>4, <1>5, <1>6, <1>7 DEF Events

(* The types by what the steps do with them: flags and places, counts,     *)
(* and the collections.                                                    *)
Places == {"setup", "next", "available", "push", "pushing", "render", "rendering",
           "changed", "failing", "shutdown", "destroy", "wait_idle", "report",
           "closed", "ended"}

FlagTypes ==
    /\ eos_accepted \in BOOLEAN /\ closing \in BOOLEAN /\ asleep \in BOOLEAN
    /\ failure \in {"none", "CallbackOverflow", "DuplicateBufferIndex", "Native"}
    /\ pc \in Places
    /\ native \in {"none", "started", "destroyed", "quarantined"}
    /\ context \in {"live", "freed"}
    /\ changes \in 0..MaxChanges
    /\ feeder \in {"idle", "registered", "full", "waiting"}
    /\ woken \in BOOLEAN /\ feederCancel \in BOOLEAN

CountTypes == reserved_units \in 0..MaxQueuedUnits /\ reserved_bytes \in 0..MaxQueuedBytes

CallTypes == codecOwns \subseteq Buffers /\ calls \subseteq [event : Events, posted : BOOLEAN]

EventTypes ==
    /\ events \in Seq(Events) /\ Len(events) <= MaxCallbacks
    /\ inputs \in Seq(Inputs)
    /\ input_indices \subseteq Inputs /\ output_indices \subseteq Outputs
    /\ hand \in [buffer : Events, unit : Units]

(* These are the types, given those the accounting keeps. *)
LEMMA TypesSplit ==
    /\ DecoderTypeOK => FlagTypes /\ CountTypes /\ CallTypes /\ EventTypes
    /\ /\ UnitsInv /\ FlagTypes /\ CountTypes /\ CallTypes /\ EventTypes
       => DecoderTypeOK
<1>1. DecoderTypeOK => FlagTypes
  BY DEF DecoderTypeOK, FlagTypes, Places
<1>2. DecoderTypeOK => CountTypes /\ CallTypes /\ EventTypes
  BY DEF DecoderTypeOK, CountTypes, CallTypes, EventTypes
<1>3. ASSUME UnitsInv, CountTypes PROVE Len(packets) <= MaxQueuedUnits
  <2>1. /\ Len(packets) \in Nat /\ reserved_units \in Nat /\ InHand \in Nat
        /\ reserved_units <= MaxQueuedUnits /\ MaxQueuedUnits \in Nat
    BY <1>3, DecoderAssumption DEF UnitsInv, CountTypes, InHand
  <2>2. CASE pc = "ended"
    <3>1. packets = <<>>
      BY <1>3, <2>2 DEF UnitsInv, UnitsAreConserved
    <3> QED
      BY <2>1, <3>1
  <2>3. CASE pc # "ended"
    <3>1. reserved_units = Len(packets) + InHand
      BY <1>3, <2>3 DEF UnitsInv, UnitsAreConserved
    <3> QED
      BY <2>1, <3>1
  <2> QED
    BY <2>2, <2>3
<1>4. ASSUME UnitsInv, FlagTypes, CountTypes, CallTypes, EventTypes PROVE DecoderTypeOK
  <2>1. packets \in Seq(Units) /\ Len(packets) <= MaxQueuedUnits
    BY <1>3, <1>4 DEF UnitsInv
  <2>2. stats \in [accepted : Nat, pushed : Nat, cancelled : Nat, eos : BOOLEAN,
                   quarantined : BOOLEAN, closed : BOOLEAN] /\ unit \in Units
    BY <1>4, Zenon DEF UnitsInv, StatsType
  <2> QED
    BY <1>4, <2>1, <2>2, Zenon
    DEF DecoderTypeOK, FlagTypes, CountTypes, CallTypes, EventTypes, Places
<1> QED
  BY <1>1, <1>2, <1>4

(* Where next() goes. *)
LEMMA NextPlaces ==
    ASSUME WorkerNext
    PROVE  pc' \in {"next", "available", "push", "render", "changed", "shutdown"}
<1> DEFINE k == Head(events).kind
<1>1. CASE pc' = CASE k = "Input" -> "available" [] k = "Output" -> "render"
                   [] OTHER -> "changed"
  <2> HIDE DEF k
  <2> QED
    BY <1>1
<1>2. CASE pc' = "shutdown" \/ pc' = "push" \/ pc' = pc
  BY <1>2 DEF WorkerNext
<1> QED
  BY <1>1, <1>2, ZenonT(30) DEF WorkerNext, GoesTo, workerVars

(* What next() moves: nothing, an event, or an input with a unit.          *)
LEMMA NextMoves ==
    ASSUME WorkerNext
    PROVE  \/ events' = events /\ inputs' = inputs /\ hand' = hand
           \/ /\ events # <<>> /\ events' = Tail(events) /\ inputs' = inputs
              /\ hand' = [Idle EXCEPT !.buffer = Head(events)]
           \/ /\ inputs # <<>> /\ inputs' = Tail(inputs) /\ events' = events
              /\ packets # <<>>
              /\ hand' = [buffer |-> [kind |-> "Input", index |-> Head(inputs)],
                          unit |-> Head(packets)]
BY ZenonT(30) DEF WorkerNext, GoesTo, workerVars

(* Flags and places take only the values they are declared with. *)
LEMMA FlagsInductive ==
    ASSUME FlagTypes, unit \in Units, [DecoderNext]_decoderVars
    PROVE  FlagTypes'
<1>1. CASE WorkerSetup
  BY <1>1 DEF FlagTypes, Places, WorkerSetup, Fail, WakeWorker, NotifyCapacity,
              GoesTo, queueVars, codecVars, feederVars
<1>2. CASE WorkerNext
  <2>1. pc' \in Places
    BY <1>2, NextPlaces DEF Places
  <2>2. asleep' \in BOOLEAN
    BY <1>2 DEF WorkerNext, FlagTypes
  <2>3. UNCHANGED <<eos_accepted, closing, failure, native, context, changes, feeder,
                    woken, feederCancel>>
    BY <1>2 DEF WorkerNext, nativeVars, codecVars, feederVars
  <2> QED
    BY <2>1, <2>2, <2>3 DEF FlagTypes
<1>3. CASE WorkerInputAvailable \/ WorkerStreamChanged
  BY <1>3 DEF FlagTypes, Places, WorkerInputAvailable, WorkerStreamChanged, queueVars,
              nativeVars, codecVars, feederVars
<1>4. CASE WorkerPush \/ WorkerPushReturns
  BY <1>4 DEF FlagTypes, Places, WorkerPush, WorkerPushReturns, Submitted,
              NotifyCapacity, nativeVars, codecVars, feederVars
<1>5. CASE WorkerRender \/ WorkerRenderReturns
  BY <1>5 DEF FlagTypes, Places, WorkerRender, WorkerRenderReturns, NotifyCapacity,
              queueVars, nativeVars, codecVars, feederVars
<1>6. CASE WorkerFails \/ WorkerReports
  BY <1>6 DEF FlagTypes, Places, WorkerFails, WorkerReports, Fail, WakeWorker,
              NotifyCapacity, GoesTo, queueVars, nativeVars, codecVars, feederVars
<1>7. CASE WorkerShutdown \/ RequestClose
  BY <1>7 DEF FlagTypes, Places, WorkerShutdown, RequestClose, WakeWorker,
              NotifyCapacity, GoesTo, queueVars, workerVars, nativeVars, codecVars,
              feederVars
<1>8. CASE WorkerDestroys \/ WorkerPanics
  BY <1>8 DEF FlagTypes, Places, WorkerDestroys, WorkerPanics, Quarantine, WakeWorker,
              NotifyCapacity, GoesTo, codecVars, feederVars
<1>9. CASE WorkerFrees \/ WorkerCloses
  BY <1>9 DEF FlagTypes, Places, WorkerFrees, WorkerCloses, NotifyCapacity, GoesTo,
              queueVars, nativeVars, codecVars, feederVars
<1>10. CASE FeederRegisters \/ FeederWaits \/ FeederReturns \/ FeederCancels
  BY <1>10 DEF FlagTypes, FeederRegisters, FeederWaits, FeederReturns, FeederCancels,
               queueVars, workerVars, nativeVars, codecVars
<1>11. CASE FeederSubmits
  BY <1>11 DEF FlagTypes, FeederSubmits, WakeWorker, workerVars, nativeVars, codecVars
<1>12. CASE CallbackEnters
  BY <1>12, DecoderAssumption
  DEF FlagTypes, CallbackEnters, queueVars, workerVars, nativeVars, feederVars
<1>13. CASE CallbackPosts
  <2>1. /\ asleep' \in BOOLEAN /\ woken' \in BOOLEAN
        /\ failure' \in {"none", "CallbackOverflow", "DuplicateBufferIndex", "Native"}
    BY <1>13 DEF CallbackPosts, Fail, Posted, PostFailure, WakeWorker, NotifyCapacity,
                 FlagTypes
  <2>2. UNCHANGED <<eos_accepted, closing, pc, native, context, changes, feeder, feederCancel>>
    BY <1>13 DEF CallbackPosts, workerVars, nativeVars, feederVars
  <2> QED
    BY <2>1, <2>2 DEF FlagTypes
<1>14. CASE CallbackExits
  BY <1>14 DEF FlagTypes, CallbackExits, queueVars, workerVars, nativeVars, feederVars
<1>15. CASE UNCHANGED decoderVars
  BY <1>15 DEF FlagTypes, decoderVars
<1> QED
  BY <1>1, <1>2, <1>3, <1>4, <1>5, <1>6, <1>7, <1>8, <1>9, <1>10, <1>11, <1>12,
     <1>13, <1>14, <1>15
  DEF DecoderNext, WorkerNextStep, FeederNext, CallbackNext

(* The reserved units stay within the quota because submit() asks for room *)
(* and the bytes do not fall below what is in the queue.                   *)
LEMMA CountsInductive ==
    ASSUME UnitsInv, UnitsInv', DecoderTypeOK, BytesInv, [DecoderNext]_decoderVars
    PROVE  CountTypes'
<1>h. /\ MaxQueuedUnits \in Nat /\ MaxQueuedBytes \in Nat
      /\ reserved_bytes - HandBytes \in Nat /\ HandBytes \in Nat
      /\ reserved_units \in 0..MaxQueuedUnits /\ reserved_bytes \in 0..MaxQueuedBytes
      /\ reserved_units \in Nat /\ reserved_units' \in Nat /\ unit \in Nat
  BY BytesCover, DecoderAssumption DEF DecoderTypeOK, UnitsInv, Units
<1>1. CASE UNCHANGED <<reserved_units, reserved_bytes>>
  BY <1>h, <1>1 DEF CountTypes
<1>2. CASE reserved_units' = 0 /\ reserved_bytes' = 0
  BY <1>h, <1>2 DEF CountTypes
<1>3. CASE /\ pc \in {"push", "pushing"} /\ reserved_units' = reserved_units - 1
           /\ reserved_bytes' = reserved_bytes - hand.unit
  <2>1. HandBytes = hand.unit
    BY <1>3 DEF HandBytes
  <2>2. reserved_units' \in 0..MaxQueuedUnits
    BY <1>h, <1>3
  <2>3. reserved_bytes' \in 0..MaxQueuedBytes
    BY <1>h, <1>3, <2>1
  <2> QED
    BY <2>2, <2>3 DEF CountTypes
<1>4. CASE FeederSubmits
  BY <1>h, <1>4 DEF CountTypes, FeederSubmits, HasRoom
<1>5. CASE WorkerSetup \/ WorkerNext \/ WorkerInputAvailable \/ WorkerStreamChanged
           \/ WorkerRender \/ WorkerRenderReturns \/ WorkerFails \/ WorkerShutdown
           \/ WorkerFrees \/ WorkerReports
  BY <1>1, <1>5 DEF WorkerSetup, WorkerNext, WorkerInputAvailable, WorkerStreamChanged,
     WorkerRender, WorkerRenderReturns, WorkerFails, WorkerShutdown, WorkerFrees,
     WorkerReports, queueVars
<1>6. CASE WorkerPush \/ WorkerPushReturns
  BY <1>1, <1>3, <1>6 DEF WorkerPush, WorkerPushReturns, Submitted
<1>7. CASE WorkerDestroys \/ WorkerPanics \/ WorkerCloses
  BY <1>1, <1>2, <1>7 DEF WorkerDestroys, WorkerPanics, WorkerCloses, Quarantine
<1>8. CASE FeederRegisters \/ FeederWaits \/ FeederReturns \/ FeederCancels \/ CallbackNext
           \/ RequestClose \/ UNCHANGED decoderVars
  BY <1>1, <1>8 DEF FeederRegisters, FeederWaits, FeederReturns, FeederCancels,
     CallbackNext, CallbackEnters, CallbackPosts, CallbackExits, RequestClose, queueVars,
     decoderVars
<1> QED
  BY <1>4, <1>5, <1>6, <1>7, <1>8 DEF DecoderNext, WorkerNextStep, FeederNext

(* What the codec owns and the callbacks under way. *)
LEMMA CallsInductive ==
    ASSUME DecoderTypeOK, IndexInv, [DecoderNext]_decoderVars
    PROVE  CallTypes'
<1>h. CallTypes /\ hand.buffer \in Events
  BY TypesSplit DEF DecoderTypeOK
<1>1. CASE UNCHANGED <<codecOwns, calls>>
  BY <1>h, <1>1 DEF CallTypes
<1>2. CASE /\ pc \in {"push", "render"} /\ calls' = calls
           /\ codecOwns' = codecOwns \cup {hand.buffer}
  <2>1. hand.buffer \in Buffers
    BY <1>2 DEF IndexInv, HandKnown, Announced
  <2> QED
    BY <1>h, <1>2, <2>1 DEF CallTypes
<1>3. CASE WorkerPush \/ WorkerRender
  BY <1>1, <1>2, <1>3 DEF WorkerPush, WorkerRender
<1>4. CASE CallbackEnters
  <2>1. PICK e \in Events : /\ calls' = calls \cup {[event |-> e, posted |-> FALSE]}
                            /\ codecOwns' \subseteq codecOwns
    <3>1. \/ \E b \in codecOwns : /\ calls' = calls \cup {[event |-> b, posted |-> FALSE]}
                                 /\ codecOwns' \subseteq codecOwns
          \/ \E e \in {Changed, ErrorEvent} :
               /\ calls' = calls \cup {[event |-> e, posted |-> FALSE]}
               /\ codecOwns' = codecOwns
      BY <1>4 DEF CallbackEnters
    <3> QED
      BY <1>h, <3>1 DEF CallTypes, Events
  <2>2. [event |-> e, posted |-> FALSE] \in [event : Events, posted : BOOLEAN]
    OBVIOUS
  <2> QED
    BY <1>h, <2>1, <2>2 DEF CallTypes
<1>5. CASE CallbackPosts
  <2>1. PICK c \in calls :
             calls' = (calls \ {c}) \cup {[c EXCEPT !.posted = TRUE]} /\ codecOwns' = codecOwns
    BY <1>5 DEF CallbackPosts
  <2>2. [c EXCEPT !.posted = TRUE] \in [event : Events, posted : BOOLEAN]
    BY <1>h DEF CallTypes
  <2> QED
    BY <1>h, <2>1, <2>2 DEF CallTypes
<1>6. CASE CallbackExits
  BY <1>h, <1>6 DEF CallbackExits, CallTypes
<1>7. CASE \/ WorkerSetup \/ WorkerNext \/ WorkerInputAvailable \/ WorkerStreamChanged
           \/ WorkerPushReturns \/ WorkerRenderReturns \/ WorkerFails \/ WorkerShutdown
           \/ WorkerDestroys \/ WorkerFrees \/ WorkerReports \/ WorkerCloses \/ WorkerPanics
  BY <1>1, <1>7 DEF WorkerSetup, WorkerNext, WorkerInputAvailable, WorkerStreamChanged,
     WorkerPushReturns, WorkerRenderReturns, WorkerFails, WorkerShutdown, WorkerDestroys,
     WorkerFrees, WorkerReports, WorkerCloses, WorkerPanics, codecVars
<1>8. CASE FeederNext \/ RequestClose \/ UNCHANGED decoderVars
  BY <1>1, <1>8 DEF FeederNext, FeederRegisters, FeederSubmits, FeederWaits,
     FeederReturns, FeederCancels, RequestClose, codecVars, decoderVars
<1> QED
  BY <1>3, <1>4, <1>5, <1>6, <1>7, <1>8 DEF DecoderNext, WorkerNextStep, CallbackNext

(* What the worker and its queue of events hold. *)
LEMMA EventsInductive ==
    ASSUME UnitsInv, DecoderTypeOK, IndexInv, [DecoderNext]_decoderVars
    PROVE  EventTypes'
<1>h. /\ EventTypes /\ Idle \in [buffer : Events, unit : Units] /\ 0 \in Units
      /\ MaxCallbacks \in Nat /\ packets \in Seq(Units)
      /\ calls \subseteq [event : Events, posted : BOOLEAN]
  BY TypesSplit, EventForms, DecoderAssumption DEF UnitsInv, DecoderTypeOK
<1>1. CASE UNCHANGED <<events, inputs, input_indices, output_indices>>
           /\ hand' \in {hand, Idle}
  BY <1>h, <1>1 DEF EventTypes
<1>2. CASE /\ events' = <<>> /\ inputs' = <<>> /\ input_indices' = {}
           /\ output_indices' = {} /\ hand' \in {hand, Idle}
  BY <1>h, <1>2 DEF EventTypes
<1>3. CASE WorkerNext
  <2>1. input_indices' = input_indices /\ output_indices' = output_indices
    BY <1>3 DEF WorkerNext
  <2>2. /\ events' \in Seq(Events) /\ Len(events') <= MaxCallbacks
        /\ inputs' \in Seq(Inputs)
    <3>1. events' = events \/ (events # <<>> /\ events' = Tail(events))
      BY <1>3, NextMoves, Zenon
    <3>2. inputs' = inputs \/ (inputs # <<>> /\ inputs' = Tail(inputs))
      BY <1>3, NextMoves, Zenon
    <3>0. /\ events \in Seq(Events) /\ Len(events) <= MaxCallbacks
          /\ inputs \in Seq(Inputs) /\ MaxCallbacks \in Nat
      BY <1>h DEF EventTypes
    <3>3. events' \in Seq(Events) /\ Len(events') <= MaxCallbacks
      BY <3>0, <3>1
    <3>4. inputs' \in Seq(Inputs)
      BY <3>0, <3>2
    <3> QED
      BY <3>3, <3>4
  <2>3. hand' \in [buffer : Events, unit : Units]
    <3>1. CASE hand' = hand
      BY <3>1, <1>h DEF EventTypes
    <3>2. CASE events # <<>> /\ hand' = [Idle EXCEPT !.buffer = Head(events)]
      <4>1. hand' = [buffer |-> Head(events), unit |-> 0]
        BY <3>2, HandOfEvent, Zenon
      <4>2. Head(events) \in Events
        BY <3>2, <1>h DEF EventTypes
      <4> QED
        BY <4>1, <4>2, <1>h
    <3>3. CASE /\ inputs # <<>> /\ packets # <<>>
               /\ hand' = [buffer |-> [kind |-> "Input", index |-> Head(inputs)],
                           unit |-> Head(packets)]
      <4>1. Head(inputs) \in Inputs /\ Head(packets) \in Units
        BY <3>3, <1>h DEF EventTypes
      <4>2. InputBuffer(Head(inputs)) \in Events
        BY <4>1, EventForms DEF Events
      <4> QED
        BY <3>3, <4>1, <4>2 DEF InputBuffer
    <3> QED
      BY <1>3, <3>1, <3>2, <3>3, NextMoves, Zenon
  <2> QED
    BY <1>h, <2>1, <2>2, <2>3 DEF EventTypes
<1>4. CASE WorkerInputAvailable
  <2>1. /\ inputs' = Append(inputs, hand.buffer.index) /\ hand' = Idle
        /\ UNCHANGED <<events, input_indices, output_indices>> /\ pc = "available"
    BY <1>4 DEF WorkerInputAvailable
  <2>2. hand.buffer.index \in Inputs
    <3>1. hand.buffer \in Events /\ hand.buffer.kind = "Input"
      BY <1>h, <2>1 DEF EventTypes, IndexInv, HandKnown
    <3> QED
      BY <3>1, EventForms
  <2> QED
    BY <1>h, <2>1, <2>2 DEF EventTypes
<1>5. CASE WorkerPush \/ WorkerRender
  BY <1>h, <1>5 DEF WorkerPush, WorkerRender, EventTypes
<1>6. CASE CallbackPosts
  <2>1. PICK c \in calls :
          /\ \/ UNCHANGED <<events, input_indices, output_indices>>
             \/ ~PostFails(c.event) /\ Posted(c.event)
          /\ hand' = hand /\ inputs' = inputs
    BY <1>6 DEF CallbackPosts, workerVars
  <2>2. c.event \in Events
    BY <1>h
  <2>3. CASE ~PostFails(c.event) /\ Posted(c.event)
    <3>1. Len(events) < MaxCallbacks /\ events' = Append(events, c.event)
      BY <1>h, <2>3 DEF PostFails, Posted, EventTypes
    <3>2. events' \in Seq(Events) /\ Len(events') <= MaxCallbacks
      BY <1>h, <2>2, <3>1 DEF EventTypes
    <3>3. input_indices' \subseteq Inputs /\ output_indices' \subseteq Outputs
      BY <1>h, <2>2, <2>3, EventForms DEF Posted, EventTypes
    <3> QED
      BY <1>h, <2>1, <3>2, <3>3 DEF EventTypes
  <2> QED
    BY <1>1, <2>1, <2>3
<1>7. CASE \/ WorkerSetup \/ WorkerStreamChanged \/ WorkerPushReturns
           \/ WorkerRenderReturns \/ WorkerFails \/ WorkerShutdown \/ WorkerFrees
           \/ WorkerReports
  BY <1>1, <1>7 DEF WorkerSetup, WorkerStreamChanged, WorkerPushReturns,
     WorkerRenderReturns, WorkerFails, WorkerShutdown, WorkerFrees, WorkerReports,
     GoesTo, queueVars
<1>8. CASE WorkerDestroys \/ WorkerCloses \/ WorkerPanics
  BY <1>1, <1>2, <1>8 DEF WorkerDestroys, WorkerCloses, WorkerPanics, Quarantine, GoesTo
<1>9. CASE FeederNext \/ CallbackEnters \/ CallbackExits \/ RequestClose
           \/ UNCHANGED decoderVars
  BY <1>1, <1>9 DEF FeederNext, FeederRegisters, FeederSubmits, FeederWaits,
     FeederReturns, FeederCancels, CallbackEnters, CallbackExits, RequestClose,
     queueVars, workerVars, decoderVars
<1> QED
  BY <1>3, <1>4, <1>5, <1>6, <1>7, <1>8, <1>9 DEF DecoderNext, WorkerNextStep, CallbackNext

(* Where no index is given or taken, the same buffers are registered. *)
LEMMA AnnouncedFrame ==
    ASSUME input_indices' = input_indices, output_indices' = output_indices
    PROVE  Announced' = Announced
BY DEF Announced

(* A step that hands no buffer over. *)
LEMMA IndexFrame ==
    ASSUME IndexInv, codecOwns' = codecOwns, calls' = calls, events' = events,
           inputs' = inputs, input_indices' = input_indices,
           output_indices' = output_indices,
           \/ pc' = pc /\ hand' = hand
           \/ pc' \notin {"available", "push", "render"}
    PROVE  IndexInv'
<1>1. Announced' = Announced
  BY AnnouncedFrame
<1>2. Elsewhere' /\ EventsKnown' /\ InputsKnown'
  BY <1>1 DEF IndexInv, Elsewhere, EventsKnown, InputsKnown
<1>3. HandKnown'
  BY <1>1 DEF IndexInv, HandKnown
<1> QED
  BY <1>2, <1>3 DEF IndexInv

(* quarantine() and closed(): nothing is registered any more. *)
LEMMA IndexDrain ==
    ASSUME IndexInv, codecOwns' = codecOwns, calls' = calls, events' = <<>>,
           inputs' = <<>>, input_indices' = {}, output_indices' = {},
           pc' \notin {"available", "push", "render"}
    PROVE  IndexInv'
<1>1. Announced' = {}
  BY DEF Announced
<1>2. Len(events') = 0 /\ Len(inputs') = 0
  OBVIOUS
<1>3. Elsewhere'
  BY <1>1 DEF IndexInv, Elsewhere
<1>4. EventsKnown' /\ InputsKnown' /\ HandKnown'
  BY <1>2 DEF EventsKnown, InputsKnown, HandKnown
<1> QED
  BY <1>3, <1>4 DEF IndexInv

(* The codec starts a callback: the buffer is in the callback now. *)
LEMMA IndexEnters ==
    ASSUME DecoderTypeOK, IndexInv, CallbackEnters
    PROVE  IndexInv'
<1>1. /\ UNCHANGED <<events, inputs, input_indices, output_indices, pc, hand>>
      /\ Announced' = Announced
  BY AnnouncedFrame DEF CallbackEnters, queueVars, workerVars
<1>2. EventsKnown' /\ InputsKnown' /\ HandKnown'
  BY <1>1 DEF IndexInv, EventsKnown, InputsKnown, HandKnown
<1>3. CASE \E b \in codecOwns :
              /\ codecOwns' = codecOwns \ {b}
              /\ calls' = calls \cup {[event |-> b, posted |-> FALSE]}
  <2>1. PICK b \in codecOwns : /\ codecOwns' = codecOwns \ {b}
                               /\ calls' = calls \cup {[event |-> b, posted |-> FALSE]}
    BY <1>3
  <2> DEFINE d == [event |-> b, posted |-> FALSE]
  <2>2. d.event = b /\ calls' = calls \cup {d}
    BY <2>1
  <2> HIDE DEF d
  <2> QED
    BY <1>1, <1>2, <2>1, <2>2 DEF IndexInv, Elsewhere
<1>4. CASE /\ \E e \in {Changed, ErrorEvent} :
                calls' = calls \cup {[event |-> e, posted |-> FALSE]}
           /\ codecOwns' = codecOwns
  <2>1. PICK e \in {Changed, ErrorEvent} :
          calls' = calls \cup {[event |-> e, posted |-> FALSE]}
    BY <1>4
  <2>2. e \notin Buffers
    BY EventForms
  <2>3. e \notin codecOwns /\ e \notin Announced
    BY <2>2 DEF DecoderTypeOK, Announced
  <2> DEFINE d == [event |-> e, posted |-> FALSE]
  <2>4. d.event = e /\ calls' = calls \cup {d}
    BY <2>1
  <2> HIDE DEF d
  <2> QED
    BY <1>1, <1>2, <1>4, <2>3, <2>4 DEF IndexInv, Elsewhere
<1> QED
  BY <1>3, <1>4, Zenon DEF CallbackEnters

(* post(): the buffer of the callback is registered and queued, or nothing *)
(* is; the callback has posted.                                            *)
LEMMA IndexPosts ==
    ASSUME DecoderTypeOK, IndexInv, CallbackPosts
    PROVE  IndexInv'
<1>1. PICK c \in calls :
        /\ ~c.posted
        /\ calls' = (calls \ {c}) \cup {[c EXCEPT !.posted = TRUE]}
        /\ \/ UNCHANGED <<events, input_indices, output_indices>>
           \/ ~PostFails(c.event) /\ Posted(c.event)
        /\ UNCHANGED <<inputs, pc, hand, codecOwns>>
  BY DEF CallbackPosts, workerVars
<1> DEFINE d == [c EXCEPT !.posted = TRUE]
<1>2. /\ c \in [event : Events, posted : BOOLEAN] /\ c.event \in Events
      /\ calls \subseteq [event : Events, posted : BOOLEAN]
  BY DEF DecoderTypeOK
<1>3. d.posted /\ calls' = (calls \ {c}) \cup {d}
  BY <1>1, <1>2
<1> HIDE DEF d
<1>4. \A k \in calls' : ~k.posted => k \in calls /\ k # c
  BY <1>3
<1>5. \A k \in calls : ~k.posted /\ k # c => k.event # c.event
  <2> SUFFICES ASSUME NEW k \in calls, ~k.posted, k.event = c.event PROVE k = c
    OBVIOUS
  <2>1. k \in [event : Events, posted : BOOLEAN]
    BY <1>2
  <2>2. k.posted = FALSE /\ c.posted = FALSE
    BY <1>1, <1>2, <2>1
  <2>3. ASSUME NEW x \in [event : Events, posted : BOOLEAN]
        PROVE  x = [event |-> x.event, posted |-> x.posted]
    OBVIOUS
  <2> QED
    BY <1>2, <2>1, <2>2, <2>3, Zenon
<1>6. c.event \notin Announced /\ c.event \notin codecOwns
  BY <1>1 DEF IndexInv, Elsewhere
<1>7. CASE UNCHANGED <<events, input_indices, output_indices>>
  <2>1. Announced' = Announced
    BY <1>7, AnnouncedFrame
  <2>2. EventsKnown' /\ InputsKnown' /\ HandKnown'
    BY <1>1, <1>7, <2>1 DEF IndexInv, EventsKnown, InputsKnown, HandKnown
  <2>3. Elsewhere'
    BY <1>1, <1>4, <2>1 DEF IndexInv, Elsewhere
  <2> QED
    BY <2>2, <2>3 DEF IndexInv
<1>8. CASE ~PostFails(c.event) /\ Posted(c.event)
  <2> DEFINE e == c.event
             n == Len(events)
             w == Append(events, e)
  <2>1. events' = w
    BY <1>8 DEF Posted
  <2>2. /\ n \in Nat /\ Len(w) = n + 1 /\ w[n + 1] = e
        /\ \A i \in 1..n : w[i] = events[i]
    BY <1>2 DEF DecoderTypeOK
  <2>3. Announced' = Announced \cup ({e} \cap Buffers)
    <3>1. /\ input_indices' = IF e.kind = "Input" THEN input_indices \cup {e.index}
                              ELSE input_indices
          /\ output_indices' = IF e.kind = "Output" THEN output_indices \cup {e.index}
                               ELSE output_indices
      BY <1>8 DEF Posted
    <3>2. e \in Buffers <=> e.kind \in {"Input", "Output"}
      BY <1>2, EventForms
    <3>3. \A b1, b2 \in Buffers : b1.kind = b2.kind /\ b1.index = b2.index => b1 = b2
      BY DEF Buffers
    <3> HIDE DEF e
    <3>4. CASE e.kind = "Input"
      BY <3>1, <3>2, <3>3, <3>4 DEF Announced
    <3>5. CASE e.kind = "Output"
      BY <3>1, <3>2, <3>3, <3>5 DEF Announced
    <3>6. CASE e.kind \notin {"Input", "Output"}
      <4>1. input_indices' = input_indices /\ output_indices' = output_indices
            /\ {e} \cap Buffers = {}
        BY <3>1, <3>2, <3>6
      <4> QED
        BY <4>1, AnnouncedFrame
    <3> QED
      BY <3>4, <3>5, <3>6
  <2> HIDE DEF e, w, n
  <2>4. e \notin Announced /\ e \notin codecOwns
    BY <1>6 DEF e
  <2>5. Elsewhere'
    <3>1. \A k \in calls' : ~k.posted => k.event \notin Announced' /\ k.event \notin codecOwns'
      <4> SUFFICES ASSUME NEW k \in calls', ~k.posted
                   PROVE  k.event \notin Announced' /\ k.event \notin codecOwns'
        OBVIOUS
      <4>1. k \in calls /\ k.event # e
        BY <1>4, <1>5 DEF e
      <4> QED
        BY <1>1, <2>3, <4>1 DEF IndexInv, Elsewhere
    <3>2. codecOwns' \cap Announced' = {}
      BY <1>1, <2>3, <2>4 DEF IndexInv, Elsewhere
    <3> QED
      BY <3>1, <3>2 DEF Elsewhere
  <2>6. EventsKnown'
    <3>1. Len(events') = n + 1 /\ events'[n + 1] = e /\ \A i \in 1..n : events'[i] = events[i]
      BY <2>1, <2>2
    <3>2. /\ \A i \in 1..n : events[i] \in Buffers => events[i] \in Announced
          /\ \A i, j \in 1..n : events[i] = events[j] /\ events[i] \in Buffers => i = j
      BY DEF IndexInv, EventsKnown, n
    <3>3. \A i \in 1..(n + 1) : i \in 1..n \/ i = n + 1
      BY <2>2
    <3>4. \A i \in 1..(n + 1) : events'[i] \in Buffers => events'[i] \in Announced'
      BY <2>3, <3>1, <3>2, <3>3
    <3>5. \A i, j \in 1..(n + 1) :
             events'[i] = events'[j] /\ events'[i] \in Buffers => i = j
      BY <2>4, <3>1, <3>2, <3>3
    <3> QED
      BY <3>1, <3>4, <3>5 DEF EventsKnown
  <2>7. InputsKnown'
    <3>1. Len(events') = n + 1 /\ events'[n + 1] = e /\ \A i \in 1..n : events'[i] = events[i]
      BY <2>1, <2>2
    <3>2. \A i \in 1..(n + 1) : i \in 1..n \/ i = n + 1
      BY <2>2
    <3>3. \A i \in 1..Len(inputs) : InputBuffer(inputs[i]) # e
      BY <2>4 DEF IndexInv, InputsKnown
    <3>4. inputs' = inputs
      BY <1>1
    <3>5. \A i \in 1..Len(inputs), j \in 1..n : InputBuffer(inputs[i]) # events[j]
      BY DEF IndexInv, InputsKnown, n
    <3>6. \A i \in 1..Len(inputs), j \in 1..(n + 1) : InputBuffer(inputs[i]) # events'[j]
      BY <3>1, <3>2, <3>3, <3>5
    <3>7. \A i \in 1..Len(inputs) : InputBuffer(inputs[i]) \in Announced'
      BY <2>3 DEF IndexInv, InputsKnown
    <3>8. \A i, j \in 1..Len(inputs) : inputs[i] = inputs[j] => i = j
      BY DEF IndexInv, InputsKnown
    <3> QED
      BY <3>1, <3>4, <3>6, <3>7, <3>8 DEF InputsKnown
  <2>8. HandKnown'
    <3>1. Len(events') = n + 1 /\ events'[n + 1] = e /\ \A i \in 1..n : events'[i] = events[i]
      BY <2>1, <2>2
    <3>2. \A i \in 1..(n + 1) : i \in 1..n \/ i = n + 1
      BY <2>2
    <3>3. HandKnown /\ pc' = pc /\ hand' = hand /\ inputs' = inputs
      BY <1>1 DEF IndexInv
    <3>4. ASSUME pc \in {"available", "push", "render"}
          PROVE  /\ hand.buffer \in Announced' /\ hand.buffer # e
                 /\ \A i \in 1..n : events[i] # hand.buffer
      BY <2>3, <2>4, <3>3, <3>4 DEF HandKnown, n
    <3> QED
      BY <3>1, <3>2, <3>3, <3>4 DEF HandKnown
  <2> QED
    BY <2>5, <2>6, <2>7, <2>8 DEF IndexInv
<1> QED
  BY <1>1, <1>7, <1>8

(* next(): an event or an announced input goes into the worker's hand. *)
LEMMA IndexNext ==
    ASSUME DecoderTypeOK, IndexInv, WorkerNext
    PROVE  IndexInv'
<1>1. /\ UNCHANGED <<codecOwns, calls, input_indices, output_indices>> /\ pc = "next"
      /\ Announced' = Announced
  BY AnnouncedFrame DEF WorkerNext, codecVars
<1>2. Elsewhere'
  BY <1>1 DEF IndexInv, Elsewhere
<1>3. CASE events' = events /\ inputs' = inputs /\ pc' \in {"next", "shutdown"}
  BY <1>1, <1>3, IndexFrame
<1>4. CASE /\ events # <<>> /\ events' = Tail(events) /\ inputs' = inputs
           /\ hand' = [Idle EXCEPT !.buffer = Head(events)]
           /\ pc' = CASE Head(events).kind = "Input" -> "available"
                      [] Head(events).kind = "Output" -> "render"
                      [] OTHER -> "changed"
  <2> DEFINE n == Len(events) - 1
             h == Head(events)
  <2>1. /\ n \in Nat /\ Len(events) = n + 1 /\ h = events[1] /\ Len(events') = n
        /\ \A i \in 1..n : events'[i] = events[i + 1]
        /\ h \in Events
    BY <1>4 DEF DecoderTypeOK
  <2>2. hand'.buffer = h
    BY <1>4, HandOfEvent, Zenon
  <2>3. pc' = CASE h.kind = "Input" -> "available" [] h.kind = "Output" -> "render"
                [] OTHER -> "changed"
    BY <1>4, Zenon
  <2> HIDE DEF n, h
  <2>4. \A i \in 1..n : i + 1 \in 1..(n + 1) /\ i + 1 # 1 /\ 1 \in 1..(n + 1)
    BY <2>1
  <2>5. /\ \A i \in 1..(n + 1) : events[i] \in Buffers => events[i] \in Announced
        /\ \A i, j \in 1..(n + 1) : events[i] = events[j] /\ events[i] \in Buffers => i = j
        /\ \A i \in 1..Len(inputs), j \in 1..(n + 1) : InputBuffer(inputs[i]) # events[j]
        /\ \A i \in 1..Len(inputs) : InputBuffer(inputs[i]) \in Announced
        /\ \A i, j \in 1..Len(inputs) : inputs[i] = inputs[j] => i = j
    BY <2>1 DEF IndexInv, EventsKnown, InputsKnown
  <2>6. EventsKnown'
    <3>1. \A i \in 1..n : events'[i] \in Buffers => events'[i] \in Announced
      BY <2>1, <2>4, <2>5
    <3>2. ASSUME NEW i \in 1..n, NEW j \in 1..n, events'[i] = events'[j], events'[i] \in Buffers
          PROVE  i = j
      <4>1. i + 1 = j + 1
        BY <2>1, <2>4, <2>5, <3>2
      <4> QED
        BY <2>1, <4>1
    <3> QED
      BY <1>1, <2>1, <3>1, <3>2 DEF EventsKnown
  <2>7. InputsKnown'
    BY <1>1, <1>4, <2>1, <2>4, <2>5 DEF InputsKnown
  <2>8. HandKnown'
    <3>1. CASE h \notin Buffers
      <4>1. pc' = "changed"
        BY <2>1, <2>3, <3>1, EventForms
      <4> QED
        BY <4>1 DEF HandKnown
    <3>2. CASE h \in Buffers
      <4>0. 1 \in 1..(n + 1)
        BY <2>1
      <4>1. h \in Announced
        BY <2>1, <2>5, <3>2, <4>0
      <4>2. \A i \in 1..n : events'[i] # h
        BY <2>1, <2>4, <2>5, <3>2
      <4>3. \A i \in 1..Len(inputs) : InputBuffer(inputs[i]) # h
        BY <2>1, <2>5, <4>0
      <4>4. /\ pc' \in {"available", "push"} => h.kind = "Input"
            /\ pc' = "render" => h.kind = "Output"
        BY <2>3
      <4> QED
        BY <1>1, <1>4, <2>1, <2>2, <4>1, <4>2, <4>3, <4>4 DEF HandKnown
    <3> QED
      BY <3>1, <3>2
  <2> QED
    BY <1>2, <2>6, <2>7, <2>8 DEF IndexInv
<1>5. CASE /\ inputs # <<>> /\ inputs' = Tail(inputs) /\ events' = events /\ pc' = "push"
           /\ hand' = [buffer |-> [kind |-> "Input", index |-> Head(inputs)],
                       unit |-> Head(packets)]
  <2> DEFINE n == Len(inputs) - 1
             b == InputBuffer(Head(inputs))
  <2>1. /\ n \in Nat /\ Len(inputs) = n + 1 /\ Head(inputs) = inputs[1] /\ Len(inputs') = n
        /\ \A i \in 1..n : inputs'[i] = inputs[i + 1]
    BY <1>5 DEF DecoderTypeOK
  <2>2. hand'.buffer = b /\ b = InputBuffer(inputs[1]) /\ b.kind = "Input"
    BY <1>5, <2>1 DEF InputBuffer
  <2> HIDE DEF n, b
  <2>4. /\ \A i \in 1..n : i + 1 \in 1..(n + 1) /\ i + 1 # 1
        /\ 1 \in 1..(n + 1)
    BY <2>1
  <2>5. /\ \A i \in 1..(n + 1), j \in 1..Len(events) : InputBuffer(inputs[i]) # events[j]
        /\ \A i \in 1..(n + 1) : InputBuffer(inputs[i]) \in Announced
        /\ \A i, j \in 1..(n + 1) : inputs[i] = inputs[j] => i = j
    BY <2>1 DEF IndexInv, InputsKnown
  <2>6. EventsKnown'
    BY <1>1, <1>5 DEF IndexInv, EventsKnown
  <2>7. InputsKnown'
    <3>2. ASSUME NEW i \in 1..n, NEW j \in 1..n, inputs'[i] = inputs'[j]
          PROVE  i = j
      <4>1. i + 1 = j + 1
        BY <2>1, <2>4, <2>5, <3>2
      <4> QED
        BY <2>1, <4>1
    <3> QED
      BY <1>1, <1>5, <2>1, <2>4, <2>5, <3>2 DEF InputsKnown
  <2>8. HandKnown'
    <3>1. b \in Announced /\ \A i \in 1..Len(events) : events[i] # b
      BY <2>2, <2>4, <2>5
    <3>2. \A i \in 1..n : InputBuffer(inputs'[i]) # b
      <4>1. ASSUME NEW i \in 1..n PROVE InputBuffer(inputs[i + 1]) # InputBuffer(inputs[1])
        <5>1. inputs[i + 1] # inputs[1]
          BY <2>4, <2>5
        <5> QED
          BY <5>1, EventForms
      <4> QED
        BY <2>1, <2>2, <4>1
    <3> QED
      BY <1>1, <1>5, <2>1, <2>2, <3>1, <3>2 DEF HandKnown
  <2> QED
    BY <1>2, <2>6, <2>7, <2>8 DEF IndexInv
<1> QED
  BY <1>1, <1>3, <1>4, <1>5, ZenonT(30) DEF WorkerNext, GoesTo, workerVars

(* input_available(): the index in hand joins the announced inputs. *)
LEMMA IndexAvailable ==
    ASSUME DecoderTypeOK, IndexInv, WorkerInputAvailable
    PROVE  IndexInv'
<1>1. /\ UNCHANGED <<codecOwns, calls, events, input_indices, output_indices>>
      /\ pc = "available" /\ pc' = "next" /\ Announced' = Announced
      /\ inputs' = Append(inputs, hand.buffer.index)
  BY AnnouncedFrame DEF WorkerInputAvailable, codecVars
<1> DEFINE n == Len(inputs)
           x == hand.buffer.index
           w == Append(inputs, x)
<1>2. /\ n \in Nat /\ Len(w) = n + 1 /\ w[n + 1] = x /\ \A i \in 1..n : w[i] = inputs[i]
  BY DEF DecoderTypeOK
<1>3. hand.buffer = InputBuffer(x)
  <2>1. hand.buffer \in Events /\ hand.buffer.kind = "Input"
    BY <1>1 DEF DecoderTypeOK, IndexInv, HandKnown
  <2> QED
    BY <2>1, EventForms
<1>4. inputs' = w
  BY <1>1
<1>5. /\ InputBuffer(x) \in Announced
      /\ \A i \in 1..Len(events) : events[i] # InputBuffer(x)
      /\ \A i \in 1..n : InputBuffer(inputs[i]) # InputBuffer(x)
  BY <1>1, <1>3 DEF IndexInv, HandKnown
<1> HIDE DEF n, x, w
<1>6. Elsewhere' /\ EventsKnown' /\ HandKnown'
  BY <1>1 DEF IndexInv, Elsewhere, EventsKnown, HandKnown
<1>7. InputsKnown'
  <2>1. \A i \in 1..(n + 1) : i \in 1..n \/ i = n + 1
    BY <1>2
  <2>2. /\ \A i \in 1..n : InputBuffer(inputs[i]) \in Announced
        /\ \A i, j \in 1..n : inputs[i] = inputs[j] => i = j
        /\ \A i \in 1..n, j \in 1..Len(events) : InputBuffer(inputs[i]) # events[j]
    BY DEF IndexInv, InputsKnown, n
  <2>3. \A i \in 1..n : inputs[i] # x
    BY <1>5
  <2>4. \A i \in 1..(n + 1) : InputBuffer(w[i]) \in Announced
    BY <1>2, <1>5, <2>1, <2>2
  <2>5. \A i, j \in 1..(n + 1) : w[i] = w[j] => i = j
    BY <1>2, <2>1, <2>2, <2>3
  <2>6. \A i \in 1..(n + 1), j \in 1..Len(events) : InputBuffer(w[i]) # events[j]
    BY <1>2, <1>5, <2>1, <2>2
  <2> QED
    BY <1>1, <1>2, <1>4, <2>4, <2>5, <2>6 DEF InputsKnown
<1> QED
  BY <1>6, <1>7 DEF IndexInv

(* returning_input and returning_output: the index is given back before    *)
(* the native call takes the buffer, which no callback holds and nothing   *)
(* else of the worker's names.                                             *)
LEMMA IndexGives ==
    ASSUME DecoderTypeOK, IndexInv, hand.buffer \in Announced,
           \A i \in 1..Len(events) : events[i] # hand.buffer,
           \A i \in 1..Len(inputs) : InputBuffer(inputs[i]) # hand.buffer,
           Announced' = Announced \ {hand.buffer},
           codecOwns' = codecOwns \cup {hand.buffer},
           UNCHANGED <<calls, events, inputs>>,
           pc' \notin {"available", "push", "render"}
    PROVE  IndexInv'
<1>1. Elsewhere'
  BY DEF IndexInv, Elsewhere
<1>2. EventsKnown'
  BY DEF IndexInv, EventsKnown
<1>3. InputsKnown'
  BY DEF IndexInv, InputsKnown
<1>4. HandKnown'
  BY DEF HandKnown
<1> QED
  BY <1>1, <1>2, <1>3, <1>4 DEF IndexInv

(* Every buffer is at one place, step by step. *)
LEMMA IndexInductive ==
    DecoderTypeOK /\ IndexInv /\ [DecoderNext]_decoderVars => IndexInv'
<1> SUFFICES ASSUME DecoderTypeOK, IndexInv, [DecoderNext]_decoderVars PROVE IndexInv'
  OBVIOUS
<1>1. CASE WorkerNext
  BY <1>1, IndexNext
<1>2. CASE WorkerInputAvailable
  BY <1>2, IndexAvailable
<1>3. CASE CallbackEnters
  BY <1>3, IndexEnters
<1>4. CASE CallbackPosts
  BY <1>4, IndexPosts
<1>5. CASE CallbackExits
  <2>1. /\ UNCHANGED <<codecOwns, events, inputs, input_indices, output_indices, pc, hand>>
        /\ calls' \subseteq calls
    BY <1>5 DEF CallbackExits, queueVars, workerVars
  <2>2. Announced' = Announced
    BY <2>1, AnnouncedFrame
  <2>3. Elsewhere'
    BY <2>1, <2>2 DEF IndexInv, Elsewhere
  <2>4. EventsKnown' /\ InputsKnown' /\ HandKnown'
    BY <2>1, <2>2 DEF IndexInv, EventsKnown, InputsKnown, HandKnown
  <2> QED
    BY <2>3, <2>4 DEF IndexInv
<1>6. CASE WorkerPush
  <2>1. /\ UNCHANGED <<calls, events, inputs, output_indices>> /\ pc = "push"
        /\ pc' \in {"pushing", "failing"}
    BY <1>6 DEF WorkerPush
  <2>2. CASE input_indices' = input_indices /\ codecOwns' = codecOwns
    BY <2>1, <2>2, IndexFrame
  <2>3. CASE /\ input_indices' = input_indices \ {hand.buffer.index}
             /\ codecOwns' = codecOwns \cup {hand.buffer}
    <3>1. /\ hand.buffer.kind = "Input" /\ hand.buffer \in Announced
          /\ \A i \in 1..Len(events) : events[i] # hand.buffer
          /\ \A i \in 1..Len(inputs) : InputBuffer(inputs[i]) # hand.buffer
      BY <2>1 DEF IndexInv, HandKnown
    <3>2. Announced' = Announced \ {hand.buffer}
      <4>1. \A b1, b2 \in Buffers : b1.kind = b2.kind /\ b1.index = b2.index => b1 = b2
        BY DEF Buffers
      <4>2. \A b \in Buffers : b.kind \in {"Input", "Output"}
        BY DEF Buffers
      <4> QED
        BY <2>1, <2>3, <3>1, <4>1, <4>2 DEF Announced
    <3> QED
      BY <2>1, <2>3, <3>1, <3>2, IndexGives
  <2> QED
    BY <1>6, <2>2, <2>3 DEF WorkerPush
<1>7. CASE WorkerRender
  <2>1. /\ UNCHANGED <<calls, events, inputs, input_indices>> /\ pc = "render"
        /\ pc' \in {"rendering", "failing"}
    BY <1>7 DEF WorkerRender
  <2>2. CASE output_indices' = output_indices /\ codecOwns' = codecOwns
    BY <2>1, <2>2, IndexFrame
  <2>3. CASE /\ output_indices' = output_indices \ {hand.buffer.index}
             /\ codecOwns' = codecOwns \cup {hand.buffer}
    <3>1. /\ hand.buffer.kind = "Output" /\ hand.buffer \in Announced
          /\ \A i \in 1..Len(events) : events[i] # hand.buffer
          /\ \A i \in 1..Len(inputs) : InputBuffer(inputs[i]) # hand.buffer
      BY <2>1 DEF IndexInv, HandKnown
    <3>2. Announced' = Announced \ {hand.buffer}
      <4>1. \A b1, b2 \in Buffers : b1.kind = b2.kind /\ b1.index = b2.index => b1 = b2
        BY DEF Buffers
      <4>2. \A b \in Buffers : b.kind \in {"Input", "Output"}
        BY DEF Buffers
      <4> QED
        BY <2>1, <2>3, <3>1, <4>1, <4>2 DEF Announced
    <3> QED
      BY <2>1, <2>3, <3>1, <3>2, IndexGives
  <2> QED
    BY <1>7, <2>2, <2>3 DEF WorkerRender
<1>8. CASE WorkerSetup \/ WorkerStreamChanged \/ WorkerPushReturns \/ WorkerRenderReturns
  <2>1. /\ UNCHANGED <<codecOwns, calls, events, inputs, input_indices, output_indices>>
        /\ pc' \in {"next", "shutdown", "failing"}
    BY <1>8 DEF WorkerSetup, WorkerStreamChanged, WorkerPushReturns,
                WorkerRenderReturns, GoesTo, queueVars, codecVars
  <2> QED
    BY <2>1, IndexFrame
<1>9. CASE WorkerFails \/ WorkerShutdown \/ WorkerFrees \/ WorkerReports
  <2>1. /\ UNCHANGED <<codecOwns, calls, events, inputs, input_indices, output_indices>>
        /\ pc' \in {"next", "destroy", "report", "closed"}
    BY <1>9 DEF WorkerFails, WorkerShutdown, WorkerFrees, WorkerReports, GoesTo,
                queueVars, codecVars
  <2> QED
    BY <2>1, IndexFrame
<1>10. CASE WorkerDestroys \/ WorkerPanics \/ WorkerCloses
  <2>1. /\ UNCHANGED <<codecOwns, calls>> /\ pc' \in {"wait_idle", "report", "ended"}
        /\ \/ UNCHANGED <<events, inputs, input_indices, output_indices>>
           \/ /\ events' = <<>> /\ inputs' = <<>>
              /\ input_indices' = {} /\ output_indices' = {}
    BY <1>10 DEF WorkerDestroys, WorkerPanics, WorkerCloses, Quarantine, GoesTo, codecVars
  <2> QED
    BY <2>1, IndexFrame, IndexDrain
<1>11. CASE FeederNext \/ RequestClose \/ UNCHANGED decoderVars
  <2>1. UNCHANGED <<codecOwns, calls, events, inputs, input_indices, output_indices, pc, hand>>
    BY <1>11 DEF FeederNext, FeederRegisters, FeederSubmits, FeederWaits, FeederReturns,
                 FeederCancels, RequestClose, queueVars, workerVars, codecVars, decoderVars
  <2> QED
    BY <2>1, IndexFrame
<1> QED
  BY <1>1, <1>2, <1>3, <1>4, <1>5, <1>6, <1>7, <1>8, <1>9, <1>10, <1>11
  DEF DecoderNext, WorkerNextStep, CallbackNext

(* post() finds a registered index only if the codec announced it twice.   *)
LEMMA DuplicateInductive ==
    ASSUME DecoderTypeOK, IndexInv, NoFalseDuplicate, [DecoderNext]_decoderVars
    PROVE  NoFalseDuplicate'
<1>1. CASE CallbackPosts
  <2>1. PICK c \in calls :
          /\ ~c.posted
          /\ \/ failure' = failure
             \/ Fail("Native")
             \/ PostFails(c.event) /\ Fail(PostFailure(c.event))
    BY <1>1 DEF CallbackPosts, Posted
  <2>2. c.event \in Events /\ c.event \notin Announced
    BY <2>1 DEF DecoderTypeOK, IndexInv, Elsewhere
  <2>3. /\ ~(c.event.kind = "Input" /\ c.event.index \in input_indices)
        /\ ~(c.event.kind = "Output" /\ c.event.index \in output_indices)
    BY <2>2, EventForms DEF Announced
  <2>4. PostFails(c.event) => PostFailure(c.event) = "CallbackOverflow"
    BY <2>3 DEF PostFails, PostFailure
  <2> QED
    BY <2>1, <2>4 DEF NoFalseDuplicate, Fail
<1>2. CASE WorkerSetup \/ WorkerFails \/ WorkerReports
  BY <1>2 DEF NoFalseDuplicate, WorkerSetup, WorkerFails, WorkerReports, Fail
<1>3. CASE \/ WorkerNext \/ WorkerInputAvailable \/ WorkerStreamChanged \/ WorkerPush
           \/ WorkerPushReturns \/ WorkerRender \/ WorkerRenderReturns \/ WorkerShutdown
           \/ WorkerDestroys \/ WorkerFrees \/ WorkerCloses \/ WorkerPanics
  BY <1>3 DEF NoFalseDuplicate, WorkerNext, WorkerInputAvailable, WorkerStreamChanged,
     WorkerPush, WorkerPushReturns, WorkerRender, WorkerRenderReturns, WorkerShutdown,
     WorkerDestroys, WorkerFrees, WorkerCloses, WorkerPanics
<1>4. CASE FeederNext \/ CallbackEnters \/ CallbackExits \/ RequestClose
           \/ UNCHANGED decoderVars
  BY <1>4 DEF NoFalseDuplicate, FeederNext, FeederRegisters, FeederSubmits, FeederWaits,
     FeederReturns, FeederCancels, CallbackEnters, CallbackExits, RequestClose, decoderVars
<1> QED
  BY <1>1, <1>2, <1>3, <1>4 DEF DecoderNext, WorkerNextStep, CallbackNext

(* A decoder starts with every buffer at the codec. *)
LEMMA SoundInit == DecoderInit => SoundInv
<1> SUFFICES ASSUME DecoderInit PROVE SoundInv
  OBVIOUS
<1>1. UnitsInv
  BY UnitsInvInit
<1>2. FlagTypes
  <2>1. changes \in 0..MaxChanges
    BY DecoderAssumption DEF DecoderInit
  <2> QED
    BY <2>1 DEF DecoderInit, FlagTypes, Places
<1>3. CountTypes
  BY DecoderAssumption DEF DecoderInit, CountTypes
<1>4. CallTypes
  BY DEF DecoderInit, CallTypes
<1>5. EventTypes
  <2>1. Len(<<>>) <= MaxCallbacks
    BY DecoderAssumption
  <2> QED
    BY <2>1, EventForms DEF DecoderInit, EventTypes
<1>6. DecoderTypeOK
  BY <1>1, <1>2, <1>3, <1>4, <1>5, TypesSplit
<1>7. BytesInv
  <2> DEFINE f == [i \in 0..0 |-> 0]
  <2>1. f[0] = 0 /\ SumsQueue(f, packets)
    BY DEF SumsQueue, DecoderInit
  <2>2. HandBytes = 0 /\ reserved_bytes = 0
    BY DEF HandBytes, DecoderInit
  <2> HIDE DEF f
  <2>3. reserved_bytes = f[0] + HandBytes
    BY <2>1, <2>2
  <2> QED
    BY <2>1, <2>3 DEF BytesInv
<1>8. LifeInv /\ WaitInv /\ NoFalseDuplicate
  BY DEF DecoderInit, LifeInv, WaitInv, NoFalseDuplicate
<1>9. IndexInv
  <2>1. Announced = {} /\ Len(events) = 0 /\ Len(inputs) = 0 /\ calls = {} /\ pc = "setup"
    BY DEF DecoderInit, Announced
  <2> QED
    BY <2>1 DEF IndexInv, Elsewhere, EventsKnown, InputsKnown, HandKnown
<1> QED
  BY <1>1, <1>6, <1>7, <1>8, <1>9 DEF SoundInv

(* The strengthening is inductive. *)
LEMMA SoundInductive == SoundInv /\ [DecoderNext]_decoderVars => SoundInv'
<1> SUFFICES ASSUME SoundInv, [DecoderNext]_decoderVars PROVE SoundInv'
  OBVIOUS
<1>1. /\ UnitsInv /\ DecoderTypeOK /\ BytesInv /\ LifeInv /\ WaitInv /\ IndexInv
      /\ NoFalseDuplicate
  BY DEF SoundInv
<1>2. UnitsInv'
  BY <1>1, UnitsInvInductive
<1>3. BytesInv' /\ LifeInv' /\ WaitInv' /\ IndexInv' /\ NoFalseDuplicate'
  BY <1>1, BytesInductive, LifeInductive, WaitInductive, IndexInductive, DuplicateInductive
<1>4. FlagTypes /\ unit \in Units
  BY <1>1, TypesSplit DEF UnitsInv
<1>5. FlagTypes' /\ CountTypes' /\ CallTypes' /\ EventTypes'
  BY <1>1, <1>2, <1>4, FlagsInductive, CountsInductive, CallsInductive, EventsInductive
<1>6. DecoderTypeOK'
  BY <1>2, <1>5, TypesSplit, PTL
<1> QED
  BY <1>2, <1>3, <1>6 DEF SoundInv

(* No callback of the codec sees freed userdata, the codec is never        *)
(* accused of announcing a buffer twice, and a feeder sleeps only while    *)
(* its unit has no room: for every set of native buffers, every quota and  *)
(* every interleaving of feeder, worker, callbacks and close.              *)
THEOREM SoundTheorem == DecoderSpec => []DecoderIsSound
<1>1. SoundInv => DecoderIsSound
  BY DEF SoundInv, DecoderIsSound, LifeInv, CallbacksSeeLiveContext, WaitInv,
         WaitingMeansFull
<1> QED
  BY <1>1, SoundInit, SoundInductive, PTL DEF DecoderSpec

-----------------------------------------------------------------------------
(* The publisher: its teardown and the consent of its user.                *)

Flags == [consent : BOOLEAN, rate_set : BOOLEAN, keyframe_requested : BOOLEAN,
          missed : BOOLEAN, closing : BOOLEAN, closed : BOOLEAN, quarantined : BOOLEAN, failure : Failures]
Objects == [encoder : {"none", "created", "started", "destroyed"},
            capture : {"none", "created", "attempted", "released"},
            window : BOOLEAN, context : {"live", "freed"}]

Pumping == {"next", "rate", "keyframe", "inspect", "freeing", "admit", "admit_keyframe", "copy",
            "publish"}

(* What exists at each place of the worker.                                *)
Standing == objects.encoder = "started" /\ objects.window

StageInv ==
    /\ objects \in Objects
    /\ workerAt \in {"setup_encoder", "setup_capture", "start_capture", "shutdown", "release",
                     "destroy", "wait_idle", "ended"} \cup Pumping
    /\ workerAt = "setup_encoder" => objects.capture = "none"
    /\ workerAt \in {"setup_capture", "start_capture"} \cup Pumping => Standing
    /\ CaptureAlive => Standing
    /\ workerAt \in {"destroy", "wait_idle"} => ~CaptureAlive
    /\ workerAt = "wait_idle" => ~EncoderAlive
    /\ objects.context = "freed" =>
         /\ workerAt = "ended" /\ callbacks = {} /\ ~EncoderAlive /\ ~CaptureAlive
         /\ ~objects.window

(* Content is on its way only with the consent, unless the worker has been *)
(* told to stop.                                                           *)
Carrying == {"inspect", "freeing", "admit", "admit_keyframe", "copy", "publish"}

ConsentInv ==
    /\ flags \in Flags
    /\ ~Halted /\ (queue # <<>> \/ workerAt \in Carrying) => Capturing

(* Every step leaves what exists at the worker's place as it should be.    *)
LEMMA PumpKeepsStage ==
    ASSUME StageInv, workerAt \in Pumping, workerAt' \in Pumping \cup {"shutdown"},
           UNCHANGED objects
    PROVE  StageInv'
BY DEF StageInv, Pumping, Standing, CaptureAlive, EncoderAlive

LEMMA PumpMoves ==
    ASSUME PumpNext \/ PumpRate \/ PumpKeyframe \/ PumpInspect \/ PumpFreed \/ PumpAdmit
           \/ PumpAdmitKeyframe \/ PumpCopy \/ PumpPublish
    PROVE  workerAt \in Pumping /\ workerAt' \in Pumping \cup {"shutdown"} /\ UNCHANGED objects
<1>1. CASE PumpNext \/ PumpKeyframe
  BY <1>1 DEF PumpNext, PumpKeyframe, TakesOutput, MovesTo, FailsTo, Pumping
<1>2. CASE PumpRate \/ PumpInspect \/ PumpFreed
  BY <1>2 DEF PumpRate, PumpInspect, PumpFreed, MovesTo, FailsTo, Pumping
<1>3. CASE PumpAdmit \/ PumpAdmitKeyframe
  BY <1>3 DEF PumpAdmit, PumpAdmitKeyframe, MovesTo, FailsTo, Pumping
<1>4. CASE PumpCopy \/ PumpPublish
  BY <1>4 DEF PumpCopy, PumpPublish, MovesTo, FailsTo, Pumping
<1> QED
  BY <1>1, <1>2, <1>3, <1>4

LEMMA OthersMove ==
    ASSUME HolderNext \/ ConsumerNext
    PROVE  UNCHANGED <<objects, workerAt, callbacks>>
<1>1. CASE HolderNext
  BY <1>1 DEF HolderNext, OpenAbandoned, OpenReturns, RequestKeyframe, RequestPublisherClose,
       HolderLetsGo, CloseReturns, threadVars, encoderVars
<1>2. CASE ConsumerNext
  BY <1>2 DEF ConsumerNext, RecvRegisters, RecvTakes, RecvWaits, RecvEnds, RecvCancelled,
       UnitDropped, threadVars, encoderVars
<1> QED
  BY <1>1, <1>2

LEMMA SetupKeepsStage ==
    ASSUME StageInv, SetupEncoder \/ SetupCapture \/ StartCapture
    PROVE  StageInv'
<1>1. objects \in Objects /\ objects.context = "live"
  BY DEF StageInv, SetupEncoder, SetupCapture, StartCapture, Objects
<1>2. CASE SetupEncoder
  <2>1. /\ workerAt = "setup_encoder" /\ objects.capture = "none"
        /\ \E e \in {"none", "created", "started"}, w \in BOOLEAN :
             /\ objects' = [objects EXCEPT !.encoder = e, !.window = w]
             /\ \/ workerAt' = "shutdown"
                \/ workerAt' = "setup_capture" /\ e = "started" /\ w
    <3>1. workerAt = "setup_encoder" /\ objects.capture = "none"
      BY <1>2 DEF SetupEncoder, StageInv
    <3>2. CASE objects' = [objects EXCEPT !.encoder = "started", !.window = TRUE]
      <4>1. workerAt' = "shutdown" \/ workerAt' = "setup_capture"
        BY <1>2 DEF SetupEncoder, FailsTo, MovesTo
      <4> QED
        BY <3>1, <3>2, <4>1
    <3>3. CASE \E made \in {<<"none", FALSE>>, <<"created", FALSE>>, <<"created", TRUE>>,
                            <<"started", TRUE>>} :
                 /\ objects' = [objects EXCEPT !.encoder = made[1], !.window = made[2]]
                 /\ workerAt' = "shutdown"
      <4>1. PICK made \in {<<"none", FALSE>>, <<"created", FALSE>>, <<"created", TRUE>>,
                           <<"started", TRUE>>} :
                 /\ objects' = [objects EXCEPT !.encoder = made[1], !.window = made[2]]
                 /\ workerAt' = "shutdown"
        BY <3>3
      <4>2. made[1] \in {"none", "created", "started"} /\ made[2] \in BOOLEAN
        <5>1. CASE made = <<"none", FALSE>>
          BY <5>1, Zenon
        <5>2. CASE made = <<"created", FALSE>>
          BY <5>2, Zenon
        <5>3. CASE made = <<"created", TRUE>>
          BY <5>3, Zenon
        <5>4. CASE made = <<"started", TRUE>>
          BY <5>4, Zenon
        <5> QED
          BY <4>1, <5>1, <5>2, <5>3, <5>4
      <4> QED
        BY <3>1, <4>1, <4>2
    <3>4. \/ objects' = [objects EXCEPT !.encoder = "started", !.window = TRUE]
          \/ \E made \in {<<"none", FALSE>>, <<"created", FALSE>>, <<"created", TRUE>>,
                         <<"started", TRUE>>} :
               /\ objects' = [objects EXCEPT !.encoder = made[1], !.window = made[2]]
               /\ workerAt' = "shutdown"
      BY <1>2 DEF SetupEncoder, FailsTo
    <3> QED
      BY <3>2, <3>3, <3>4
  <2>2. PICK e \in {"none", "created", "started"}, w \in BOOLEAN :
             /\ objects' = [objects EXCEPT !.encoder = e, !.window = w]
             /\ \/ workerAt' = "shutdown"
                \/ workerAt' = "setup_capture" /\ e = "started" /\ w
    BY <2>1
  <2>3. /\ objects' \in Objects /\ objects'.encoder = e /\ objects'.window = w
        /\ objects'.capture = "none" /\ objects'.context = "live"
    BY <1>1, <2>1, <2>2 DEF Objects
  <2> QED
    BY <2>2, <2>3 DEF StageInv, Standing, CaptureAlive, EncoderAlive, Pumping
<1>3. CASE SetupCapture \/ StartCapture
  <2>1. /\ Standing
        /\ \E c \in {"none", "created", "attempted"} \cup {objects.capture} :
             objects' = [objects EXCEPT !.capture = c]
        /\ workerAt' \in {"start_capture", "next", "shutdown"}
    <3>1. objects = [objects EXCEPT !.capture = objects.capture]
      BY <1>1 DEF Objects
    <3> QED
      BY <1>3, <3>1 DEF SetupCapture, StartCapture, FailsTo, MovesTo, StageInv
  <2>2. PICK c \in {"none", "created", "attempted"} \cup {objects.capture} :
             objects' = [objects EXCEPT !.capture = c]
    BY <2>1
  <2>3. /\ objects' \in Objects /\ objects'.encoder = objects.encoder
        /\ objects'.window = objects.window /\ objects'.context = "live"
    BY <1>1, <2>2 DEF Objects
  <2> QED
    BY <2>1, <2>3 DEF StageInv, Standing, CaptureAlive, EncoderAlive, Pumping
<1> QED
  BY <1>2, <1>3

LEMMA ShutdownKeepsStage ==
    ASSUME StageInv, ShutdownBegins \/ ShutdownReleases \/ ShutdownDestroys \/ ShutdownFrees
    PROVE  StageInv'
<1>1. objects \in Objects /\ objects.context = "live"
  BY DEF StageInv, ShutdownBegins, ShutdownReleases, ShutdownDestroys, ShutdownFrees, Objects
<1>2. CASE ShutdownBegins
  BY <1>1, <1>2 DEF ShutdownBegins, StageInv, Standing, CaptureAlive, EncoderAlive, Pumping
<1>3. CASE workerAt' = "ended" /\ UNCHANGED objects
  BY <1>1, <1>3 DEF StageInv, Standing, CaptureAlive, EncoderAlive, Pumping
<1>4. CASE /\ ShutdownReleases /\ workerAt' = "destroy"
           /\ objects' = [objects EXCEPT !.capture = IF CaptureAlive THEN "released" ELSE @]
  <2>1. /\ objects' \in Objects /\ objects'.encoder = objects.encoder
        /\ objects'.capture = (IF CaptureAlive THEN "released" ELSE objects.capture)
        /\ objects'.window = objects.window /\ objects'.context = "live"
    BY <1>1, <1>4 DEF Objects
  <2>2. ~CaptureAlive'
    BY <2>1 DEF CaptureAlive
  <2> QED
    BY <1>4, <2>1, <2>2 DEF StageInv, Standing, Pumping
<1>5. CASE /\ ShutdownDestroys /\ workerAt' = "wait_idle"
           /\ objects' = [objects EXCEPT !.encoder = IF EncoderAlive THEN "destroyed" ELSE @]
  <2>1. /\ objects' \in Objects /\ objects'.capture = objects.capture
        /\ objects'.encoder = (IF EncoderAlive THEN "destroyed" ELSE objects.encoder)
        /\ objects'.window = objects.window /\ objects'.context = "live"
    BY <1>1, <1>5 DEF Objects
  <2>2. ~EncoderAlive' /\ ~CaptureAlive'
    BY <1>5, <2>1 DEF EncoderAlive, CaptureAlive, StageInv, ShutdownDestroys
  <2> QED
    BY <1>5, <2>1, <2>2 DEF StageInv, Standing, Pumping
<1>6. CASE ShutdownFrees
  <2>1. /\ workerAt = "wait_idle" /\ workerAt' = "ended" /\ callbacks' = {}
        /\ objects' = [objects EXCEPT !.window = FALSE, !.context = "freed"]
    BY <1>6 DEF ShutdownFrees, WorkerEnds, encoderVars
  <2>2. /\ objects' \in Objects /\ objects'.encoder = objects.encoder
        /\ objects'.capture = objects.capture
        /\ objects'.window = FALSE /\ objects'.context = "freed"
    BY <1>1, <2>1 DEF Objects
  <2>3. ~EncoderAlive' /\ ~CaptureAlive'
    BY <2>1, <2>2 DEF EncoderAlive, CaptureAlive, StageInv
  <2> QED
    BY <2>1, <2>2, <2>3 DEF StageInv, Standing, Pumping
<1> QED
  BY <1>2, <1>3, <1>4, <1>5, <1>6 DEF ShutdownReleases, ShutdownDestroys, Quarantines, WorkerEnds

LEMMA CallsKeepStage ==
    ASSUME StageInv, EncoderCallNext
    PROVE  StageInv'
<1>1. UNCHANGED <<objects, workerAt>>
  BY DEF EncoderCallNext, EncoderCalls, CallbackRuns, EncoderCallExits, threadVars
<1>2. objects.context = "freed" => callbacks' = {}
  <2> SUFFICES ASSUME objects.context = "freed" PROVE callbacks' = {}
    OBVIOUS
  <2>1. callbacks = {} /\ ~EncoderAlive /\ ~CaptureAlive
    BY DEF StageInv
  <2>2. ~EncoderCalls
    BY <2>1 DEF EncoderCalls, EncoderAlive, CaptureAlive
  <2> QED
    BY <2>1, <2>2 DEF EncoderCallNext, CallbackRuns, EncoderCallExits
<1> QED
  BY <1>1, <1>2 DEF StageInv, Standing, CaptureAlive, EncoderAlive

LEMMA StageStep == StageInv /\ [PublisherNext]_publisherVars => StageInv'
<1> SUFFICES ASSUME StageInv, [PublisherNext]_publisherVars PROVE StageInv'
  OBVIOUS
<1>1. ASSUME UNCHANGED <<objects, workerAt, callbacks>> PROVE StageInv'
  BY <1>1 DEF StageInv, Standing, CaptureAlive, EncoderAlive
<1>2. CASE HolderNext \/ ConsumerNext
  BY <1>1, <1>2, OthersMove
<1>3. CASE EncoderCallNext
  BY <1>3, CallsKeepStage
<1>4. CASE PublisherWorkerNext
  <2>1. CASE SetupEncoder \/ SetupCapture \/ StartCapture
    BY <2>1, SetupKeepsStage
  <2>2. CASE ShutdownBegins \/ ShutdownReleases \/ ShutdownDestroys \/ ShutdownFrees
    BY <2>2, ShutdownKeepsStage
  <2>3. CASE PumpNext \/ PumpRate \/ PumpKeyframe \/ PumpInspect \/ PumpFreed \/ PumpAdmit
             \/ PumpAdmitKeyframe \/ PumpCopy \/ PumpPublish
    BY <2>3, PumpMoves, PumpKeepsStage
  <2> QED
    BY <1>4, <2>1, <2>2, <2>3 DEF PublisherWorkerNext
<1>5. CASE UNCHANGED publisherVars
  BY <1>1, <1>5 DEF publisherVars
<1> QED
  BY <1>2, <1>3, <1>4, <1>5 DEF PublisherNext

(* Whichever native call of the setup or of the shutdown fails, and        *)
(* whatever callback is inside the userdata then: the capture goes before  *)
(* the encoder and the window it produces into, and the userdata goes last *)
(* (native::open, Owner::shutdown and wait_idle of ohos_publisher.rs).     *)
THEOREM TeardownTheorem == PublisherSpec => []TeardownIsOrdered
<1>1. PublisherInit => StageInv
  BY DEF PublisherInit, StageInv, Allocation, Objects, Standing, CaptureAlive, EncoderAlive, Pumping
<1>2. StageInv => TeardownIsOrdered
  BY DEF StageInv, TeardownIsOrdered, Standing
<1> QED
  BY <1>1, <1>2, StageStep, PTL DEF PublisherSpec

-----------------------------------------------------------------------------
(* What the fields of State become in a step: each is written by its own   *)
(* critical section, and only forwards.                                    *)
Accuses(c) ==
    /\ c.event \in EncoderOutputs /\ ~c.done /\ ~Halted
    /\ Cardinality(owned) >= MaxEvents \/ c.event \in owned
    /\ \E error \in {"CallbackOverflow", "DuplicateOutput"} : flags' = Failed(error)

FlagUpdates ==
    \/ UNCHANGED flags
    \/ flags' = [flags EXCEPT !.closing = TRUE]
    \/ \E error \in {"Native", "Closed", "Rejected"} : flags' = Failed(error)
    \/ \E c \in callbacks : Accuses(c)
    \/ \E b, m \in BOOLEAN : flags' = [flags EXCEPT !.keyframe_requested = b, !.missed = m]
    \/ flags' = [flags EXCEPT !.rate_set = TRUE]
    \/ \E event \in Signals : flags' = CaptureState(event)
    \/ \E q \in BOOLEAN :
         flags' = [flags EXCEPT !.closing = TRUE, !.quarantined = q, !.closed = ~q]

LEMMA FlagsMove == [PublisherNext]_publisherVars => FlagUpdates
<1> SUFFICES ASSUME [PublisherNext]_publisherVars PROVE FlagUpdates
  OBVIOUS
<1>1. ASSUME UNCHANGED flags PROVE FlagUpdates
  BY <1>1 DEF FlagUpdates
<1>2. ASSUME NEW error \in {"Native", "Closed", "Rejected"}, Fails(error) PROVE FlagUpdates
  BY <1>2 DEF Fails, FlagUpdates
<1>3. ASSUME NEW error \in {"Native", "Closed", "Rejected"}, FailsTo(error) PROVE FlagUpdates
  BY <1>2, <1>3 DEF FailsTo
<1>4. ASSUME RequestsClose PROVE FlagUpdates
  BY <1>4 DEF RequestsClose, FlagUpdates
<1>5. ASSUME NEW q \in BOOLEAN, Clear(q) PROVE FlagUpdates
  BY <1>5 DEF Clear, FlagUpdates
<1>7. CASE HolderNext
  <2>1. ASSUME RequestKeyframe PROVE FlagUpdates
    <3>1. (workerAt = "keyframe") \in BOOLEAN
      OBVIOUS
    <3> QED
      BY <2>1, <3>1 DEF RequestKeyframe, FlagUpdates
  <2> QED
    BY <1>1, <1>4, <1>7, <2>1 DEF HolderNext, OpenAbandoned, OpenReturns, RequestPublisherClose,
         HolderLetsGo, CloseReturns
<1>8. CASE ConsumerNext
  BY <1>1, <1>8 DEF ConsumerNext, RecvRegisters, RecvTakes, RecvWaits, RecvEnds, RecvCancelled,
       UnitDropped
<1>9. CASE EncoderCallNext
  <2>1. ASSUME NEW c \in callbacks, ~c.done, OutputCallback(c) PROVE FlagUpdates
    <3>1. UNCHANGED flags \/ Accuses(c)
      BY <2>1 DEF OutputCallback, Accuses
    <3> QED
      BY <3>1 DEF FlagUpdates
  <2>2. ASSUME NEW event \in Signals, flags' = CaptureState(event) PROVE FlagUpdates
    BY <2>2 DEF FlagUpdates
  <2> QED
    BY <1>1, <1>9, <2>1, <2>2 DEF EncoderCallNext, EncoderCalls, CallbackRuns, EncoderCallExits
<1>10. CASE PublisherWorkerNext
  <2>1. CASE SetupEncoder \/ SetupCapture \/ StartCapture
    BY <1>1, <1>3, <2>1 DEF SetupEncoder, SetupCapture, StartCapture
  <2>2. CASE PumpNext
    <3>1. ASSUME flags' = [flags EXCEPT !.keyframe_requested = FALSE, !.missed = FALSE]
          PROVE  FlagUpdates
      BY <3>1 DEF FlagUpdates
    <3> QED
      BY <1>1, <2>2, <3>1 DEF PumpNext
  <2>3. CASE PumpRate
    <3>1. ASSUME flags' = [flags EXCEPT !.rate_set = TRUE] PROVE FlagUpdates
      BY <3>1 DEF FlagUpdates
    <3> QED
      BY <1>3, <2>3, <3>1 DEF PumpRate
  <2>4. CASE PumpKeyframe \/ PumpInspect \/ PumpFreed \/ PumpAdmitKeyframe \/ PumpCopy
    BY <1>1, <1>3, <2>4
       DEF PumpKeyframe, PumpInspect, PumpFreed, PumpAdmitKeyframe, PumpCopy
  <2>5. CASE PumpAdmit
    <3>1. ASSUME flags' = [flags EXCEPT !.keyframe_requested = FALSE, !.missed = FALSE]
          PROVE  FlagUpdates
      BY <3>1 DEF FlagUpdates
    <3> QED
      BY <1>1, <2>5, <3>1 DEF PumpAdmit
  <2>6. CASE PumpPublish
    BY <1>1, <1>3, <2>6 DEF PumpPublish
  <2>7. CASE ShutdownBegins \/ ShutdownReleases \/ ShutdownDestroys \/ ShutdownFrees
    BY <1>1, <1>2, <1>4, <1>5, <2>7
       DEF ShutdownBegins, ShutdownReleases, ShutdownDestroys, ShutdownFrees, Quarantines
  <2> QED
    BY <1>10, <2>1, <2>2, <2>3, <2>4, <2>5, <2>6, <2>7 DEF PublisherWorkerNext
<1>11. CASE UNCHANGED publisherVars
  BY <1>1, <1>11 DEF publisherVars
<1> QED
  BY <1>7, <1>8, <1>9, <1>10, <1>11 DEF PublisherNext

(* A failure or a close is for good, and consent ends only with one.       *)
LEMMA FlagsStep ==
    ASSUME flags \in Flags, FlagUpdates
    PROVE  /\ flags' \in Flags
           /\ Halted => Halted'
           /\ ~Halted' /\ Capturing => Capturing'
<1> USE DEF Halted, Capturing
<1>1. CASE UNCHANGED flags
  BY <1>1
<1>2. CASE flags' = [flags EXCEPT !.closing = TRUE]
  BY <1>2 DEF Flags
<1>3. ASSUME NEW error \in Failures, flags' = Failed(error)
      PROVE  /\ flags' \in Flags
             /\ Halted => Halted'
             /\ ~Halted' /\ Capturing => Capturing'
    BY <1>3 DEF Flags, Failed, Failures
<1>4. CASE \E b, m \in BOOLEAN : flags' = [flags EXCEPT !.keyframe_requested = b, !.missed = m]
  BY <1>4 DEF Flags
<1>5. CASE flags' = [flags EXCEPT !.rate_set = TRUE]
  BY <1>5 DEF Flags
<1>6. CASE \E event \in Signals : flags' = CaptureState(event)
  <2>1. CASE flags' = [flags EXCEPT !.consent = ~flags.closing \/ @]
    <3>1. (~flags.closing \/ flags.consent) \in BOOLEAN
      OBVIOUS
    <3> QED
      BY <2>1, <3>1 DEF Flags
  <2>2. CASE flags' = [flags EXCEPT !.consent = FALSE,
                         !.failure = IF flags.closing \/ @ # "none" THEN @ ELSE "ConsentEnded"]
    BY <2>2 DEF Flags, Failures
  <2>3. CASE flags' = Failed("Native")
    BY <1>3, <2>3 DEF Failures
  <2> QED
    BY <1>6, <2>1, <2>2, <2>3 DEF Signals, CaptureState
<1>7. ASSUME NEW q \in BOOLEAN,
             flags' = [flags EXCEPT !.closing = TRUE, !.quarantined = q, !.closed = ~q]
      PROVE  /\ flags' \in Flags
             /\ Halted => Halted'
             /\ ~Halted' /\ Capturing => Capturing'
    <2>1. CASE q = TRUE
    BY <1>7, <2>1 DEF Flags
  <2>2. CASE q = FALSE
    BY <1>7, <2>2 DEF Flags
  <2> QED
    BY <2>1, <2>2
<1>8. {"Native", "Closed", "Rejected", "CallbackOverflow", "DuplicateOutput"} \subseteq Failures
  BY DEF Failures
<1>9. (\E error \in {"Native", "Closed", "Rejected"} : flags' = Failed(error))
        \/ (\E c \in callbacks : Accuses(c))
      => \E error \in Failures : flags' = Failed(error)
  BY <1>8 DEF Accuses
<1> QED
  BY <1>1, <1>2, <1>3, <1>4, <1>5, <1>6, <1>7, <1>9 DEF FlagUpdates

-----------------------------------------------------------------------------
(* The types of what travels from the encoder to the consumer.             *)
Filled == [index : EncoderOutputs, n : Stamps]
Taken == [index : EncoderOutputs, n : Stamps, length : Nat]
Entered == [event : EncoderOutputs, n : Stamps, done : BOOLEAN]
           \cup [event : Signals, n : Nat, done : BOOLEAN]

EncoderInv ==
    /\ announced \in Seq(Contents) /\ Len(announced) <= MaxAnnounced
    /\ encoderOwns \subseteq EncoderOutputs /\ owned \subseteq EncoderOutputs
    /\ callbacks \subseteq Entered
    /\ outputs \in Seq(Filled)
    /\ signals \in 0..MaxSignals

HandInv ==
    /\ inHand = NoBuffer \/ inHand \in Taken
    /\ workerAt \in Carrying => inHand \in Taken
    /\ parameters \in [sets : BOOLEAN, pending : SUBSET Stamps]

PacketInv ==
    /\ queue \in Seq(Packet) /\ leases \in Seq(Packet) /\ delivered \in Seq(Stamps)
    /\ Len(leases) <= MaxLeases

(* Which steps touch them, and how.                                        *)
EncoderMoves ==
    \/ UNCHANGED <<announced, encoderOwns, owned, callbacks, outputs, signals>>
    \/ EncoderCallNext
    \/ /\ workerAt \in Carrying /\ Free
       /\ UNCHANGED <<announced, callbacks, outputs, signals>>
    \/ /\ outputs # <<>> /\ outputs' = Tail(outputs)
       /\ UNCHANGED <<announced, encoderOwns, owned, callbacks, signals>>
    \/ /\ outputs' = <<>> /\ owned' = {}
       /\ UNCHANGED <<announced, encoderOwns, callbacks, signals>>

LEMMA EncoderVarsMove == [PublisherNext]_publisherVars => EncoderMoves
<1> SUFFICES ASSUME [PublisherNext]_publisherVars PROVE EncoderMoves
  OBVIOUS
<1> USE DEF EncoderMoves, sharedVars, encoderVars
<1>1. CASE HolderNext
  BY <1>1 DEF HolderNext, OpenAbandoned, OpenReturns, RequestKeyframe, RequestPublisherClose,
       HolderLetsGo, CloseReturns
<1>2. CASE ConsumerNext
  BY <1>2 DEF ConsumerNext, RecvRegisters, RecvTakes, RecvWaits, RecvEnds, RecvCancelled,
       UnitDropped
<1>3. CASE PublisherWorkerNext
  <2>1. CASE SetupEncoder \/ SetupCapture \/ StartCapture
    BY <2>1 DEF SetupEncoder, SetupCapture, StartCapture
  <2>2. CASE PumpNext \/ PumpKeyframe
    BY <2>2 DEF PumpNext, PumpKeyframe, TakesOutput
  <2>3. CASE PumpRate \/ PumpFreed \/ PumpAdmit \/ PumpAdmitKeyframe
    BY <2>3 DEF PumpRate, PumpFreed, PumpAdmit, PumpAdmitKeyframe
  <2>4. CASE PumpInspect \/ PumpCopy
    BY <2>4 DEF PumpInspect, PumpCopy, Carrying
  <2>5. CASE PumpPublish
    BY <2>5 DEF PumpPublish
  <2>6. CASE ShutdownBegins \/ ShutdownReleases \/ ShutdownDestroys \/ ShutdownFrees
    BY <2>6 DEF ShutdownBegins, ShutdownReleases, ShutdownDestroys, ShutdownFrees, Quarantines,
         Clear
  <2> QED
    BY <1>3, <2>1, <2>2, <2>3, <2>4, <2>5, <2>6 DEF PublisherWorkerNext
<1>4. CASE UNCHANGED publisherVars
  BY <1>4 DEF publisherVars
<1> QED
  BY <1>1, <1>2, <1>3, <1>4 DEF PublisherNext

LEMMA EncoderStep == EncoderInv /\ HandInv /\ EncoderMoves => EncoderInv'
<1> SUFFICES ASSUME EncoderInv, HandInv, EncoderMoves PROVE EncoderInv'
  OBVIOUS
<1> USE PublisherAssumption
<1>1. CASE UNCHANGED <<announced, encoderOwns, owned, callbacks, outputs, signals>>
  BY <1>1 DEF EncoderInv
<1>2. CASE EncoderCalls
  <2>1. CASE /\ Len(announced) < MaxAnnounced
             /\ \E index \in encoderOwns, content \in Contents :
                  /\ encoderOwns' = encoderOwns \ {index}
                  /\ announced' = Append(announced, content)
                  /\ callbacks' = callbacks \cup
                       {[event |-> index, n |-> Len(announced) + 1, done |-> FALSE]}
             /\ UNCHANGED <<signals, outputs, owned>>
    <3>1. PICK index \in encoderOwns, content \in Contents :
                  /\ encoderOwns' = encoderOwns \ {index}
                  /\ announced' = Append(announced, content)
                  /\ callbacks' = callbacks \cup
                       {[event |-> index, n |-> Len(announced) + 1, done |-> FALSE]}
      BY <2>1
    <3>2. announced' \in Seq(Contents) /\ Len(announced') = Len(announced) + 1
          /\ Len(announced) \in Nat
      BY <3>1 DEF EncoderInv
    <3>3. Len(announced) + 1 \in Stamps
      BY <2>1, <3>2 DEF Stamps
    <3>4. [event |-> index, n |-> Len(announced) + 1, done |-> FALSE] \in Entered
      BY <3>3 DEF Entered, EncoderInv
    <3>5. callbacks' \subseteq Entered
      BY <3>1, <3>4 DEF EncoderInv
    <3>6. Len(announced') <= MaxAnnounced
      BY <2>1, <3>2
    <3> QED
      BY <2>1, <3>1, <3>2, <3>5, <3>6 DEF EncoderInv
  <2>2. CASE /\ signals < MaxSignals /\ signals' = signals + 1
             /\ \E signal \in Signals :
                  callbacks' = callbacks \cup
                    {[event |-> signal, n |-> signals, done |-> FALSE]}
             /\ UNCHANGED <<announced, encoderOwns, outputs, owned>>
    <3>1. PICK signal \in Signals :
                  callbacks' = callbacks \cup
                    {[event |-> signal, n |-> signals, done |-> FALSE]}
      BY <2>2
    <3>2. [event |-> signal, n |-> signals, done |-> FALSE] \in Entered
      BY DEF Entered, EncoderInv
    <3>3. signals' \in 0..MaxSignals
      BY <2>2 DEF EncoderInv
    <3> QED
      BY <2>2, <3>1, <3>2, <3>3 DEF EncoderInv
  <2> QED
    BY <1>2, <2>1, <2>2 DEF EncoderCalls, sharedVars
<1>3. CASE CallbackRuns
  <2>1. PICK c \in callbacks :
          /\ ~c.done
          /\ callbacks' = (callbacks \ {c}) \cup {[c EXCEPT !.done = TRUE]}
          /\ \/ OutputCallback(c)
             \/ UNCHANGED <<outputs, owned>>
          /\ UNCHANGED <<announced, encoderOwns, signals>>
    BY <1>3 DEF CallbackRuns
  <2>2. c \in Entered
    BY DEF EncoderInv
  <2>3. [c EXCEPT !.done = TRUE] \in Entered
    <3>1. CASE c \in [event : EncoderOutputs, n : Stamps, done : BOOLEAN]
      BY <3>1 DEF Entered
    <3>2. CASE c \in [event : Signals, n : Nat, done : BOOLEAN]
      BY <3>2 DEF Entered
    <3> QED
      BY <2>2, <3>1, <3>2 DEF Entered
  <2>4. callbacks' \subseteq Entered
    BY <2>1, <2>3 DEF EncoderInv
  <2>5. owned' \subseteq EncoderOutputs /\ outputs' \in Seq(Filled)
    <3>1. CASE UNCHANGED <<outputs, owned>>
      BY <3>1 DEF EncoderInv
    <3>2. CASE /\ c.event \in EncoderOutputs
               /\ owned' = owned \cup {c.event}
               /\ outputs' = Append(outputs, [index |-> c.event, n |-> c.n])
      <4>1. c \in [event : EncoderOutputs, n : Stamps, done : BOOLEAN]
        BY <2>2, <3>2 DEF Entered, Signals
      <4>2. [index |-> c.event, n |-> c.n] \in Filled
        BY <4>1 DEF Filled
      <4> QED
        BY <3>2, <4>2 DEF EncoderInv
    <3> QED
      BY <2>1, <3>1, <3>2 DEF OutputCallback
  <2> QED
    BY <2>1, <2>4, <2>5 DEF EncoderInv
<1>4. CASE EncoderCallExits
  BY <1>4 DEF EncoderCallExits, EncoderInv, sharedVars
<1>5. CASE /\ workerAt \in Carrying /\ Free
           /\ UNCHANGED <<announced, callbacks, outputs, signals>>
  BY <1>5 DEF Free, EncoderInv, HandInv, Taken
<1>6. CASE /\ outputs # <<>> /\ outputs' = Tail(outputs)
           /\ UNCHANGED <<announced, encoderOwns, owned, callbacks, signals>>
  BY <1>6 DEF EncoderInv
<1>7. CASE /\ outputs' = <<>> /\ owned' = {}
           /\ UNCHANGED <<announced, encoderOwns, callbacks, signals>>
  BY <1>7 DEF EncoderInv
<1> QED
  BY <1>1, <1>2, <1>3, <1>4, <1>5, <1>6, <1>7 DEF EncoderMoves, EncoderCallNext

(* What is in the worker's hands, and what it keeps of the metadata.       *)
HandMoves ==
    \/ UNCHANGED <<inHand, parameters, workerAt>>
    \/ inHand' = NoBuffer /\ workerAt' \notin Carrying /\ UNCHANGED parameters
    \/ /\ UNCHANGED <<inHand, parameters>>
       /\ workerAt' \in Carrying => workerAt \in Carrying
    \/ /\ outputs # <<>> /\ outputs' = Tail(outputs) /\ UNCHANGED parameters
       /\ inHand' = [index |-> Head(outputs).index, n |-> Head(outputs).n, length |-> 0]
    \/ PumpInspect
    \/ PumpPublish

LEMMA HandVarsMove == [PublisherNext]_publisherVars => HandMoves
<1> SUFFICES ASSUME [PublisherNext]_publisherVars PROVE HandMoves
  OBVIOUS
<1>1. ASSUME UNCHANGED <<inHand, parameters, workerAt>> PROVE HandMoves
  BY <1>1 DEF HandMoves
<1>2. ASSUME NEW error, FailsTo(error), UNCHANGED parameters PROVE HandMoves
  BY <1>2 DEF FailsTo, HandMoves, Carrying
<1>3. ASSUME NEW label, MovesTo(label), UNCHANGED parameters,
             label \in Carrying => workerAt \in Carrying
      PROVE  HandMoves
  BY <1>3 DEF MovesTo, HandMoves
<1>4. CASE HolderNext
  BY <1>1, <1>4 DEF HolderNext, OpenAbandoned, OpenReturns, RequestKeyframe, RequestPublisherClose,
       HolderLetsGo, CloseReturns, threadVars
<1>5. CASE ConsumerNext
  BY <1>1, <1>5 DEF ConsumerNext, RecvRegisters, RecvTakes, RecvWaits, RecvEnds, RecvCancelled,
       UnitDropped, threadVars
<1>6. CASE EncoderCallNext
  BY <1>1, <1>6 DEF EncoderCallNext, EncoderCalls, CallbackRuns, EncoderCallExits, threadVars
<1>7. CASE PublisherWorkerNext
  <2>1. CASE SetupEncoder \/ SetupCapture \/ StartCapture
    BY <1>2, <1>3, <2>1 DEF SetupEncoder, SetupCapture, StartCapture, Carrying
  <2>2. CASE PumpNext \/ PumpKeyframe
    <3>1. ASSUME TakesOutput, UNCHANGED parameters PROVE HandMoves
      BY <1>3, <3>1 DEF TakesOutput, HandMoves, Carrying
    <3> QED
      BY <1>2, <1>3, <2>2, <3>1 DEF PumpNext, PumpKeyframe, Carrying
  <2>3. CASE PumpRate \/ PumpFreed \/ PumpAdmitKeyframe
    <3>1. ASSUME inHand' = NoBuffer, UNCHANGED parameters, workerAt' \in {"shutdown", "next"}
          PROVE  HandMoves
      BY <3>1 DEF HandMoves, Carrying
    <3> QED
      BY <1>2, <1>3, <2>3, <3>1 DEF PumpRate, PumpFreed, PumpAdmitKeyframe, Carrying
  <2>4. CASE PumpAdmit \/ PumpCopy
    BY <1>1, <1>3, <2>4 DEF PumpAdmit, PumpCopy, Carrying
  <2>5. CASE PumpInspect \/ PumpPublish
    BY <2>5 DEF HandMoves
  <2>6. CASE ShutdownBegins
    BY <2>6 DEF ShutdownBegins, HandMoves, Carrying
  <2>7. CASE ShutdownReleases \/ ShutdownDestroys \/ ShutdownFrees
    BY <2>7 DEF ShutdownReleases, ShutdownDestroys, ShutdownFrees, Quarantines, WorkerEnds,
         HandMoves, Carrying
  <2> QED
    BY <1>7, <2>1, <2>2, <2>3, <2>4, <2>5, <2>6, <2>7 DEF PublisherWorkerNext
<1>8. CASE UNCHANGED publisherVars
  BY <1>1, <1>8 DEF publisherVars
<1> QED
  BY <1>4, <1>5, <1>6, <1>7, <1>8 DEF PublisherNext

LEMMA NoBufferIsNone == NoBuffer \notin Taken
BY PublisherAssumption DEF NoBuffer, Taken

LEMMA PendingIsFinite ==
    ASSUME NEW S \in SUBSET Stamps
    PROVE  IsFiniteSet(S) /\ Cardinality(S) \in Nat
<1>1. IsFiniteSet(Stamps)
  BY PublisherAssumption, FS_Interval DEF Stamps
<1> QED
  BY <1>1, FS_Subset, FS_CardinalityType

(* What is charged for a picture: at least one.                            *)
LEMMA LengthType == ASSUME HandInv PROVE Length \in Nat /\ Length >= 1
<1>1. Cardinality(parameters.pending) \in Nat
  BY PendingIsFinite DEF HandInv
<1> QED
  BY <1>1 DEF Length

LEMMA HandStep == EncoderInv /\ HandInv /\ HandMoves => HandInv'
<1> SUFFICES ASSUME EncoderInv, HandInv, HandMoves PROVE HandInv'
  OBVIOUS
<1>1. CASE UNCHANGED <<inHand, parameters, workerAt>>
  BY <1>1 DEF HandInv
<1>2. CASE inHand' = NoBuffer /\ workerAt' \notin Carrying /\ UNCHANGED parameters
  BY <1>2 DEF HandInv
<1>3. CASE /\ UNCHANGED <<inHand, parameters>>
           /\ workerAt' \in Carrying => workerAt \in Carrying
  BY <1>3 DEF HandInv
<1>4. CASE /\ outputs # <<>> /\ outputs' = Tail(outputs) /\ UNCHANGED parameters
           /\ inHand' = [index |-> Head(outputs).index, n |-> Head(outputs).n, length |-> 0]
  <2>1. Head(outputs) \in Filled
    BY <1>4 DEF EncoderInv
  <2>2. inHand' \in Taken
    BY <1>4, <2>1 DEF Filled, Taken
  <2> QED
    BY <1>4, <2>2 DEF HandInv
<1>5. CASE PumpInspect
  <2>1. inHand \in Taken /\ inHand.n \in Stamps
    BY <1>5 DEF PumpInspect, HandInv, Carrying, Taken
  <2>2. ASSUME NEW sets \in {parameters.sets, TRUE}
        PROVE  [parameters EXCEPT !.sets = sets] \in [sets : BOOLEAN, pending : SUBSET Stamps]
    BY DEF HandInv
  <2>3. ASSUME NEW sets \in {parameters.sets, TRUE}, NEW pending \in SUBSET Stamps
        PROVE  [sets |-> sets, pending |-> pending] \in [sets : BOOLEAN, pending : SUBSET Stamps]
    <3>1. sets \in BOOLEAN
      BY DEF HandInv
    <3> QED
      BY <3>1
  <2>4. (IF Content.last THEN parameters.pending ELSE parameters.pending \cup {inHand.n})
           \in SUBSET Stamps
    BY <2>1 DEF HandInv
  <2>5. [inHand EXCEPT !.length = Length] \in Taken
    BY <2>1, LengthType DEF Taken
  <2>6. CASE /\ inHand' = [inHand EXCEPT !.length = Length]
             /\ \E sets \in {parameters.sets, TRUE} :
                  parameters' = [parameters EXCEPT !.sets = sets]
    BY <2>2, <2>5, <2>6 DEF HandInv
  <2>7. CASE UNCHANGED <<inHand, parameters>>
    BY <2>1, <2>7 DEF HandInv
  <2>8. CASE /\ UNCHANGED inHand
             /\ \E sets \in {parameters.sets, TRUE} :
                  parameters' = [sets |-> sets,
                                 pending |-> IF Content.last THEN parameters.pending
                                             ELSE parameters.pending \cup {inHand.n}]
    <3>1. parameters' \in [sets : BOOLEAN, pending : SUBSET Stamps]
      BY <2>3, <2>4, <2>8
    <3> QED
      BY <2>1, <2>8, <3>1 DEF HandInv
  <2>9. CASE FailsTo("Rejected") /\ UNCHANGED parameters
    BY <2>9 DEF FailsTo, HandInv, Carrying
  <2> QED
    BY <1>5, <2>6, <2>7, <2>8, <2>9 DEF PumpInspect, MovesTo
<1>6. CASE PumpPublish
  <2>1. inHand' = NoBuffer
    BY <1>6 DEF PumpPublish
  <2>2. workerAt' \notin Carrying
    BY <1>6 DEF PumpPublish, FailsTo, Carrying
  <2>3. parameters' \in [sets : BOOLEAN, pending : SUBSET Stamps]
    BY <1>6 DEF PumpPublish, HandInv
  <2> QED
    BY <2>1, <2>2, <2>3 DEF HandInv
<1> QED
  BY <1>1, <1>2, <1>3, <1>4, <1>5, <1>6 DEF HandMoves

-----------------------------------------------------------------------------
PacketMoves ==
    \/ UNCHANGED <<queue, leases, delivered>>
    \/ RecvTakes
    \/ UnitDropped
    \/ /\ workerAt = "publish" /\ ~Halted
       /\ queue' = Append(queue, [n |-> inHand.n, meta |-> parameters.pending,
                                  length |-> inHand.length])
       /\ UNCHANGED <<leases, delivered>>
    \/ queue' = <<>> /\ UNCHANGED <<leases, delivered>>

LEMMA PacketVarsMove == [PublisherNext]_publisherVars => PacketMoves
<1> SUFFICES ASSUME [PublisherNext]_publisherVars PROVE PacketMoves
  OBVIOUS
<1> USE DEF PacketMoves, sharedVars, consumerVars
<1>1. CASE HolderNext
  BY <1>1 DEF HolderNext, OpenAbandoned, OpenReturns, RequestKeyframe, RequestPublisherClose,
       HolderLetsGo, CloseReturns
<1>2. CASE ConsumerNext
  BY <1>2 DEF ConsumerNext, RecvRegisters, RecvWaits, RecvEnds, RecvCancelled
<1>3. CASE EncoderCallNext
  BY <1>3 DEF EncoderCallNext, EncoderCalls, CallbackRuns, EncoderCallExits
<1>4. CASE PublisherWorkerNext
  <2>1. CASE SetupEncoder \/ SetupCapture \/ StartCapture
    BY <2>1 DEF SetupEncoder, SetupCapture, StartCapture
  <2>2. CASE PumpNext \/ PumpRate \/ PumpKeyframe \/ PumpInspect \/ PumpFreed
    BY <2>2 DEF PumpNext, PumpRate, PumpKeyframe, PumpInspect, PumpFreed
  <2>3. CASE PumpAdmit \/ PumpAdmitKeyframe \/ PumpCopy
    BY <2>3 DEF PumpAdmit, PumpAdmitKeyframe, PumpCopy
  <2>4. CASE PumpPublish
    BY <2>4 DEF PumpPublish
  <2>5. CASE ShutdownBegins \/ ShutdownReleases \/ ShutdownDestroys \/ ShutdownFrees
    BY <2>5 DEF ShutdownBegins, ShutdownReleases, ShutdownDestroys, ShutdownFrees, Quarantines,
         Clear
  <2> QED
    BY <1>4, <2>1, <2>2, <2>3, <2>4, <2>5 DEF PublisherWorkerNext
<1>5. CASE UNCHANGED publisherVars
  BY <1>5 DEF publisherVars
<1> QED
  BY <1>1, <1>2, <1>3, <1>4, <1>5 DEF PublisherNext

LEMMA PacketType ==
    ASSUME HandInv, workerAt \in Carrying
    PROVE  [n |-> inHand.n, meta |-> parameters.pending, length |-> inHand.length] \in Packet
BY DEF HandInv, Taken, Packet

(* The consumer asks for a unit only while it may hold one more.           *)
LeaseInv == consumer # "idle" => Len(leases) < MaxLeases

LEMMA PacketStep == HandInv /\ PacketInv /\ LeaseInv /\ PacketMoves => PacketInv'
<1> SUFFICES ASSUME HandInv, PacketInv, LeaseInv, PacketMoves PROVE PacketInv'
  OBVIOUS
<1>1. CASE UNCHANGED <<queue, leases, delivered>>
  BY <1>1 DEF PacketInv
<1>2. CASE RecvTakes
  <2>1. Head(queue) \in Packet /\ Tail(queue) \in Seq(Packet)
    BY <1>2 DEF PacketInv, RecvTakes
  <2>2. Head(queue).n \in Stamps
    BY <2>1 DEF Packet
  <2>3. leases' \in Seq(Packet) /\ delivered' \in Seq(Stamps) /\ queue' \in Seq(Packet)
    BY <1>2, <2>1, <2>2 DEF PacketInv, RecvTakes
  <2>4. Len(leases) < MaxLeases /\ Len(leases') = Len(leases) + 1 /\ Len(leases) \in Nat
    BY <1>2, <2>1 DEF PacketInv, RecvTakes, LeaseInv
  <2> QED
    BY <2>3, <2>4, PublisherAssumption DEF PacketInv
<1>3. CASE UnitDropped
  <2>1. leases' \in Seq(Packet) /\ Len(leases') = Len(leases) - 1 /\ Len(leases) \in Nat
    BY <1>3 DEF PacketInv, UnitDropped
  <2> QED
    BY <1>3, <2>1, PublisherAssumption DEF PacketInv, UnitDropped
<1>4. CASE /\ workerAt = "publish"
           /\ queue' = Append(queue, [n |-> inHand.n, meta |-> parameters.pending,
                                      length |-> inHand.length])
           /\ UNCHANGED <<leases, delivered>>
  <2>1. [n |-> inHand.n, meta |-> parameters.pending, length |-> inHand.length] \in Packet
    BY <1>4, PacketType DEF Carrying
  <2> QED
    BY <1>4, <2>1 DEF PacketInv
<1>5. CASE queue' = <<>> /\ UNCHANGED <<leases, delivered>>
  BY <1>5 DEF PacketInv
<1> QED
  BY <1>1, <1>2, <1>3, <1>4, <1>5 DEF PacketMoves

LEMMA LeaseStep == PacketInv /\ LeaseInv /\ [PublisherNext]_publisherVars => LeaseInv'
<1> SUFFICES ASSUME PacketInv, LeaseInv, [PublisherNext]_publisherVars PROVE LeaseInv'
  OBVIOUS
<1> USE DEF LeaseInv, consumerVars
<1>1. CASE HolderNext
  BY <1>1 DEF HolderNext, OpenAbandoned, OpenReturns, RequestKeyframe, RequestPublisherClose,
       HolderLetsGo, CloseReturns
<1>2. CASE ConsumerNext
  <2>1. CASE UnitDropped
    <3>1. Len(leases') = Len(leases) - 1 /\ Len(leases) \in Nat
      BY <2>1 DEF PacketInv, UnitDropped
    <3> QED
      BY <2>1, <3>1, PublisherAssumption DEF UnitDropped
  <2> QED
    BY <1>2, <2>1 DEF ConsumerNext, RecvRegisters, RecvTakes, RecvWaits, RecvEnds, RecvCancelled
<1>3. CASE EncoderCallNext
  BY <1>3 DEF EncoderCallNext, EncoderCalls, CallbackRuns, EncoderCallExits
<1>4. CASE PublisherWorkerNext
  <2>1. UNCHANGED <<consumer, leases>>
    BY <1>4 DEF PublisherWorkerNext, SetupEncoder, SetupCapture, StartCapture, PumpNext, PumpRate,
         PumpKeyframe, PumpInspect, PumpFreed, PumpAdmit, PumpAdmitKeyframe, PumpCopy, PumpPublish,
         ShutdownBegins, ShutdownReleases, ShutdownDestroys, ShutdownFrees
  <2> QED
    BY <2>1
<1>5. CASE UNCHANGED publisherVars
  BY <1>5 DEF publisherVars
<1> QED
  BY <1>1, <1>2, <1>3, <1>4, <1>5 DEF PublisherNext

(* Content starts on its way only while it may.                            *)
LEMMA ContentMoves ==
    ASSUME [PublisherNext]_publisherVars, PacketMoves,
           queue' # <<>> \/ workerAt' \in Carrying
    PROVE  queue # <<>> \/ workerAt \in Carrying \/ (Capturing /\ UNCHANGED flags)
<1> DEFINE G == queue # <<>> \/ workerAt \in Carrying \/ (Capturing /\ UNCHANGED flags)
<1>1. CASE queue' # <<>>
  BY <1>1 DEF PacketMoves, RecvTakes, UnitDropped, Carrying
<1>2. CASE workerAt' \in Carrying
  <2>1. ASSUME UNCHANGED workerAt PROVE G
    BY <1>2, <2>1
  <2>2. CASE HolderNext \/ ConsumerNext
    BY <2>1, <2>2, OthersMove
  <2>3. CASE EncoderCallNext
    BY <2>1, <2>3 DEF EncoderCallNext, EncoderCalls, CallbackRuns, EncoderCallExits, threadVars
  <2>4. CASE PublisherWorkerNext
    <3>1. CASE SetupEncoder \/ SetupCapture \/ StartCapture
      BY <1>2, <3>1 DEF SetupEncoder, SetupCapture, StartCapture, MovesTo, FailsTo, Carrying
    <3>2. CASE PumpNext \/ PumpKeyframe
      BY <1>2, <3>2 DEF PumpNext, PumpKeyframe, TakesOutput, MovesTo, FailsTo, Carrying
    <3>3. CASE PumpRate
      BY <1>2, <3>3 DEF PumpRate, MovesTo, FailsTo, Carrying
    <3>4. CASE PumpInspect \/ PumpFreed \/ PumpAdmit \/ PumpAdmitKeyframe \/ PumpCopy \/ PumpPublish
      BY <3>4 DEF PumpInspect, PumpFreed, PumpAdmit, PumpAdmitKeyframe, PumpCopy, PumpPublish,
           Carrying
    <3>5. CASE ShutdownBegins \/ ShutdownReleases \/ ShutdownDestroys \/ ShutdownFrees
      BY <1>2, <3>5 DEF ShutdownBegins, ShutdownReleases, ShutdownDestroys, ShutdownFrees,
           Quarantines, WorkerEnds, Carrying
    <3> QED
      BY <2>4, <3>1, <3>2, <3>3, <3>4, <3>5 DEF PublisherWorkerNext
  <2>5. CASE UNCHANGED publisherVars
    BY <2>1, <2>5 DEF publisherVars
  <2> QED
    BY <2>2, <2>3, <2>4, <2>5 DEF PublisherNext
<1> QED
  BY <1>1, <1>2

LEMMA ConsentStep ==
    ASSUME ConsentInv, [PublisherNext]_publisherVars
    PROVE  ConsentInv'
<1>1. FlagUpdates /\ PacketMoves
  BY FlagsMove, PacketVarsMove
<1>2. /\ flags' \in Flags
      /\ Halted => Halted'
      /\ ~Halted' /\ Capturing => Capturing'
  BY <1>1, FlagsStep DEF ConsentInv
<1>3. ASSUME ~Halted', queue' # <<>> \/ workerAt' \in Carrying PROVE Capturing'
  <2>1. queue # <<>> \/ workerAt \in Carrying \/ (Capturing /\ UNCHANGED flags)
    BY <1>1, <1>3, ContentMoves
  <2> QED
    BY <1>2, <1>3, <2>1 DEF ConsentInv
<1> QED
  BY <1>2, <1>3 DEF ConsentInv

LEMMA PublishedLength == PacketInv => Len(Published) = Len(delivered) + Len(queue)
<1> SUFFICES ASSUME PacketInv PROVE Len(Published) = Len(delivered) + Len(queue)
  OBVIOUS
<1> DEFINE q == [i \in 1..Len(queue) |-> queue[i].n]
<1>1. Len(queue) \in Nat /\ \A i \in 1..Len(queue) : queue[i].n \in Stamps
  <2>1. Len(queue) \in Nat /\ \A i \in 1..Len(queue) : queue[i] \in Packet
    BY DEF PacketInv
  <2> QED
    BY <2>1 DEF Packet
<1>2. q \in Seq(Stamps) /\ Len(q) = Len(queue)
  BY <1>1
<1> HIDE DEF q
<1> QED
  BY <1>2 DEF Published, PacketInv

LEMMA PublishedStep ==
    ASSUME PacketInv, PacketInv', ConsentInv, PacketMoves,
           Len(Published') > Len(Published) \/ delivered' # delivered
    PROVE  flags.consent /\ flags.rate_set
<1>1. Len(Published) = Len(delivered) + Len(queue) /\ Len(delivered) \in Nat /\ Len(queue) \in Nat
  BY PublishedLength DEF PacketInv
<1>2. (Len(Published) = Len(delivered) + Len(queue))'
  BY PublishedLength, PTL
<1>3. CASE UNCHANGED <<queue, leases, delivered>> \/ UnitDropped
  BY <1>1, <1>2, <1>3 DEF UnitDropped, sharedVars, consumerVars
<1>4. CASE RecvTakes
  BY <1>4 DEF RecvTakes, ConsentInv, Capturing
<1>5. CASE workerAt = "publish" /\ ~Halted
  BY <1>5 DEF ConsentInv, Carrying, Capturing
<1>6. CASE queue' = <<>> /\ UNCHANGED delivered
  BY <1>1, <1>2, <1>6
<1> QED
  BY <1>3, <1>4, <1>5, <1>6 DEF PacketMoves

FlowInv == ConsentInv /\ EncoderInv /\ HandInv /\ PacketInv /\ LeaseInv

LEMMA FlowInit == PublisherInit => FlowInv
<1> SUFFICES ASSUME PublisherInit PROVE FlowInv
  OBVIOUS
<1>1. ConsentInv
  BY DEF PublisherInit, ConsentInv, Flags, Failures, Carrying
<1>2. EncoderInv
  BY PublisherAssumption DEF PublisherInit, EncoderInv
<1>3. HandInv
  BY DEF PublisherInit, HandInv, Carrying
<1>4. PacketInv /\ LeaseInv
  BY PublisherAssumption DEF PublisherInit, PacketInv, LeaseInv
<1> QED
  BY <1>1, <1>2, <1>3, <1>4 DEF FlowInv

LEMMA FlowStep == FlowInv /\ [PublisherNext]_publisherVars => FlowInv'
<1> SUFFICES ASSUME FlowInv, [PublisherNext]_publisherVars PROVE FlowInv'
  OBVIOUS
<1>1. ConsentInv /\ EncoderInv /\ HandInv /\ PacketInv /\ LeaseInv
  BY DEF FlowInv
<1>2. EncoderMoves /\ HandMoves /\ PacketMoves
  BY EncoderVarsMove, HandVarsMove, PacketVarsMove
<1>3. ConsentInv'
  BY <1>1, ConsentStep
<1>4. EncoderInv'
  BY <1>1, <1>2, EncoderStep
<1>5. HandInv'
  BY <1>1, <1>2, HandStep
<1>6. PacketInv'
  BY <1>1, <1>2, PacketStep
<1>7. LeaseInv'
  BY <1>1, LeaseStep
<1> QED
  BY <1>3, <1>4, <1>5, <1>6, <1>7 DEF FlowInv

(* Neither the unit in the worker's hands nor a queued one moves on once   *)
(* the user has ended the consent, whatever callbacks, closes and failures *)
(* come between (capture_state, pump, publish and recv of                  *)
(* ohos_publisher.rs).                                                     *)
THEOREM ConsentTheorem == PublisherSpec => ContentNeedsConsent
<1>1. FlowInv /\ FlowInv' /\ [PublisherNext]_publisherVars
      => [Len(Published') > Len(Published) \/ delivered' # delivered
            => flags.consent /\ flags.rate_set]_publisherVars
  BY PacketVarsMove, PublishedStep DEF FlowInv
<1> QED
  BY <1>1, FlowInit, FlowStep, PTL DEF PublisherSpec, ContentNeedsConsent

-----------------------------------------------------------------------------
(* Sums over the packets of a sequence.                                    *)

(* Every set of natural numbers that is not empty has a least member.      *)
LEMMA LeastNumber ==
    ASSUME NEW T \in SUBSET Nat, T # {}
    PROVE  \E n \in T : \A m \in T : n <= m
<1> DEFINE R == OpToRel(<, Nat)
<1>1. IsWellFoundedOn(R, Nat)
  BY NatLessThanWellFounded
<1>2. R = {p \in Nat \X Nat : p[1] < p[2]}
  BY DEF OpToRel
<1> HIDE DEF R
<1>3. T \subseteq Nat
  OBVIOUS
<1>4. PICK n \in T : \A m \in T : ~ (<<m, n>> \in R)
  BY <1>1, <1>3, WFMin
<1>5. ASSUME NEW m \in T PROVE n <= m
  <2>1. ~ (<<m, n>> \in R) /\ m \in Nat /\ n \in Nat
    BY <1>3, <1>4
  <2>2. ~ (m < n)
    BY <1>2, <2>1
  <2> QED
    BY <2>1, <2>2
<1> QED
  BY <1>5

(* f adds up the lengths of the first packets of a sequence.               *)
Adds(f, n, list) == f = [i \in 0..n |-> IF i = 0 THEN 0 ELSE f[i - 1] + list[i].length]

LEMMA AddsValues ==
    ASSUME NEW n \in Nat, NEW a, NEW f, Adds(f, n, a)
    PROVE  f[0] = 0 /\ \A i \in 1..n : f[i] = f[i - 1] + a[i].length
<1> DEFINE F(i) == IF i = 0 THEN 0 ELSE f[i - 1] + a[i].length
<1>1. f = [i \in 0..n |-> F(i)]
  BY DEF Adds
<1>2. \A i \in 0..n : f[i] = F(i)
  <2> HIDE DEF F
  <2> QED
    BY <1>1
<1>3. 0 \in 0..n /\ \A i \in 1..n : i \in 0..n /\ i # 0
  OBVIOUS
<1> QED
  BY <1>2, <1>3

LEMMA AddsUnique ==
    ASSUME NEW n \in Nat, NEW a, NEW f, NEW g, Adds(f, n, a), Adds(g, n, a)
    PROVE  f = g
<1> DEFINE T == {i \in 0..n : f[i] # g[i]}
<1>1. T = {}
  <2> SUFFICES ASSUME T # {} PROVE FALSE
    OBVIOUS
  <2>1. T \in SUBSET Nat
    OBVIOUS
  <2>2. PICK k \in T : \A m \in T : k <= m
    BY <2>1, LeastNumber
  <2>3. f[0] = 0 /\ g[0] = 0
    BY AddsValues
  <2>4. k \in 1..n
    BY <2>3
  <2>5. k - 1 \in 0..n /\ ~(k <= k - 1)
    BY <2>4
  <2>6. f[k - 1] = g[k - 1]
    BY <2>2, <2>5
  <2>7. f[k] = f[k - 1] + a[k].length /\ g[k] = g[k - 1] + a[k].length
    BY <2>4, AddsValues
  <2> QED
    BY <2>6, <2>7
<1>2. \A i \in 0..n : f[i] = g[i]
  BY <1>1
<1>3. f = [i \in 0..n |-> f[i]] /\ g = [i \in 0..n |-> g[i]]
  BY DEF Adds
<1> QED
  BY <1>2, <1>3

LEMMA AddsExists ==
    ASSUME NEW n \in Nat, NEW a
    PROVE  \E f : Adds(f, n, a)
<1> DEFINE T == {m \in Nat : ~ \E f : Adds(f, m, a)}
<1> SUFFICES ASSUME T # {} PROVE FALSE
  OBVIOUS
<1>1. T \in SUBSET Nat
  OBVIOUS
<1>2. PICK k \in T : \A m \in T : k <= m
  BY <1>1, LeastNumber
<1>3. k \in Nat /\ ~ \E f : Adds(f, k, a)
  OBVIOUS
<1>4. CASE k = 0
  <2> DEFINE f == [i \in 0..0 |-> 0]
  <2>1. f = [i \in 0..0 |-> IF i = 0 THEN 0 ELSE f[i - 1] + a[i].length]
    OBVIOUS
  <2>2. Adds(f, 0, a)
    BY <2>1 DEF Adds
  <2> QED
    BY <1>3, <1>4, <2>2
<1>5. CASE k # 0
  <2>1. k - 1 \in Nat /\ ~(k <= k - 1)
    BY <1>3, <1>5
  <2>2. PICK g : Adds(g, k - 1, a)
    BY <1>2, <2>1
  <2>3. g[0] = 0 /\ \A i \in 1..(k - 1) : g[i] = g[i - 1] + a[i].length
    BY <2>1, <2>2, AddsValues
  <2> DEFINE f == [i \in 0..k |-> IF i = k THEN g[k - 1] + a[k].length ELSE g[i]]
             F(i) == IF i = 0 THEN 0 ELSE f[i - 1] + a[i].length
  <2>4. ASSUME NEW i \in 0..k PROVE f[i] = F(i)
    <3>1. CASE i = k
      <4>1. k - 1 \in 0..k /\ k - 1 # k /\ k \in 0..k
        BY <1>3, <1>5
      <4>2. f[k - 1] = g[k - 1] /\ f[k] = g[k - 1] + a[k].length
        BY <4>1
      <4> QED
        BY <1>5, <3>1, <4>2
    <3>2. CASE i = 0 /\ i # k
      BY <2>3, <3>2
    <3>3. CASE i # 0 /\ i # k
      <4>1. i \in 1..(k - 1) /\ i - 1 \in 0..k /\ i - 1 # k
        BY <1>3, <3>3
      <4>2. f[i] = g[i] /\ f[i - 1] = g[i - 1]
        BY <3>3, <4>1
      <4> QED
        BY <2>3, <3>3, <4>1, <4>2
    <3> QED
      BY <3>1, <3>2, <3>3
  <2>5. f = [i \in 0..k |-> f[i]]
    OBVIOUS
  <2>6. f = [i \in 0..k |-> F(i)]
    <3> HIDE DEF f, F
    <3> QED
      BY <2>4, <2>5
  <2>7. Adds(f, k, a)
    <3> HIDE DEF f
    <3> QED
      BY <2>6 DEF Adds
  <2> QED
    BY <1>3, <2>7
<1> QED
  BY <1>4, <1>5

LEMMA BytesAdd ==
    ASSUME NEW s \in Seq(Packet), NEW f, Adds(f, Len(s), s)
    PROVE  BytesOf(s) = f[Len(s)]
<1> DEFINE g == CHOOSE g : g = [i \in 0..Len(s) |-> IF i = 0 THEN 0 ELSE g[i - 1] + s[i].length]
<1>1. f = [i \in 0..Len(s) |-> IF i = 0 THEN 0 ELSE f[i - 1] + s[i].length]
  BY DEF Adds
<1>2. g = [i \in 0..Len(s) |-> IF i = 0 THEN 0 ELSE g[i - 1] + s[i].length]
  BY <1>1
<1>3. BytesOf(s) = g[Len(s)]
  BY DEF BytesOf
<1> HIDE DEF g
<1>4. Adds(g, Len(s), s)
  BY <1>2 DEF Adds
<1>5. Len(s) \in Nat
  OBVIOUS
<1>6. f = g
  BY <1>4, <1>5, AddsUnique
<1> QED
  BY <1>3, <1>6

LEMMA BytesEmpty == BytesOf(<<>>) = 0
<1>1. Len(<<>>) = 0 /\ <<>> \in Seq(Packet)
  OBVIOUS
<1>2. PICK f : Adds(f, 0, <<>>)
  BY AddsExists
<1>3. f[0] = 0
  BY <1>2, AddsValues
<1> QED
  BY <1>1, <1>2, <1>3, BytesAdd

LEMMA BytesNat == ASSUME NEW s \in Seq(Packet) PROVE BytesOf(s) \in Nat
<1>1. Len(s) \in Nat /\ \A i \in 1..Len(s) : s[i] \in Packet
  OBVIOUS
<1>2. \A i \in 1..Len(s) : s[i].length \in Nat
  BY <1>1 DEF Packet
<1>3. PICK f : Adds(f, Len(s), s)
  BY <1>1, AddsExists
<1>4. f[0] = 0 /\ \A i \in 1..Len(s) : f[i] = f[i - 1] + s[i].length
  BY <1>1, <1>3, AddsValues
<1> DEFINE T == {i \in 0..Len(s) : f[i] \notin Nat}
<1>5. T = {}
  <2> SUFFICES ASSUME T # {} PROVE FALSE
    OBVIOUS
  <2>1. T \in SUBSET Nat
    BY <1>1
  <2>2. PICK k \in T : \A m \in T : k <= m
    BY <2>1, LeastNumber
  <2>3. k \in 1..Len(s)
    BY <1>1, <1>4
  <2>4. k - 1 \in 0..Len(s) /\ ~(k <= k - 1)
    BY <1>1, <2>3
  <2>5. f[k - 1] \in Nat
    BY <2>2, <2>4
  <2>6. f[k] = f[k - 1] + s[k].length /\ s[k].length \in Nat
    BY <1>2, <1>4, <2>3
  <2>7. f[k] \in Nat
    BY <2>5, <2>6
  <2> QED
    BY <2>7
<1> QED
  BY <1>1, <1>3, <1>5, BytesAdd

LEMMA BytesAppend ==
    ASSUME NEW s \in Seq(Packet), NEW p \in Packet
    PROVE  BytesOf(Append(s, p)) = BytesOf(s) + p.length
<1> DEFINE t == Append(s, p)
           n == Len(s)
<1>1. /\ n \in Nat /\ t \in Seq(Packet) /\ Len(t) = n + 1 /\ t[n + 1] = p
      /\ \A i \in 1..n : t[i] = s[i]
  OBVIOUS
<1> HIDE DEF t, n
<1>0. n + 1 \in Nat
  BY <1>1
<1>2. PICK f : Adds(f, n + 1, t)
  BY <1>0, AddsExists
<1>3. f[0] = 0 /\ \A i \in 1..(n + 1) : f[i] = f[i - 1] + t[i].length
  BY <1>0, <1>2, AddsValues
<1> DEFINE g == [i \in 0..n |-> f[i]]
           G(i) == IF i = 0 THEN 0 ELSE g[i - 1] + s[i].length
<1>4. ASSUME NEW i \in 0..n PROVE g[i] = G(i)
  <2>1. CASE i = 0
    BY <1>3, <2>1
  <2>2. CASE i # 0
    <3>1. i \in 1..n /\ i \in 1..(n + 1) /\ i - 1 \in 0..n
      BY <1>1, <2>2
    <3>2. g[i] = f[i] /\ g[i - 1] = f[i - 1]
      BY <3>1
    <3> QED
      BY <1>1, <1>3, <2>2, <3>1, <3>2
  <2> QED
    BY <2>1, <2>2
<1>5. g = [i \in 0..n |-> g[i]] /\ g[n] = f[n]
  BY <1>1
<1>6. g = [i \in 0..n |-> G(i)]
  <2> HIDE DEF g, G
  <2> QED
    BY <1>4, <1>5
<1>7. Adds(g, n, s)
  <2> HIDE DEF g
  <2> QED
    BY <1>6 DEF Adds
<1>8. BytesOf(s) = f[n]
  <2> HIDE DEF g
  <2> QED
    BY <1>5, <1>7, BytesAdd DEF n
<1>9. BytesOf(t) = f[n + 1]
  BY <1>1, <1>2, BytesAdd
<1>10. n + 1 \in 1..(n + 1) /\ (n + 1) - 1 = n
  BY <1>1
<1> QED
  BY <1>1, <1>3, <1>8, <1>9, <1>10 DEF t

LEMMA BytesTail ==
    ASSUME NEW s \in Seq(Packet), s # <<>>
    PROVE  BytesOf(s) = BytesOf(Tail(s)) + Head(s).length
<1> DEFINE t == Tail(s)
           n == Len(t)
           l == Head(s).length
<1>1. /\ n \in Nat /\ t \in Seq(Packet) /\ Len(s) = n + 1 /\ s[1] = Head(s)
      /\ \A i \in 1..n : t[i] = s[i + 1] /\ s[i + 1] \in Packet
      /\ s[1] \in Packet
  OBVIOUS
<1>2. l \in Nat
  BY <1>1 DEF Packet
<1> HIDE DEF t, n
<1>0. n + 1 \in Nat
  BY <1>1
<1>3. PICK f : Adds(f, n + 1, s)
  BY <1>0, AddsExists
<1>4. PICK g : Adds(g, n, t)
  BY <1>1, AddsExists
<1>5. f[0] = 0 /\ \A i \in 1..(n + 1) : f[i] = f[i - 1] + s[i].length
  BY <1>0, <1>3, AddsValues
<1>6. g[0] = 0 /\ \A i \in 1..n : g[i] = g[i - 1] + t[i].length
  BY <1>1, <1>4, AddsValues
<1> DEFINE T == {i \in 0..n : ~ (g[i] \in Nat /\ f[i + 1] = g[i] + l)}
<1>7. T = {}
  <2> SUFFICES ASSUME T # {} PROVE FALSE
    OBVIOUS
  <2>1. T \in SUBSET Nat
    BY <1>1
  <2>2. PICK k \in T : \A m \in T : k <= m
    BY <2>1, LeastNumber
  <2>3. f[1] = l
    <3>1. 1 \in 1..(n + 1) /\ 1 - 1 = 0
      BY <1>1
    <3> QED
      BY <1>1, <1>2, <1>5, <3>1
  <2>4. k # 0
    <3>1. ASSUME k = 0 PROVE FALSE
      BY <1>2, <1>6, <2>2, <2>3, <3>1
    <3> QED
      BY <3>1
  <2>5. k \in 1..n /\ k + 1 \in 1..(n + 1) /\ k - 1 \in 0..n /\ ~(k <= k - 1)
        /\ (k - 1) + 1 = k /\ (k + 1) - 1 = k
    BY <1>1, <2>4
  <2>6. g[k - 1] \in Nat /\ f[k] = g[k - 1] + l
    BY <2>2, <2>5
  <2>7. f[k + 1] = f[k] + s[k + 1].length /\ g[k] = g[k - 1] + s[k + 1].length
    BY <1>1, <1>5, <1>6, <2>5
  <2>8. s[k + 1].length \in Nat
    BY <1>1, <2>5 DEF Packet
  <2>9. g[k] \in Nat /\ f[k + 1] = g[k] + l
    BY <1>2, <2>6, <2>7, <2>8
  <2> QED
    BY <2>9
<1>8. n \in 0..n
  BY <1>1
<1>9. f[n + 1] = g[n] + l
  BY <1>7, <1>8
<1>10. BytesOf(s) = f[n + 1] /\ BytesOf(t) = g[n]
  BY <1>1, <1>3, <1>4, BytesAdd DEF n
<1> QED
  BY <1>9, <1>10 DEF t

-----------------------------------------------------------------------------
(* Credits.                                                                *)
Charged == workerAt \in {"copy", "publish"}

CreditMoves ==
    \/ /\ UNCHANGED <<queue, leases, units, bytes>>
       /\ Charged' <=> Charged
       /\ Charged => UNCHANGED inHand
    \/ RecvTakes
    \/ UnitDropped
    \/ /\ workerAt = "admit" /\ workerAt' = "copy" /\ ~Full
       /\ units' = units + 1 /\ bytes' = bytes + inHand.length
       /\ UNCHANGED <<queue, leases, inHand>>
    \/ /\ workerAt = "publish" /\ ~Charged'
       /\ units' = units - 1 /\ bytes' = bytes - inHand.length
       /\ UNCHANGED <<queue, leases>>
    \/ /\ workerAt = "publish" /\ ~Charged'
       /\ queue' = Append(queue, [n |-> inHand.n, meta |-> parameters.pending,
                                  length |-> inHand.length])
       /\ UNCHANGED <<leases, units, bytes>>
    \/ /\ ~Charged /\ ~Charged'
       /\ queue' = <<>> /\ UNCHANGED leases
       /\ units' = units - Len(queue) /\ bytes' = bytes - BytesOf(queue)

LEMMA CreditVarsMove == [PublisherNext]_publisherVars => CreditMoves
<1> SUFFICES ASSUME [PublisherNext]_publisherVars PROVE CreditMoves
  OBVIOUS
<1> USE DEF sharedVars, consumerVars, threadVars
<1>1. ASSUME UNCHANGED <<queue, leases, units, bytes, workerAt, inHand>> PROVE CreditMoves
  BY <1>1 DEF CreditMoves, Charged
<1>2. ASSUME UNCHANGED <<queue, leases, units, bytes>>,
             workerAt \notin {"copy", "publish"}, workerAt' \notin {"copy", "publish"}
      PROVE CreditMoves
  BY <1>2 DEF CreditMoves, Charged
<1>3. CASE HolderNext
  BY <1>1, <1>3 DEF HolderNext, OpenAbandoned, OpenReturns, RequestKeyframe, RequestPublisherClose,
       HolderLetsGo, CloseReturns
<1>4. CASE ConsumerNext
  <2>1. CASE RecvTakes \/ UnitDropped
    BY <2>1 DEF CreditMoves
  <2> QED
    BY <1>1, <1>4, <2>1 DEF ConsumerNext, RecvRegisters, RecvWaits, RecvEnds, RecvCancelled
<1>5. CASE EncoderCallNext
  BY <1>1, <1>5 DEF EncoderCallNext, EncoderCalls, CallbackRuns, EncoderCallExits
<1>6. CASE PublisherWorkerNext
  <2>1. CASE SetupEncoder \/ SetupCapture \/ StartCapture
    BY <1>2, <2>1 DEF SetupEncoder, SetupCapture, StartCapture, MovesTo, FailsTo
  <2>2. CASE PumpNext \/ PumpKeyframe
    <3>1. /\ UNCHANGED <<queue, leases, units, bytes>>
          /\ workerAt \notin {"copy", "publish"} /\ workerAt' \notin {"copy", "publish"}
      BY <2>2 DEF PumpNext, PumpKeyframe, TakesOutput, MovesTo, FailsTo
    <3> QED
      BY <1>2, <3>1
  <2>3. CASE PumpRate \/ PumpInspect \/ PumpFreed \/ PumpAdmitKeyframe
    <3>1. /\ UNCHANGED <<queue, leases, units, bytes>>
          /\ workerAt \notin {"copy", "publish"} /\ workerAt' \notin {"copy", "publish"}
      BY <2>3 DEF PumpRate, PumpInspect, PumpFreed, PumpAdmitKeyframe, MovesTo, FailsTo
    <3> QED
      BY <1>2, <3>1
  <2>4. CASE PumpCopy
    BY <2>4 DEF PumpCopy, MovesTo, CreditMoves, Charged
  <2>5. CASE PumpAdmit
    <3>1. CASE /\ ~Full /\ units' = units + 1 /\ bytes' = bytes + inHand.length /\ MovesTo("copy")
      BY <2>5, <3>1 DEF PumpAdmit, CreditMoves, MovesTo
    <3>2. CASE /\ UNCHANGED <<units, bytes>> /\ workerAt' \in {"shutdown", "admit_keyframe", "admit"}
      BY <1>2, <2>5, <3>2 DEF PumpAdmit
    <3> QED
      BY <2>5, <3>1, <3>2 DEF PumpAdmit, MovesTo
  <2>6. CASE PumpPublish
    <3>1. workerAt = "publish" /\ workerAt' \in {"shutdown", "next"} /\ UNCHANGED leases
      BY <2>6 DEF PumpPublish, FailsTo
    <3>2. ~Charged'
      BY <3>1 DEF Charged
    <3> QED
      BY <2>6, <3>1, <3>2 DEF PumpPublish, CreditMoves
  <2>7. CASE ShutdownBegins
    BY <1>2, <2>7 DEF ShutdownBegins
  <2>8. CASE ShutdownReleases \/ ShutdownDestroys \/ ShutdownFrees
    <3>1. /\ workerAt \in {"release", "destroy", "wait_idle"}
          /\ workerAt' \in {"destroy", "wait_idle", "ended"} /\ UNCHANGED leases
      BY <2>8 DEF ShutdownReleases, ShutdownDestroys, ShutdownFrees, Quarantines, WorkerEnds
    <3>2. ~Charged /\ ~Charged'
      BY <3>1 DEF Charged
    <3>3. ASSUME NEW q, Clear(q) PROVE CreditMoves
      BY <3>1, <3>2, <3>3 DEF Clear, CreditMoves
    <3>4. ASSUME UNCHANGED sharedVars PROVE CreditMoves
      BY <3>1, <3>2, <3>4 DEF CreditMoves
    <3> QED
      BY <2>8, <3>3, <3>4 DEF ShutdownReleases, ShutdownDestroys, ShutdownFrees, Quarantines
  <2> QED
    BY <1>6, <2>1, <2>2, <2>3, <2>4, <2>5, <2>6, <2>7, <2>8 DEF PublisherWorkerNext
<1>7. CASE UNCHANGED publisherVars
  BY <1>1, <1>7 DEF publisherVars
<1> QED
  BY <1>3, <1>4, <1>5, <1>6, <1>7 DEF PublisherNext

(* The bytes of the unit that is being copied and freed.                   *)
Charge == IF Charged THEN inHand.length ELSE 0

CreditInv ==
    /\ units = Len(queue) + Len(leases) + InProgress
    /\ bytes = BytesOf(queue) + BytesOf(leases) + Charge
    /\ units <= MaxEncodedUnits /\ bytes <= MaxEncodedBytes

LEMMA ChargeValues ==
    /\ Charged => InProgress = 1 /\ Charge = inHand.length
    /\ ~Charged => InProgress = 0 /\ Charge = 0
BY DEF InProgress, Charge, Charged

LEMMA CreditStep ==
    ASSUME HandInv, PacketInv, PacketInv', CreditInv, CreditMoves
    PROVE  CreditInv'
<1> DEFINE l == inHand.length
<1>1. /\ queue \in Seq(Packet) /\ leases \in Seq(Packet)
      /\ Len(queue) \in Nat /\ Len(leases) \in Nat
  BY DEF PacketInv
<1>2. l \in Nat
  BY DEF HandInv, Taken, NoBuffer
<1>3. BytesOf(queue) \in Nat /\ BytesOf(leases) \in Nat
  BY <1>1, BytesNat
<1>4. /\ Charged => InProgress = 1 /\ Charge = l
      /\ ~Charged => InProgress = 0 /\ Charge = 0
  BY ChargeValues
<1>5. /\ Charged' => InProgress' = 1 /\ Charge' = inHand'.length
      /\ ~Charged' => InProgress' = 0 /\ Charge' = 0
  BY DEF InProgress, Charge, Charged
<1>6. /\ units = Len(queue) + Len(leases) + InProgress
      /\ bytes = BytesOf(queue) + BytesOf(leases) + Charge
      /\ units <= MaxEncodedUnits /\ bytes <= MaxEncodedBytes
  BY DEF CreditInv
<1>7. MaxEncodedUnits \in Nat /\ MaxEncodedBytes \in Nat
  BY PublisherAssumption
<1>8. SUFFICES /\ units' = Len(queue') + Len(leases') + InProgress'
               /\ bytes' = BytesOf(queue') + BytesOf(leases') + Charge'
               /\ units' <= MaxEncodedUnits /\ bytes' <= MaxEncodedBytes
  BY DEF CreditInv
<1> HIDE DEF l
<1>10. CASE /\ UNCHANGED <<queue, leases, units, bytes>>
            /\ Charged' <=> Charged
            /\ Charged => UNCHANGED inHand
  BY <1>4, <1>5, <1>6, <1>10 DEF l
<1>11. CASE RecvTakes
  <2>1. /\ queue # <<>> /\ queue' = Tail(queue) /\ leases' = Append(leases, Head(queue))
        /\ UNCHANGED <<units, bytes, workerAt, inHand>>
    BY <1>11 DEF RecvTakes, threadVars
  <2>2. Charged' <=> Charged
    BY <2>1 DEF Charged
  <2>3. Head(queue) \in Packet /\ Tail(queue) \in Seq(Packet)
        /\ Len(queue') = Len(queue) - 1 /\ Len(leases') = Len(leases) + 1
    BY <1>1, <2>1
  <2>4. BytesOf(queue) = BytesOf(queue') + Head(queue).length
    BY <1>1, <2>1, BytesTail
  <2>5. BytesOf(leases') = BytesOf(leases) + Head(queue).length
    BY <1>1, <2>1, <2>3, BytesAppend
  <2>6. BytesOf(queue') \in Nat /\ Head(queue).length \in Nat
    BY <2>1, <2>3, BytesNat DEF Packet
  <2>7. Charge' = Charge /\ InProgress' = InProgress /\ Charge \in Nat /\ InProgress \in Nat
    BY <1>2, <1>4, <1>5, <2>1, <2>2 DEF l
  <2> QED
    BY <1>1, <1>3, <1>6, <2>1, <2>3, <2>4, <2>5, <2>6, <2>7
<1>12. CASE UnitDropped
  <2> DEFINE d == Head(leases).length
  <2>1. /\ leases # <<>> /\ leases' = Tail(leases) /\ units' = units - 1
        /\ bytes' = bytes - d
        /\ UNCHANGED <<queue, workerAt, inHand>>
    BY <1>12 DEF UnitDropped
  <2>2. Charged' <=> Charged
    BY <2>1 DEF Charged
  <2>3. Head(leases) \in Packet /\ Tail(leases) \in Seq(Packet) /\ Len(leases') = Len(leases) - 1
    BY <1>1, <2>1
  <2>4. BytesOf(leases) = BytesOf(leases') + d
    BY <1>1, <2>1, BytesTail
  <2>5. BytesOf(leases') \in Nat /\ d \in Nat
    BY <2>1, <2>3, BytesNat DEF Packet
  <2> HIDE DEF d
  <2>6. Charge' = Charge /\ InProgress' = InProgress /\ Charge \in Nat /\ InProgress \in Nat
    BY <1>2, <1>4, <1>5, <2>1, <2>2 DEF l
  <2>7. units' = Len(queue') + Len(leases') + InProgress' /\ units' <= MaxEncodedUnits
    BY <1>1, <1>6, <1>7, <2>1, <2>3, <2>6
  <2>8. bytes' = BytesOf(queue') + BytesOf(leases') + Charge'
    <3>1. BytesOf(queue') = BytesOf(queue) /\ bytes' = bytes - d
      BY <2>1
    <3>2. Charge' = Charge /\ Charge \in Nat
      BY <2>6
    <3>3. bytes = BytesOf(queue) + BytesOf(leases) + Charge
      BY <1>6
    <3> QED
      BY <1>3, <2>4, <2>5, <3>1, <3>2, <3>3
  <2>9. bytes' <= MaxEncodedBytes
    BY <1>3, <1>6, <1>7, <2>1, <2>5, <2>6
  <2> QED
    BY <2>7, <2>8, <2>9
<1>13. CASE /\ workerAt = "admit" /\ workerAt' = "copy" /\ ~Full
            /\ units' = units + 1 /\ bytes' = bytes + l
            /\ UNCHANGED <<queue, leases, inHand>>
  <2>1. ~Charged /\ Charged'
    BY <1>13 DEF Charged
  <2>2. ~(units >= MaxEncodedUnits) /\ ~(l > MaxEncodedBytes - bytes)
    BY <1>13 DEF Full, l
  <2>3. Charge' = l /\ InProgress' = 1 /\ Charge = 0 /\ InProgress = 0
    BY <1>4, <1>5, <1>13, <2>1 DEF l
  <2> QED
    BY <1>1, <1>2, <1>3, <1>6, <1>7, <1>13, <2>2, <2>3
<1>14. CASE /\ workerAt = "publish" /\ ~Charged'
            /\ units' = units - 1 /\ bytes' = bytes - l
            /\ UNCHANGED <<queue, leases>>
  <2>1. Charged
    BY <1>14 DEF Charged
  <2>2. Charge' = 0 /\ InProgress' = 0 /\ Charge = l /\ InProgress = 1
    BY <1>4, <1>5, <1>14, <2>1
  <2> QED
    BY <1>1, <1>2, <1>3, <1>6, <1>7, <1>14, <2>2
<1>15. CASE /\ workerAt = "publish" /\ ~Charged'
            /\ queue' = Append(queue, [n |-> inHand.n, meta |-> parameters.pending,
                                       length |-> inHand.length])
            /\ UNCHANGED <<leases, units, bytes>>
  <2>1. Charged
    BY <1>15 DEF Charged
  <2>2. Charge' = 0 /\ InProgress' = 0 /\ Charge = l /\ InProgress = 1
    BY <1>4, <1>5, <1>15, <2>1
  <2> DEFINE p == [n |-> inHand.n, meta |-> parameters.pending, length |-> inHand.length]
  <2>3. p \in Packet
    BY <1>15, PacketType DEF Carrying
  <2>4. p.length = l
    BY DEF l
  <2> HIDE DEF p
  <2>5. BytesOf(queue') = BytesOf(queue) + l
    BY <1>1, <1>15, <2>3, <2>4, BytesAppend DEF p
  <2>6. Len(queue') = Len(queue) + 1
    BY <1>1, <1>15, <2>3 DEF p
  <2> QED
    BY <1>1, <1>2, <1>3, <1>6, <1>7, <1>15, <2>2, <2>5, <2>6
<1>16. CASE /\ ~Charged /\ ~Charged'
            /\ queue' = <<>> /\ UNCHANGED leases
            /\ units' = units - Len(queue) /\ bytes' = bytes - BytesOf(queue)
  <2>1. Charge' = 0 /\ InProgress' = 0 /\ Charge = 0 /\ InProgress = 0
    BY <1>4, <1>5, <1>16
  <2>2. BytesOf(queue') = 0 /\ Len(queue') = 0
    BY <1>16, BytesEmpty
  <2> QED
    BY <1>1, <1>3, <1>6, <1>7, <1>16, <2>1, <2>2
<1> QED
  BY <1>10, <1>11, <1>12, <1>13, <1>14, <1>15, <1>16 DEF CreditMoves, l

LEMMA CreditsHold ==
    ASSUME HandInv, PacketInv, CreditInv
    PROVE  /\ CreditsAreConserved
           /\ units \in 0..MaxEncodedUnits /\ bytes \in 0..MaxEncodedBytes
           /\ Len(queue) <= MaxEncodedUnits
<1>1. /\ queue \in Seq(Packet) /\ leases \in Seq(Packet)
      /\ Len(queue) \in Nat /\ Len(leases) \in Nat
  BY DEF PacketInv
<1>2. inHand.length \in Nat
  BY DEF HandInv, Taken, NoBuffer
<1>3. BytesOf(queue) \in Nat /\ BytesOf(leases) \in Nat
  BY <1>1, BytesNat
<1>4. InProgress \in {0, 1} /\ Charge = InProgress * inHand.length /\ Charge \in Nat
  <2>1. CASE Charged
    BY <1>2, <2>1, ChargeValues
  <2>2. CASE ~Charged
    BY <1>2, <2>2, ChargeValues
  <2> QED
    BY <2>1, <2>2
<1>5. /\ units = Len(queue) + Len(leases) + InProgress
      /\ bytes = BytesOf(queue) + BytesOf(leases) + Charge
      /\ units <= MaxEncodedUnits /\ bytes <= MaxEncodedBytes
  BY DEF CreditInv
<1>6. CreditsAreConserved
  BY <1>4, <1>5 DEF CreditsAreConserved
<1>7. MaxEncodedUnits \in Nat /\ MaxEncodedBytes \in Nat
  BY PublisherAssumption
<1>8. units \in 0..MaxEncodedUnits /\ Len(queue) <= MaxEncodedUnits
  BY <1>1, <1>4, <1>5, <1>7
<1>9. bytes \in 0..MaxEncodedBytes
  BY <1>3, <1>4, <1>5, <1>7
<1> QED
  BY <1>6, <1>8, <1>9

-----------------------------------------------------------------------------
(* A worker that is past the first step of its shutdown was told to stop.  *)
StoppedInv == workerAt \in {"release", "destroy", "wait_idle", "ended"} => Halted

(* What the worker does to the buffers while nothing has stopped it.       *)
Quiet == {"setup_encoder", "setup_capture", "start_capture", "next", "rate", "keyframe"}
Holding == {"inspect", "admit", "admit_keyframe", "copy"}

NextPlace == IF Content.last THEN "shutdown" ELSE "next"

Waits ==
    /\ workerAt \in Quiet /\ workerAt' \in Quiet
    /\ UNCHANGED <<inHand, parameters, owned, encoderOwns, outputs, queue>>

Takes ==
    /\ workerAt \in Quiet /\ workerAt' = "inspect" /\ outputs # <<>>
    /\ outputs' = Tail(outputs)
    /\ inHand' = [index |-> Head(outputs).index, n |-> Head(outputs).n, length |-> 0]
    /\ UNCHANGED <<parameters, owned, encoderOwns, queue>>

Skips ==
    /\ workerAt = "inspect" /\ workerAt' = "freeing" /\ Free
    /\ \/ Content.kind = "empty" /\ UNCHANGED parameters
       \/ /\ Content.kind = "config"
          /\ parameters'.pending = IF Content.last THEN parameters.pending
                                   ELSE parameters.pending \cup {inHand.n}
    /\ UNCHANGED <<inHand, outputs, queue>>

Keeps ==
    /\ workerAt = "inspect" /\ workerAt' = "admit" /\ IsPicture(Content)
    /\ inHand' = [inHand EXCEPT !.length = Length]
    /\ parameters'.pending = parameters.pending
    /\ UNCHANGED <<owned, encoderOwns, outputs, queue>>

Admits ==
    /\ workerAt \in {"admit", "admit_keyframe"}
    /\ workerAt' \in {"admit", "admit_keyframe", "copy"}
    /\ UNCHANGED <<inHand, parameters, owned, encoderOwns, outputs, queue>>

Copies ==
    /\ workerAt = "copy" /\ workerAt' = "publish" /\ Free
    /\ UNCHANGED <<inHand, parameters, outputs, queue>>

GetsFreed ==
    /\ workerAt = "freeing" /\ workerAt' = NextPlace
    /\ inHand' = NoBuffer
    /\ UNCHANGED <<parameters, owned, encoderOwns, outputs, queue>>

Publishes ==
    /\ workerAt = "publish" /\ workerAt' = NextPlace
    /\ inHand' = NoBuffer
    /\ queue' = Append(queue, [n |-> inHand.n, meta |-> parameters.pending,
                               length |-> inHand.length])
    /\ parameters'.pending = {}
    /\ UNCHANGED <<owned, encoderOwns, outputs>>

WorkerMoves ==
    /\ UNCHANGED <<announced, callbacks, signals, leases, delivered>>
    /\ \/ Waits \/ Takes \/ Skips \/ Keeps \/ Admits \/ Copies \/ GetsFreed \/ Publishes

LEMMA Halts ==
    ASSUME flags \in Flags
    PROVE  /\ \A error \in {"Native", "Closed", "Rejected"} : FailsTo(error) => Halted'
           /\ \A error \in {"Native", "Closed", "Rejected"} : Fails(error) => Halted'
           /\ RequestsClose => Halted'
           /\ Halted /\ UNCHANGED flags => Halted'
<1>1. ASSUME NEW error \in {"Native", "Closed", "Rejected"}, flags' = Failed(error) PROVE Halted'
  BY <1>1 DEF Failed, Flags, Halted
<1>2. ASSUME flags' = [flags EXCEPT !.closing = TRUE] PROVE Halted'
  BY <1>2 DEF Flags, Halted
<1>4. ASSUME Halted, UNCHANGED flags PROVE Halted'
  BY <1>4 DEF Halted
<1>5. \A error \in {"Native", "Closed", "Rejected"} : Fails(error) => Halted'
  BY <1>1 DEF Fails
<1>6. \A error \in {"Native", "Closed", "Rejected"} : FailsTo(error) => Halted'
  BY <1>5 DEF FailsTo
<1>7. RequestsClose => Halted'
  BY <1>2 DEF RequestsClose
<1> QED
  BY <1>4, <1>5, <1>6, <1>7

LEMMA WorkerVarsMove ==
    ASSUME flags \in Flags, FlagUpdates, StoppedInv, HandInv, PublisherWorkerNext, ~Halted'
    PROVE  WorkerMoves
<1> USE DEF WorkerMoves, sharedVars, encoderVars, consumerVars
<1>1. /\ \A error \in {"Native", "Closed", "Rejected"} : ~FailsTo(error)
      /\ \A error \in {"Native", "Closed", "Rejected"} : ~Fails(error)
      /\ ~RequestsClose
      /\ UNCHANGED flags => ~Halted
  BY Halts
<1>2. CASE SetupEncoder \/ SetupCapture \/ StartCapture
  BY <1>1, <1>2 DEF SetupEncoder, SetupCapture, StartCapture, MovesTo, Waits, Quiet
<1>3. ASSUME TakesOutput, UNCHANGED flags, workerAt \in Quiet,
             UNCHANGED <<queue, owned, encoderOwns, parameters>>
      PROVE  Waits \/ Takes
  BY <1>1, <1>3 DEF TakesOutput, Waits, Takes, Quiet
<1>4. CASE PumpNext
  <2>1. CASE TakesOutput /\ UNCHANGED flags
    <3>1. /\ workerAt \in Quiet
          /\ UNCHANGED <<queue, owned, encoderOwns, parameters, announced, callbacks, signals,
                         leases, delivered>>
      BY <1>4 DEF PumpNext, Quiet
    <3> QED
      BY <1>3, <2>1, <3>1
  <2>2. CASE (MovesTo("rate") \/ MovesTo("keyframe")) /\ UNCHANGED outputs
    BY <1>4, <2>2 DEF PumpNext, MovesTo, Waits, Quiet
  <2> QED
    BY <1>4, <2>1, <2>2 DEF PumpNext
<1>5. CASE PumpKeyframe
  BY <1>1, <1>3, <1>5 DEF PumpKeyframe, Quiet
<1>6. CASE PumpRate
  BY <1>1, <1>6 DEF PumpRate, MovesTo, Waits, Quiet
<1>7. CASE PumpInspect
  <2>1. ASSUME NEW sets, parameters' = [parameters EXCEPT !.sets = sets]
        PROVE  parameters'.pending = parameters.pending
    BY <2>1 DEF HandInv
  <2>2. ASSUME NEW sets, NEW pending, parameters' = [sets |-> sets, pending |-> pending]
        PROVE  parameters'.pending = pending
    BY <2>2
  <2>3. CASE inHand' = [inHand EXCEPT !.length = Length] /\ workerAt' = "admit"
    BY <1>1, <1>7, <2>1, <2>3 DEF PumpInspect, MovesTo, Keeps
  <2>4. CASE Free /\ MovesTo("freeing")
    <3>1. \/ Content.kind = "empty" /\ UNCHANGED parameters
          \/ /\ Content.kind = "config"
             /\ \E sets \in {parameters.sets, TRUE} :
                  parameters' =
                    [sets |-> sets,
                     pending |-> IF Content.last THEN parameters.pending
                                 ELSE parameters.pending \cup {inHand.n}]
      BY <1>1, <1>7, <2>4 DEF PumpInspect, MovesTo
    <3>2. \/ Content.kind = "empty" /\ UNCHANGED parameters
          \/ /\ Content.kind = "config"
             /\ parameters'.pending = IF Content.last THEN parameters.pending
                                      ELSE parameters.pending \cup {inHand.n}
      BY <2>2, <3>1
    <3> QED
      BY <1>7, <2>4, <3>2 DEF PumpInspect, MovesTo, Skips
  <2> QED
    BY <1>1, <1>7, <2>3, <2>4 DEF PumpInspect
<1>8. CASE PumpFreed
  BY <1>1, <1>8 DEF PumpFreed, GetsFreed, NextPlace
<1>9. CASE PumpAdmit
  <2>1. workerAt' # "shutdown" \/ (UNCHANGED flags /\ Halted)
    BY <1>9 DEF PumpAdmit, MovesTo
  <2>2. ~(UNCHANGED flags /\ Halted)
    BY <1>1
  <2>3. workerAt' \in {"shutdown", "admit_keyframe", "admit", "copy"}
    BY <1>9 DEF PumpAdmit, MovesTo
  <2> QED
    BY <1>9, <2>1, <2>2, <2>3 DEF PumpAdmit, MovesTo, Admits
<1>10. CASE PumpAdmitKeyframe
  BY <1>1, <1>10 DEF PumpAdmitKeyframe, MovesTo, Admits
<1>11. CASE PumpCopy
  BY <1>11 DEF PumpCopy, MovesTo, Copies
<1>12. CASE PumpPublish
  <2>1. ASSUME parameters' = [parameters EXCEPT !.pending = {}] PROVE parameters'.pending = {}
    BY <2>1 DEF HandInv
  <2>2. ~(Halted /\ UNCHANGED flags)
    BY <1>1
  <2> QED
    BY <1>1, <1>12, <2>1, <2>2 DEF PumpPublish, Publishes, NextPlace
<1>13. CASE ShutdownBegins \/ ShutdownReleases \/ ShutdownDestroys \/ ShutdownFrees
  <2>1. workerAt \in {"release", "destroy", "wait_idle"}
    BY <1>1, <1>13 DEF ShutdownBegins, ShutdownReleases, ShutdownDestroys, ShutdownFrees
  <2>2. Halted
    BY <2>1 DEF StoppedInv
  <2> QED
    BY <2>2, FlagsStep
<1> QED
  BY <1>2, <1>4, <1>5, <1>6, <1>7, <1>8, <1>9, <1>10, <1>11, <1>12, <1>13
     DEF PublisherWorkerNext

-----------------------------------------------------------------------------
(* Buffers: one index is never in two hands.                               *)

(* The announcements the engine has not looked at yet.                     *)
Pending == {c \in callbacks : c.event \in EncoderOutputs /\ ~c.done}

Announces ==
    \E index \in encoderOwns, content \in Contents :
      /\ Len(announced) < MaxAnnounced
      /\ encoderOwns' = encoderOwns \ {index}
      /\ announced' = Append(announced, content)
      /\ Pending' = Pending \cup {[event |-> index, n |-> Len(announced) + 1, done |-> FALSE]}
      /\ UNCHANGED <<owned, outputs>>

Accepts ==
    \E c \in Pending :
      /\ \A d \in Pending : c.n <= d.n
      /\ Pending' = Pending \ {c}
      /\ owned' = owned \cup {c.event}
      /\ outputs' = Append(outputs, [index |-> c.event, n |-> c.n])
      /\ UNCHANGED <<encoderOwns, announced>>

CallMoves ==
    /\ UNCHANGED <<workerAt, inHand, parameters, queue, leases, delivered>>
    /\ \/ Announces \/ Accepts
       \/ UNCHANGED <<Pending, owned, encoderOwns, outputs, announced>>

LEMMA PendingForm ==
    ASSUME EncoderInv
    PROVE  Pending \subseteq [event : EncoderOutputs, n : Stamps, done : {FALSE}]
<1> SUFFICES ASSUME NEW c \in Pending
             PROVE  c \in [event : EncoderOutputs, n : Stamps, done : {FALSE}]
  OBVIOUS
<1>1. c \in Entered /\ c.event \in EncoderOutputs /\ ~c.done
  BY DEF Pending, EncoderInv
<1>2. c \in [event : EncoderOutputs, n : Stamps, done : BOOLEAN]
  BY <1>1, PublisherAssumption DEF Entered, Signals
<1>3. c.done = FALSE
  BY <1>1, <1>2
<1> QED
  BY <1>2, <1>3

LEMMA CallVarsMove ==
    ASSUME flags \in Flags, EncoderInv, EncoderCallNext, ~Halted'
    PROVE  CallMoves
<1> USE DEF sharedVars, threadVars, consumerVars
<1>1. UNCHANGED <<workerAt, inHand, parameters, queue, leases, delivered>>
  BY DEF EncoderCallNext, EncoderCalls, CallbackRuns, EncoderCallExits
<1>2. CASE EncoderCalls
  <2>1. CASE \E index \in encoderOwns, content \in Contents :
               /\ Len(announced) < MaxAnnounced
               /\ encoderOwns' = encoderOwns \ {index}
               /\ announced' = Append(announced, content)
               /\ callbacks' = callbacks \cup
                    {[event |-> index, n |-> Len(announced) + 1, done |-> FALSE]}
               /\ UNCHANGED <<owned, outputs>>
    <3>1. PICK index \in encoderOwns, content \in Contents :
               /\ Len(announced) < MaxAnnounced
               /\ encoderOwns' = encoderOwns \ {index}
               /\ announced' = Append(announced, content)
               /\ callbacks' = callbacks \cup
                    {[event |-> index, n |-> Len(announced) + 1, done |-> FALSE]}
               /\ UNCHANGED <<owned, outputs>>
      BY <2>1
    <3> DEFINE a == [event |-> index, n |-> Len(announced) + 1, done |-> FALSE]
    <3>2. a.event \in EncoderOutputs /\ ~a.done
      BY DEF EncoderInv
    <3>3. callbacks' = callbacks \cup {a}
      BY <3>1
    <3> HIDE DEF a
    <3>4. Pending' = Pending \cup {a}
      BY <3>2, <3>3 DEF Pending
    <3>5. Announces
      BY <3>1, <3>4 DEF Announces, a
    <3> QED
      BY <1>1, <3>5 DEF CallMoves
  <2>2. CASE /\ \E signal \in Signals :
                  callbacks' = callbacks \cup
                    {[event |-> signal, n |-> signals, done |-> FALSE]}
             /\ UNCHANGED <<owned, encoderOwns, outputs, announced>>
    <3>1. PICK signal \in Signals :
                  callbacks' = callbacks \cup
                    {[event |-> signal, n |-> signals, done |-> FALSE]}
      BY <2>2
    <3> DEFINE a == [event |-> signal, n |-> signals, done |-> FALSE]
    <3>2. a.event \notin EncoderOutputs
      BY PublisherAssumption DEF Signals
    <3>3. callbacks' = callbacks \cup {a}
      BY <3>1
    <3> HIDE DEF a
    <3>4. Pending' = Pending
      BY <3>2, <3>3 DEF Pending
    <3> QED
      BY <1>1, <2>2, <3>4 DEF CallMoves
  <2> QED
    BY <1>2, <2>1, <2>2 DEF EncoderCalls
<1>3. CASE CallbackRuns
  <2>1. PICK c \in callbacks :
          /\ ~c.done
          /\ callbacks' = (callbacks \ {c}) \cup {[c EXCEPT !.done = TRUE]}
          /\ \/ OutputCallback(c)
             \/ /\ c.event \in Signals
                /\ UNCHANGED <<outputs, owned>>
          /\ UNCHANGED <<announced, encoderOwns>>
    BY <1>3 DEF CallbackRuns
  <2> DEFINE a == [c EXCEPT !.done = TRUE]
  <2>2. a.done
    <3>1. c \in Entered
      BY DEF EncoderInv
    <3>2. CASE c \in [event : EncoderOutputs, n : Stamps, done : BOOLEAN]
      BY <3>2
    <3>3. CASE c \in [event : Signals, n : Nat, done : BOOLEAN]
      BY <3>3
    <3> QED
      BY <3>1, <3>2, <3>3 DEF Entered
  <2>3. callbacks' = (callbacks \ {c}) \cup {a}
    BY <2>1
  <2> HIDE DEF a
  <2>4. Pending' = Pending \ {c}
    BY <2>2, <2>3 DEF Pending
  <2>5. CASE c.event \in Signals /\ UNCHANGED <<outputs, owned>>
    <3>1. c \notin Pending
      BY <2>5, PublisherAssumption DEF Pending, Signals
    <3> QED
      BY <1>1, <2>1, <2>4, <2>5, <3>1 DEF CallMoves
  <2>6. CASE OutputCallback(c)
    <3>1. c \in Pending /\ \A d \in Pending : c.n <= d.n
      BY <2>1, <2>6 DEF OutputCallback, Pending
    <3>2. ASSUME NEW error \in {"CallbackOverflow", "DuplicateOutput"}, flags' = Failed(error)
          PROVE  Halted'
      BY <3>2 DEF Failed, Flags, Halted
    <3>3. ~(Halted /\ UNCHANGED flags)
      BY Halts
    <3>4. owned' = owned \cup {c.event} /\ outputs' = Append(outputs, [index |-> c.event, n |-> c.n])
      BY <2>6, <3>2, <3>3 DEF OutputCallback
    <3>5. Accepts
      BY <2>1, <2>4, <3>1, <3>4 DEF Accepts
    <3> QED
      BY <1>1, <3>5 DEF CallMoves
  <2> QED
    BY <2>1, <2>5, <2>6
<1>4. CASE EncoderCallExits
  <2>1. UNCHANGED <<owned, encoderOwns, outputs, announced>>
    BY <1>4 DEF EncoderCallExits
  <2>2. Pending' = Pending
    BY <1>4 DEF EncoderCallExits, Pending
  <2> QED
    BY <1>1, <2>1, <2>2 DEF CallMoves
<1> QED
  BY <1>2, <1>3, <1>4 DEF EncoderCallNext

(* The encoder fills what is its own; what it announced is neither its own *)
(* nor the engine's; what the engine has, it has once.                     *)
Indices ==
    /\ owned \cap encoderOwns = {}
    /\ \A c \in Pending : c.event \notin owned \cup encoderOwns
    /\ \A c, d \in Pending : c.event = d.event => c = d
    /\ \A i \in 1..Len(outputs) : outputs[i].index \in owned
    /\ \A i, j \in 1..Len(outputs) : outputs[i].index = outputs[j].index => i = j
    /\ workerAt \in Holding =>
         /\ inHand.index \in owned
         /\ \A i \in 1..Len(outputs) : outputs[i].index # inHand.index

LEMMA OutputsForm ==
    ASSUME EncoderInv
    PROVE  Len(outputs) \in Nat /\ \A i \in 1..Len(outputs) : outputs[i] \in Filled
BY DEF EncoderInv

LEMMA IndicesCalled ==
    ASSUME EncoderInv, Indices, CallMoves
    PROVE  Indices'
<1>1. CASE UNCHANGED <<Pending, owned, encoderOwns, outputs, announced>>
  BY <1>1 DEF CallMoves, Indices
<1>2. CASE Announces
  <2>1. PICK index \in encoderOwns :
          /\ encoderOwns' = encoderOwns \ {index}
          /\ Pending' = Pending \cup
               {[event |-> index, n |-> Len(announced) + 1, done |-> FALSE]}
          /\ UNCHANGED <<owned, outputs>>
    BY <1>2 DEF Announces
  <2> DEFINE a == [event |-> index, n |-> Len(announced) + 1, done |-> FALSE]
  <2>2. a.event = index /\ Pending' = Pending \cup {a}
    BY <2>1
  <2> HIDE DEF a
  <2>3. owned' \cap encoderOwns' = {}
    BY <2>1 DEF Indices
  <2>4. \A c \in Pending' : c.event \notin owned' \cup encoderOwns'
    BY <2>1, <2>2 DEF Indices
  <2>5. \A c, d \in Pending' : c.event = d.event => c = d
    BY <2>1, <2>2 DEF Indices
  <2>6. UNCHANGED <<owned, outputs, workerAt, inHand>>
    BY <2>1 DEF CallMoves
  <2> QED
    BY <2>3, <2>4, <2>5, <2>6 DEF Indices
<1>3. CASE Accepts
  <2>1. PICK c \in Pending :
          /\ Pending' = Pending \ {c}
          /\ owned' = owned \cup {c.event}
          /\ outputs' = Append(outputs, [index |-> c.event, n |-> c.n])
          /\ UNCHANGED encoderOwns
    BY <1>3 DEF Accepts
  <2>2. c.event \notin owned \cup encoderOwns
    BY DEF Indices
  <2>3. owned' \cap encoderOwns' = {}
    BY <2>1, <2>2 DEF Indices
  <2>4. \A d \in Pending' : d.event \notin owned' \cup encoderOwns'
    BY <2>1, <2>2 DEF Indices
  <2>5. \A d, e \in Pending' : d.event = e.event => d = e
    BY <2>1 DEF Indices
  <2> DEFINE o == [index |-> c.event, n |-> c.n]
             n == Len(outputs)
  <2>6. /\ n \in Nat /\ Len(outputs') = n + 1 /\ outputs'[n + 1] = o
        /\ \A i \in 1..n : outputs'[i] = outputs[i]
    BY <2>1 DEF EncoderInv
  <2>7. o.index = c.event
    OBVIOUS
  <2> HIDE DEF o, n
  <2>8. \A i \in 1..(n + 1) : i \in 1..n \/ i = n + 1
    BY <2>6
  <2>9. \A i \in 1..n : outputs[i].index \in owned
    BY DEF Indices, n
  <2>10. \A i \in 1..(n + 1) : outputs'[i].index \in owned'
    BY <2>1, <2>6, <2>7, <2>8, <2>9
  <2>11. \A i, j \in 1..(n + 1) : outputs'[i].index = outputs'[j].index => i = j
    <3>1. \A i, j \in 1..n : outputs[i].index = outputs[j].index => i = j
      BY DEF Indices, n
    <3> QED
      BY <2>2, <2>6, <2>7, <2>8, <2>9, <3>1
  <2>12. ASSUME workerAt' \in Holding
         PROVE  /\ inHand'.index \in owned'
                /\ \A i \in 1..(n + 1) : outputs'[i].index # inHand'.index
    <3>1. /\ inHand' = inHand /\ inHand.index \in owned
          /\ \A i \in 1..n : outputs[i].index # inHand.index
      BY <2>12 DEF CallMoves, Indices, n
    <3> QED
      BY <2>1, <2>2, <2>6, <2>7, <2>8, <3>1
  <2> QED
    BY <2>3, <2>4, <2>5, <2>6, <2>10, <2>11, <2>12 DEF Indices
<1> QED
  BY <1>1, <1>2, <1>3 DEF CallMoves

LEMMA IndicesWorked ==
    ASSUME EncoderInv, HandInv, Indices, WorkerMoves
    PROVE  Indices'
<1>0. Pending' = Pending
  BY DEF WorkerMoves, Pending
<1>1. CASE /\ UNCHANGED <<owned, encoderOwns, outputs>>
           /\ workerAt' \in Holding => workerAt \in Holding /\ inHand'.index = inHand.index
  BY <1>0, <1>1 DEF Indices
<1>2. CASE Waits \/ GetsFreed \/ Publishes
  BY <1>1, <1>2 DEF Waits, GetsFreed, Publishes, NextPlace, Quiet, Holding
<1>3. CASE Admits
  BY <1>1, <1>3 DEF Admits, Holding
<1>4. CASE Keeps
  <2>1. inHand'.index = inHand.index
    <3>1. inHand \in Taken
      BY <1>4 DEF Keeps, HandInv, Carrying
    <3> QED
      BY <1>4, <3>1 DEF Keeps, Taken
  <2> QED
    BY <1>1, <1>4, <2>1 DEF Keeps, Holding
<1>5. CASE Skips \/ Copies
  <2>1. /\ workerAt \in Holding /\ workerAt' \notin Holding /\ Free
        /\ UNCHANGED <<inHand, outputs>>
    BY <1>5 DEF Skips, Copies, Holding
  <2>2. inHand.index \in owned /\ \A i \in 1..Len(outputs) : outputs[i].index # inHand.index
    BY <2>1 DEF Indices
  <2> QED
    BY <1>0, <2>1, <2>2 DEF Indices, Free
<1>6. CASE Takes
  <2> DEFINE n == Len(outputs)
  <2>1. n \in Nat /\ outputs \in Seq(Filled) /\ outputs # <<>> /\ outputs' = Tail(outputs)
        /\ n # 0
    BY <1>6 DEF EncoderInv, Takes
  <2>2. /\ Len(outputs') = n - 1 /\ Head(outputs) = outputs[1]
        /\ \A i \in 1..(n - 1) : outputs'[i] = outputs[i + 1]
    BY <2>1
  <2>3. inHand'.index = outputs[1].index /\ UNCHANGED <<owned, encoderOwns>>
    BY <1>6, <2>2 DEF Takes
  <2> HIDE DEF n
  <2>4. \A i \in 1..(n - 1) : i + 1 \in 1..n /\ i + 1 # 1 /\ i \in Nat
    BY <2>1
  <2>5. 1 \in 1..n
    BY <2>1
  <2>6. /\ \A i \in 1..n : outputs[i].index \in owned
        /\ \A i, j \in 1..n : outputs[i].index = outputs[j].index => i = j
    BY DEF Indices, n
  <2>7. \A i \in 1..(n - 1) : outputs'[i].index \in owned' /\ outputs'[i].index # inHand'.index
    BY <2>2, <2>3, <2>4, <2>5, <2>6
  <2>8. \A i, j \in 1..(n - 1) : outputs'[i].index = outputs'[j].index => i = j
    <3> SUFFICES ASSUME NEW i \in 1..(n - 1), NEW j \in 1..(n - 1),
                        outputs'[i].index = outputs'[j].index
                 PROVE  i = j
      OBVIOUS
    <3>1. i + 1 = j + 1
      BY <2>2, <2>4, <2>6
    <3> QED
      BY <2>4, <3>1
  <2>9. inHand'.index \in owned'
    BY <2>3, <2>5, <2>6
  <2> QED
    BY <1>0, <2>2, <2>3, <2>7, <2>8, <2>9 DEF Indices
<1> QED
  BY <1>2, <1>3, <1>4, <1>5, <1>6 DEF WorkerMoves

BufferInv == ~Halted => Indices

(* What the holder and the consumer leave alone.                           *)
LEMMA OthersLeave ==
    ASSUME HolderNext \/ ConsumerNext
    PROVE  UNCHANGED <<workerAt, inHand, parameters, owned, encoderOwns, outputs, announced,
                       callbacks, signals>>
<1> USE DEF sharedVars, threadVars, encoderVars
<1>1. CASE HolderNext
  BY <1>1 DEF HolderNext, OpenAbandoned, OpenReturns, RequestKeyframe, RequestPublisherClose,
       HolderLetsGo, CloseReturns
<1>2. CASE ConsumerNext
  BY <1>2 DEF ConsumerNext, RecvRegisters, RecvTakes, RecvWaits, RecvEnds, RecvCancelled,
       UnitDropped
<1> QED
  BY <1>1, <1>2

LEMMA BufferInit == PublisherInit => BufferInv
BY DEF PublisherInit, BufferInv, Indices, Pending, Holding

LEMMA BufferStep ==
    ASSUME flags \in Flags, FlagUpdates, EncoderInv, HandInv, StoppedInv, BufferInv,
           [PublisherNext]_publisherVars
    PROVE  BufferInv'
<1> SUFFICES ASSUME ~Halted' PROVE Indices'
  BY DEF BufferInv
<1>1. Indices
  BY FlagsStep DEF BufferInv
<1>2. ASSUME UNCHANGED <<workerAt, inHand, owned, encoderOwns, outputs, callbacks>>
      PROVE  Indices'
  BY <1>1, <1>2 DEF Indices, Pending
<1>3. CASE HolderNext \/ ConsumerNext
  BY <1>2, <1>3, OthersLeave
<1>4. CASE EncoderCallNext
  BY <1>1, <1>4, CallVarsMove, IndicesCalled
<1>5. CASE PublisherWorkerNext
  BY <1>1, <1>5, WorkerVarsMove, IndicesWorked
<1>6. CASE UNCHANGED publisherVars
  BY <1>2, <1>6 DEF publisherVars
<1> QED
  BY <1>3, <1>4, <1>5, <1>6 DEF PublisherNext

LEMMA OwnedIsFinite ==
    ASSUME EncoderInv
    PROVE  IsFiniteSet(owned) /\ Cardinality(owned) \in Nat
BY PublisherAssumption, FS_Subset, FS_CardinalityType DEF EncoderInv

LEMMA NobodyAccuses ==
    ASSUME EncoderInv, BufferInv, Cardinality(EncoderOutputs) <= MaxEvents,
           NEW c \in callbacks, Accuses(c)
    PROVE  FALSE
<1>1. c \in Pending /\ ~Halted
  BY DEF Accuses, Pending
<1>2. c.event \notin owned /\ c.event \in EncoderOutputs
  BY <1>1 DEF BufferInv, Indices, Pending
<1>3. owned \in SUBSET EncoderOutputs /\ owned # EncoderOutputs
  BY <1>2 DEF EncoderInv
<1>4. IsFiniteSet(EncoderOutputs) /\ Cardinality(EncoderOutputs) \in Nat /\ MaxEvents \in Nat
  BY PublisherAssumption, FS_CardinalityType
<1>5. /\ Cardinality(owned) <= Cardinality(EncoderOutputs)
      /\ Cardinality(EncoderOutputs) = Cardinality(owned) => EncoderOutputs = owned
  BY <1>3, <1>4, FS_Subset
<1>6. Cardinality(owned) \in Nat
  BY OwnedIsFinite
<1>7. Cardinality(owned) < MaxEvents
  BY <1>3, <1>4, <1>5, <1>6
<1> QED
  BY <1>2, <1>4, <1>6, <1>7 DEF Accuses

LEMMA AccusationStep ==
    ASSUME flags \in Flags, EncoderInv, BufferInv, FlagUpdates, NoFalseAccusation
    PROVE  NoFalseAccusation'
<1> SUFFICES ASSUME Cardinality(EncoderOutputs) <= MaxEvents
             PROVE  flags'.failure \notin {"DuplicateOutput", "CallbackOverflow"}
  BY DEF NoFalseAccusation
<1>1. flags.failure \notin {"DuplicateOutput", "CallbackOverflow"}
  BY DEF NoFalseAccusation
<1>2. ASSUME flags'.failure = flags.failure
      PROVE  flags'.failure \notin {"DuplicateOutput", "CallbackOverflow"}
  BY <1>1, <1>2
<1>3. CASE UNCHANGED flags
  BY <1>2, <1>3
<1>4. ASSUME NEW error \in {"Native", "Closed", "Rejected"}, flags' = Failed(error)
      PROVE  flags'.failure \notin {"DuplicateOutput", "CallbackOverflow"}
  BY <1>1, <1>4 DEF Failed, Flags
<1>5. CASE \/ flags' = [flags EXCEPT !.closing = TRUE]
           \/ \E b, m \in BOOLEAN :
                flags' = [flags EXCEPT !.keyframe_requested = b, !.missed = m]
           \/ flags' = [flags EXCEPT !.rate_set = TRUE]
  BY <1>1, <1>5 DEF Flags
<1>6. CASE \E event \in Signals : flags' = CaptureState(event)
  <2>1. CASE flags' = [flags EXCEPT !.consent = ~flags.closing \/ @]
    BY <1>1, <2>1 DEF Flags
  <2>2. CASE flags' = [flags EXCEPT !.consent = FALSE,
                         !.failure = IF flags.closing \/ @ # "none" THEN @ ELSE "ConsentEnded"]
    BY <1>1, <2>2 DEF Flags
  <2>3. CASE flags' = Failed("Native")
    BY <1>4, <2>3
  <2> QED
    BY <1>6, <2>1, <2>2, <2>3 DEF Signals, CaptureState
<1>7. ASSUME NEW q \in BOOLEAN,
             flags' = [flags EXCEPT !.closing = TRUE, !.quarantined = q, !.closed = ~q]
      PROVE  flags'.failure \notin {"DuplicateOutput", "CallbackOverflow"}
  BY <1>1, <1>7 DEF Flags
<1> QED
  BY <1>3, <1>4, <1>5, <1>6, <1>7, NobodyAccuses DEF FlagUpdates

(* The callback queue's bound.                                             *)
LEMMA OwnedStep ==
    ASSUME EncoderInv, HandInv, EncoderMoves, Cardinality(owned) <= MaxEvents
    PROVE  (Cardinality(owned) <= MaxEvents)'
<1>1. IsFiniteSet(owned) /\ Cardinality(owned) \in Nat /\ MaxEvents \in Nat
  BY OwnedIsFinite, PublisherAssumption
<1>2. ASSUME owned' \subseteq owned PROVE Cardinality(owned') <= MaxEvents
  <2>1. Cardinality(owned') <= Cardinality(owned) /\ Cardinality(owned') \in Nat
    BY <1>1, <1>2, FS_Subset, FS_CardinalityType
  <2> QED
    BY <1>1, <2>1
<1>3. CASE EncoderCallNext
  <2>1. \/ UNCHANGED owned
        \/ \E e : owned' = owned \cup {e} /\ ~(Cardinality(owned) >= MaxEvents)
    BY <1>3 DEF EncoderCallNext, EncoderCalls, CallbackRuns, EncoderCallExits, OutputCallback,
         sharedVars
  <2>2. ASSUME NEW e, owned' = owned \cup {e}, ~(Cardinality(owned) >= MaxEvents)
        PROVE  Cardinality(owned') <= MaxEvents
    <3>1. \/ Cardinality(owned') = Cardinality(owned)
          \/ Cardinality(owned') = Cardinality(owned) + 1
      BY <1>1, <2>2, FS_AddElement
    <3> QED
      BY <1>1, <2>2, <3>1
  <2> QED
    BY <1>2, <2>1, <2>2
<1>4. CASE owned' \subseteq owned
  BY <1>2, <1>4
<1> QED
  BY <1>3, <1>4 DEF EncoderMoves, Free

-----------------------------------------------------------------------------
(* Sleep.                                                                  *)

(* A request that is pending while the worker asks the encoder for another *)
(* came after the worker looked.                                           *)
MissedInv == workerAt = "keyframe" /\ flags.keyframe_requested => flags.missed

SleepInv ==
    /\ sleeping => workerAt \in {"next", "admit"}
    /\ workerAt = "keyframe" => flags.rate_set
    /\ MissedInv
    /\ SleepIsJustified

SleepMoves ==
    \/ ~sleeping'
    \/ UNCHANGED <<sleeping, flags, outputs, units, bytes, inHand, workerAt>>
    \/ /\ workerAt' = "next" /\ ~Halted /\ ~(Capturing /\ outputs # <<>>)
       /\ flags.consent => flags.rate_set
       /\ Capturing /\ flags.keyframe_requested => flags.missed
       /\ UNCHANGED <<flags, outputs>>
    \/ /\ workerAt' = "admit" /\ ~Halted /\ Full /\ ~(Capturing /\ flags.keyframe_requested)
       /\ UNCHANGED <<flags, inHand, units, bytes>>

LEMMA SleepVarsMove == SleepInv /\ [PublisherNext]_publisherVars => SleepMoves
<1> SUFFICES ASSUME SleepInv, [PublisherNext]_publisherVars PROVE SleepMoves
  OBVIOUS
<1> USE DEF SleepMoves, sharedVars, threadVars, Wake
<1>1. CASE HolderNext
  BY <1>1 DEF HolderNext, OpenAbandoned, OpenReturns, RequestKeyframe, RequestPublisherClose,
       HolderLetsGo, CloseReturns, RequestsClose
<1>2. CASE ConsumerNext
  BY <1>2 DEF ConsumerNext, RecvRegisters, RecvTakes, RecvWaits, RecvEnds, RecvCancelled,
       UnitDropped
<1>3. CASE EncoderCallNext
  BY <1>3 DEF EncoderCallNext, EncoderCalls, CallbackRuns, EncoderCallExits, OutputCallback
<1>4. CASE PublisherWorkerNext
  <2>1. ASSUME UNCHANGED sleeping, workerAt \notin {"next", "admit"} PROVE ~sleeping'
    BY <2>1 DEF SleepInv
  <2>2. ASSUME NEW error, Fails(error) PROVE ~sleeping'
    BY <2>2 DEF Fails
  <2>3. ASSUME NEW error, FailsTo(error) PROVE ~sleeping'
    BY <2>2, <2>3 DEF FailsTo
  <2>4. ASSUME NEW q, Clear(q) PROVE ~sleeping'
    BY <2>4 DEF Clear
  <2>5. CASE SetupEncoder \/ SetupCapture \/ StartCapture
    BY <2>1, <2>3, <2>5 DEF SetupEncoder, SetupCapture, StartCapture
  <2>6. CASE PumpNext
    BY <2>6 DEF PumpNext, TakesOutput, Capturing
  <2>7. CASE PumpKeyframe
    <3>1. workerAt = "keyframe" /\ flags.rate_set /\ (flags.keyframe_requested => flags.missed)
      BY <2>7 DEF PumpKeyframe, SleepInv, MissedInv
    <3>2. CASE TakesOutput /\ UNCHANGED flags
      <4>1. \/ UNCHANGED sleeping
            \/ /\ workerAt' = "next" /\ ~Halted /\ ~(Capturing /\ outputs # <<>>)
               /\ UNCHANGED outputs
        BY <3>2 DEF TakesOutput
      <4> QED
        BY <2>1, <3>1, <3>2, <4>1
    <3> QED
      BY <2>3, <2>7, <3>2 DEF PumpKeyframe
  <2>8. CASE PumpRate \/ PumpInspect \/ PumpFreed
    BY <2>1, <2>3, <2>8 DEF PumpRate, PumpInspect, PumpFreed
  <2>9. CASE PumpAdmit
    BY <2>9 DEF PumpAdmit
  <2>10. CASE PumpAdmitKeyframe \/ PumpCopy \/ PumpPublish
    BY <2>1, <2>3, <2>10 DEF PumpAdmitKeyframe, PumpCopy, PumpPublish
  <2>11. CASE ShutdownBegins
    BY <2>11 DEF ShutdownBegins, RequestsClose
  <2>12. CASE ShutdownReleases \/ ShutdownDestroys \/ ShutdownFrees
    BY <2>1, <2>2, <2>4, <2>12 DEF ShutdownReleases, ShutdownDestroys, ShutdownFrees, Quarantines
  <2> QED
    BY <1>4, <2>5, <2>6, <2>7, <2>8, <2>9, <2>10, <2>11, <2>12 DEF PublisherWorkerNext
<1>5. CASE UNCHANGED publisherVars
  BY <1>5 DEF publisherVars
<1> QED
  BY <1>1, <1>2, <1>3, <1>4, <1>5 DEF PublisherNext

LEMMA KeyframeComes ==
    ASSUME [PublisherNext]_publisherVars, flags \in Flags, workerAt' = "keyframe"
    PROVE  workerAt = "keyframe" \/ flags.rate_set
<1> USE DEF threadVars
<1>1. CASE HolderNext \/ ConsumerNext
  BY <1>1, OthersMove
<1>2. CASE EncoderCallNext
  BY <1>2 DEF EncoderCallNext, EncoderCalls, CallbackRuns, EncoderCallExits
<1>3. CASE PublisherWorkerNext
  <2>1. CASE SetupEncoder \/ SetupCapture \/ StartCapture
    BY <2>1 DEF SetupEncoder, SetupCapture, StartCapture, MovesTo, FailsTo
  <2>2. CASE PumpNext
    BY <2>2 DEF PumpNext, TakesOutput, MovesTo, Capturing
  <2>3. CASE PumpKeyframe \/ PumpRate \/ PumpInspect \/ PumpFreed
    BY <2>3 DEF PumpKeyframe, PumpRate, PumpInspect, PumpFreed, MovesTo, FailsTo
  <2>4. CASE PumpAdmit \/ PumpAdmitKeyframe \/ PumpCopy \/ PumpPublish
    BY <2>4 DEF PumpAdmit, PumpAdmitKeyframe, PumpCopy, PumpPublish, MovesTo, FailsTo
  <2>5. CASE ShutdownBegins \/ ShutdownReleases \/ ShutdownDestroys \/ ShutdownFrees
    BY <2>5 DEF ShutdownBegins, ShutdownReleases, ShutdownDestroys, ShutdownFrees, Quarantines,
         WorkerEnds
  <2> QED
    BY <1>3, <2>1, <2>2, <2>3, <2>4, <2>5 DEF PublisherWorkerNext
<1>4. CASE UNCHANGED publisherVars
  BY <1>4 DEF publisherVars
<1> QED
  BY <1>1, <1>2, <1>3, <1>4 DEF PublisherNext

LEMMA RateStays ==
    ASSUME flags \in Flags, FlagUpdates, flags.rate_set = TRUE
    PROVE  flags'.rate_set = TRUE
<1>1. ASSUME NEW error \in Failures, flags' = Failed(error) PROVE flags'.rate_set = TRUE
  BY <1>1 DEF Flags, Failed
<1>2. CASE \/ UNCHANGED flags
           \/ flags' = [flags EXCEPT !.closing = TRUE]
           \/ \E b, m \in BOOLEAN :
                flags' = [flags EXCEPT !.keyframe_requested = b, !.missed = m]
           \/ flags' = [flags EXCEPT !.rate_set = TRUE]
  BY <1>2 DEF Flags
<1>3. CASE \E event \in Signals : flags' = CaptureState(event)
  <2>1. CASE flags' = [flags EXCEPT !.consent = ~flags.closing \/ @]
    BY <2>1 DEF Flags
  <2>2. CASE flags' = [flags EXCEPT !.consent = FALSE,
                         !.failure = IF flags.closing \/ @ # "none" THEN @ ELSE "ConsentEnded"]
    BY <2>2 DEF Flags
  <2>3. CASE flags' = Failed("Native")
    BY <1>1, <2>3 DEF Failures
  <2> QED
    BY <1>3, <2>1, <2>2, <2>3 DEF Signals, CaptureState
<1>4. ASSUME NEW q \in BOOLEAN,
             flags' = [flags EXCEPT !.closing = TRUE, !.quarantined = q, !.closed = ~q]
      PROVE  flags'.rate_set = TRUE
  BY <1>4 DEF Flags
<1>5. {"Native", "Closed", "Rejected", "CallbackOverflow", "DuplicateOutput"} \subseteq Failures
  BY DEF Failures
<1>6. (\E error \in {"Native", "Closed", "Rejected"} : flags' = Failed(error))
        \/ (\E c \in callbacks : Accuses(c))
      => \E error \in Failures : flags' = Failed(error)
  BY <1>5 DEF Accuses
<1> QED
  BY <1>1, <1>2, <1>3, <1>4, <1>6 DEF FlagUpdates

(* How the worker comes to ask the encoder, and what may happen meanwhile. *)
Untouched ==
    flags'.keyframe_requested = flags.keyframe_requested /\ flags'.missed = flags.missed

LEMMA KeyframeEnters ==
    ASSUME flags \in Flags, [PublisherNext]_publisherVars, workerAt' = "keyframe"
    PROVE  \/ flags' = [flags EXCEPT !.keyframe_requested = FALSE, !.missed = FALSE]
           \/ workerAt = "keyframe" /\ (Untouched \/ flags'.missed)
<1> USE DEF threadVars
<1>1. ASSUME UNCHANGED flags PROVE Untouched
  BY <1>1 DEF Untouched
<1>2. ASSUME RequestsClose PROVE Untouched
  BY <1>2 DEF RequestsClose, Flags, Untouched
<1>3. ASSUME NEW error, flags' = Failed(error) PROVE Untouched
  BY <1>3 DEF Flags, Failed, Untouched
<1>4. ASSUME NEW event \in Signals, flags' = CaptureState(event) PROVE Untouched
  <2>1. CASE flags' = [flags EXCEPT !.consent = ~flags.closing \/ @]
    BY <2>1 DEF Flags, Untouched
  <2>2. CASE flags' = [flags EXCEPT !.consent = FALSE,
                         !.failure = IF flags.closing \/ @ # "none" THEN @ ELSE "ConsentEnded"]
    BY <2>2 DEF Flags, Untouched
  <2>3. CASE flags' = Failed("Native")
    BY <1>3, <2>3
  <2> QED
    BY <1>4, <2>1, <2>2, <2>3 DEF Signals, CaptureState
<1>5. CASE HolderNext
  <2>1. workerAt = "keyframe"
    BY <1>5, OthersMove
  <2>2. ASSUME RequestKeyframe PROVE flags'.missed
    BY <2>1, <2>2 DEF RequestKeyframe, Flags
  <2>3. Untouched \/ RequestKeyframe
    BY <1>1, <1>2, <1>5 DEF HolderNext, OpenAbandoned, OpenReturns, RequestPublisherClose,
         HolderLetsGo, CloseReturns
  <2> QED
    BY <2>1, <2>2, <2>3
<1>6. CASE ConsumerNext
  <2>1. workerAt = "keyframe"
    BY <1>6, OthersMove
  <2>2. UNCHANGED flags
    BY <1>6 DEF ConsumerNext, RecvRegisters, RecvTakes, RecvWaits, RecvEnds, RecvCancelled,
         UnitDropped
  <2> QED
    BY <1>1, <2>1, <2>2
<1>7. CASE EncoderCallNext
  <2>1. workerAt = "keyframe"
    BY <1>7 DEF EncoderCallNext, EncoderCalls, CallbackRuns, EncoderCallExits
  <2>2. ASSUME NEW c \in callbacks, OutputCallback(c) PROVE Untouched
    BY <1>1, <1>3, <2>2 DEF OutputCallback
  <2>3. Untouched
    BY <1>1, <1>4, <1>7, <2>2 DEF EncoderCallNext, EncoderCalls, CallbackRuns, EncoderCallExits
  <2> QED
    BY <2>1, <2>3
<1>8. CASE PublisherWorkerNext
  <2>1. CASE SetupEncoder \/ SetupCapture \/ StartCapture
    BY <2>1 DEF SetupEncoder, SetupCapture, StartCapture, MovesTo, FailsTo
  <2>2. CASE PumpNext
    BY <2>2 DEF PumpNext, TakesOutput, MovesTo
  <2>3. CASE PumpKeyframe \/ PumpRate \/ PumpInspect \/ PumpFreed
    BY <2>3 DEF PumpKeyframe, PumpRate, PumpInspect, PumpFreed, TakesOutput, MovesTo, FailsTo
  <2>4. CASE PumpAdmit \/ PumpAdmitKeyframe \/ PumpCopy \/ PumpPublish
    BY <2>4 DEF PumpAdmit, PumpAdmitKeyframe, PumpCopy, PumpPublish, MovesTo, FailsTo
  <2>5. CASE ShutdownBegins \/ ShutdownReleases \/ ShutdownDestroys \/ ShutdownFrees
    BY <2>5 DEF ShutdownBegins, ShutdownReleases, ShutdownDestroys, ShutdownFrees, Quarantines,
         WorkerEnds
  <2> QED
    BY <1>8, <2>1, <2>2, <2>3, <2>4, <2>5 DEF PublisherWorkerNext
<1>9. CASE UNCHANGED publisherVars
  BY <1>1, <1>9 DEF publisherVars
<1> QED
  BY <1>5, <1>6, <1>7, <1>8, <1>9 DEF PublisherNext

(* While the worker asks the encoder, a request is missed by it.           *)
LEMMA MissedStep ==
    ASSUME flags \in Flags, MissedInv, [PublisherNext]_publisherVars
    PROVE  MissedInv'
<1> SUFFICES ASSUME workerAt' = "keyframe", flags'.keyframe_requested PROVE flags'.missed
  BY DEF MissedInv
<1>1. CASE flags' = [flags EXCEPT !.keyframe_requested = FALSE, !.missed = FALSE]
  BY <1>1 DEF Flags
<1>2. CASE workerAt = "keyframe" /\ Untouched
  BY <1>2 DEF MissedInv, Untouched
<1> QED
  BY <1>1, <1>2, KeyframeEnters

LEMMA SleepStep ==
    ASSUME flags \in Flags, FlagUpdates, SleepInv, [PublisherNext]_publisherVars
    PROVE  SleepInv'
<1>1. SleepMoves
  BY SleepVarsMove
<1>2. workerAt' = "keyframe" => flags'.rate_set
  <2> SUFFICES ASSUME workerAt' = "keyframe" PROVE flags'.rate_set
    OBVIOUS
  <2>1. flags.rate_set
    BY KeyframeComes DEF SleepInv
  <2>2. flags.rate_set = TRUE
    BY <2>1 DEF Flags
  <2> QED
    BY <2>2, RateStays
<1>3. (sleeping => workerAt \in {"next", "admit"})'
  BY <1>1 DEF SleepMoves, SleepInv
<1>4. SleepIsJustified'
  <2>1. CASE ~sleeping'
    BY <2>1 DEF SleepIsJustified
  <2>2. CASE UNCHANGED <<sleeping, flags, outputs, units, bytes, inHand, workerAt>>
    BY <2>2 DEF SleepInv, SleepIsJustified, Full, Capturing, Halted
  <2>3. CASE /\ workerAt' = "next" /\ ~Halted /\ ~(Capturing /\ outputs # <<>>)
             /\ flags.consent => flags.rate_set
             /\ Capturing /\ flags.keyframe_requested => flags.missed
             /\ UNCHANGED <<flags, outputs>>
    BY <2>3 DEF SleepIsJustified, Capturing, Halted
  <2>4. CASE /\ workerAt' = "admit" /\ ~Halted /\ Full
             /\ ~(Capturing /\ flags.keyframe_requested)
             /\ UNCHANGED <<flags, inHand, units, bytes>>
    BY <2>4 DEF SleepIsJustified, Capturing, Halted, Full
  <2> QED
    BY <1>1, <2>1, <2>2, <2>3, <2>4 DEF SleepMoves
<1>5. MissedInv'
  BY MissedStep DEF SleepInv
<1> QED
  BY <1>2, <1>3, <1>4, <1>5 DEF SleepInv

-----------------------------------------------------------------------------
(* The stream: order and metadata.                                         *)

(* The metadata that waits for a picture after the first n buffers.        *)
Waiting(filled, n) ==
    {m \in 1..n : filled[m].kind = "config" /\ \A k \in m..n : ~IsPicture(filled[k])}

Continues(filled, longer) ==
    Len(filled) <= Len(longer) /\ \A n \in 1..Len(filled) : longer[n] = filled[n]

LEMMA WaitingContinues ==
    ASSUME NEW a \in Seq(Contents), NEW b \in Seq(Contents), Continues(a, b),
           NEW n \in Nat, n <= Len(a)
    PROVE  Waiting(b, n) = Waiting(a, n)
<1>1. Len(a) \in Nat
  OBVIOUS
<1>2. \A m \in 1..n : m \in 1..Len(a) /\ \A k \in m..n : k \in 1..Len(a)
  BY <1>1
<1>3. \A m \in 1..n : b[m] = a[m] /\ \A k \in m..n : b[k] = a[k]
  BY <1>2 DEF Continues
<1> QED
  BY <1>3 DEF Waiting

LEMMA WaitingSkips ==
    ASSUME NEW a, NEW h \in Nat \ {0}, ~IsPicture(a[h])
    PROVE  Waiting(a, h) = IF a[h].kind = "config" THEN Waiting(a, h - 1) \cup {h}
                           ELSE Waiting(a, h - 1)
<1>1. \A m : m \in 1..h <=> (m \in 1..(h - 1) \/ m = h)
  OBVIOUS
<1>2. \A m \in 1..(h - 1) : \A k : k \in m..h <=> (k \in m..(h - 1) \/ k = h)
  OBVIOUS
<1>3. \A k \in h..h : k = h
  OBVIOUS
<1>4. \A m \in 1..(h - 1) :
        (\A k \in m..h : ~IsPicture(a[k])) <=> (\A k \in m..(h - 1) : ~IsPicture(a[k]))
  BY <1>2
<1>5. \A k \in h..h : ~IsPicture(a[k])
  BY <1>3
<1>6. h \notin 1..(h - 1)
  OBVIOUS
<1> HIDE DEF IsPicture
<1>7. ASSUME NEW m
      PROVE  m \in Waiting(a, h) <=>
               (m \in Waiting(a, h - 1) \/ (m = h /\ a[h].kind = "config"))
  <2>1. CASE m = h
    BY <1>1, <1>5, <1>6, <2>1 DEF Waiting
  <2>2. CASE m # h
    BY <1>1, <1>4, <2>2 DEF Waiting
  <2> QED
    BY <2>1, <2>2
<1> QED
  BY <1>7

LEMMA WaitingStops ==
    ASSUME NEW a, NEW h \in Nat \ {0}, IsPicture(a[h])
    PROVE  Waiting(a, h) = {}
<1>1. \A m \in 1..h : h \in m..h
  OBVIOUS
<1> QED
  BY <1>1 DEF Waiting

LEMMA StreamContinues ==
    ASSUME NEW p \in Seq(Stamps), NEW a \in Seq(Contents), NEW b \in Seq(Contents),
           Continues(a, b), IsStreamOf(p, a)
    PROVE  IsStreamOf(p, b)
<1>1. Len(a) \in Nat /\ Len(b) \in Nat /\ Len(a) <= Len(b)
  BY DEF Continues
<1>2. ASSUME NEW i \in 1..Len(p)
      PROVE  /\ p[i] <= Len(b) /\ IsPicture(b[p[i]])
             /\ \A n \in 1..p[i] : IsPicture(b[n]) => \E j \in 1..Len(p) : p[j] = n
  <2>0. p[i] \in Stamps
    OBVIOUS
  <2>1. p[i] \in Nat /\ p[i] >= 1
    BY <2>0 DEF Stamps
  <2>2. /\ p[i] <= Len(a) /\ IsPicture(a[p[i]])
        /\ \A n \in 1..p[i] : IsPicture(a[n]) => \E j \in 1..Len(p) : p[j] = n
    BY DEF IsStreamOf
  <2>3. p[i] <= Len(b) /\ p[i] \in 1..Len(a) /\ \A n \in 1..p[i] : n \in 1..Len(a)
    BY <1>1, <2>1, <2>2
  <2>4. b[p[i]] = a[p[i]] /\ \A n \in 1..p[i] : b[n] = a[n]
    BY <2>3 DEF Continues
  <2> QED
    BY <2>2, <2>3, <2>4
<1> QED
  BY <1>2 DEF IsStreamOf

LEMMA StreamGrows ==
    ASSUME NEW p \in Seq(Stamps), NEW a, NEW n \in Stamps, IsStreamOf(p, a),
           n <= Len(a), IsPicture(a[n]),
           \A i \in 1..Len(p) : p[i] < n,
           \A m \in 1..(n - 1) : IsPicture(a[m]) => \E i \in 1..Len(p) : p[i] = m
    PROVE  IsStreamOf(Append(p, n), a)
<1> DEFINE q == Append(p, n)
           l == Len(p)
<1>1. /\ l \in Nat /\ Len(q) = l + 1 /\ q[l + 1] = n
      /\ \A i \in 1..l : q[i] = p[i]
  OBVIOUS
<1> HIDE DEF q
<1>2. /\ \A i \in 1..(l + 1) : i \in 1..l \/ i = l + 1
      /\ \A i \in 1..l : i \in 1..(l + 1) /\ i # l + 1
      /\ l + 1 \in 1..(l + 1)
  BY <1>1
<1>3. \A i, j \in 1..(l + 1) : i < j => i \in 1..l
  BY <1>1
<1>4. n \in Nat /\ n >= 1 /\ \A m \in 1..n : m \in 1..(n - 1) \/ m = n
  BY DEF Stamps
<1>5. \A i, j \in 1..l : i < j => p[i] < p[j]
  BY DEF IsStreamOf
<1>6. \A i \in 1..l :
         /\ p[i] <= Len(a) /\ IsPicture(a[p[i]])
         /\ \A m \in 1..p[i] : IsPicture(a[m]) => \E j \in 1..l : p[j] = m
  BY DEF IsStreamOf
<1> HIDE DEF l
<1>7. ASSUME NEW i \in 1..(l + 1), NEW j \in 1..(l + 1), i < j PROVE q[i] < q[j]
  <2>1. i \in 1..l
    BY <1>3, <1>7
  <2>2. CASE j \in 1..l
    BY <1>1, <1>5, <1>7, <2>1, <2>2
  <2>3. CASE j = l + 1
    BY <1>1, <2>1, <2>3 DEF l
  <2> QED
    BY <1>2, <2>2, <2>3
<1>8. ASSUME NEW i \in 1..(l + 1)
      PROVE  /\ q[i] <= Len(a) /\ IsPicture(a[q[i]])
             /\ \A m \in 1..q[i] : IsPicture(a[m]) => \E j \in 1..(l + 1) : q[j] = m
  <2>1. CASE i \in 1..l
    BY <1>1, <1>2, <1>6, <2>1
  <2>2. CASE i = l + 1
    <3>1. q[i] = n
      BY <1>1, <2>2
    <3>2. ASSUME NEW m \in 1..n, IsPicture(a[m]) PROVE \E j \in 1..(l + 1) : q[j] = m
      <4>1. CASE m = n
        BY <1>1, <1>2, <4>1
      <4>2. CASE m \in 1..(n - 1)
        BY <1>1, <1>2, <3>2, <4>2 DEF l
      <4> QED
        BY <1>4, <4>1, <4>2
    <3> QED
      BY <3>1, <3>2
  <2> QED
    BY <1>2, <2>1, <2>2
<1>9. Len(q) = l + 1
  BY <1>1
<1> QED
  BY <1>7, <1>8, <1>9 DEF IsStreamOf, q

LEMMA StreamIsCut ==
    ASSUME NEW p \in Seq(Stamps), NEW q \in Seq(Stamps), NEW a, IsStreamOf(p, a),
           Len(q) <= Len(p), \A i \in 1..Len(q) : q[i] = p[i]
    PROVE  IsStreamOf(q, a)
<1>1. /\ Len(p) \in Nat /\ Len(q) \in Nat
      /\ \A i \in 1..Len(q) : i \in 1..Len(p)
  OBVIOUS
<1>2. \A i, j \in 1..Len(q) : i < j => q[i] < q[j]
  BY <1>1 DEF IsStreamOf
<1>3. ASSUME NEW i \in 1..Len(q)
      PROVE  /\ q[i] <= Len(a) /\ IsPicture(a[q[i]])
             /\ \A n \in 1..q[i] : IsPicture(a[n]) => \E j \in 1..Len(q) : q[j] = n
  <2>1. /\ p[i] <= Len(a) /\ IsPicture(a[p[i]])
        /\ \A n \in 1..p[i] : IsPicture(a[n]) => \E j \in 1..Len(p) : p[j] = n
    BY <1>1 DEF IsStreamOf
  <2>2. ASSUME NEW n \in 1..p[i], IsPicture(a[n]) PROVE \E j \in 1..Len(q) : q[j] = n
    <3>1. PICK j \in 1..Len(p) : p[j] = n
      BY <2>1, <2>2
    <3>2. j <= i
      <4>1. ASSUME i < j PROVE FALSE
        <5>1. p[i] < p[j]
          BY <1>1, <4>1 DEF IsStreamOf
        <5>2. p[i] \in Stamps
          BY <1>1
        <5>3. p[i] \in Nat
          BY <5>2 DEF Stamps
        <5> QED
          BY <3>1, <5>1, <5>3
      <4>2. i \in Nat /\ j \in Nat
        BY <1>1
      <4> QED
        BY <4>1, <4>2
    <3>3. j \in 1..Len(q)
      BY <1>1, <3>2
    <3> QED
      BY <3>1, <3>3
  <2> QED
    BY <2>1, <2>2
<1> QED
  BY <1>2, <1>3 DEF IsStreamOf

-----------------------------------------------------------------------------
(* What was published, step by step.                                       *)
Stamped == [i \in 1..Len(queue) |-> queue[i].n]

LEMMA StampsForm ==
    PacketInv => /\ Stamped \in Seq(Stamps) /\ Len(Stamped) = Len(queue)
                 /\ Len(queue) \in Nat /\ Len(delivered) \in Nat
                 /\ Published = delivered \o Stamped /\ Published \in Seq(Stamps)
                 /\ Len(Published) = Len(delivered) + Len(queue)
<1> SUFFICES ASSUME PacketInv
             PROVE  /\ Stamped \in Seq(Stamps) /\ Len(Stamped) = Len(queue)
                    /\ Len(queue) \in Nat /\ Len(delivered) \in Nat
                    /\ Published = delivered \o Stamped /\ Published \in Seq(Stamps)
                    /\ Len(Published) = Len(delivered) + Len(queue)
  OBVIOUS
<1>1. Len(queue) \in Nat /\ \A i \in 1..Len(queue) : queue[i] \in Packet
  BY DEF PacketInv
<1>2. \A i \in 1..Len(queue) : queue[i].n \in Stamps
  BY <1>1 DEF Packet
<1>3. Stamped \in Seq(Stamps) /\ Len(Stamped) = Len(queue)
  BY <1>1, <1>2 DEF Stamped
<1>4. Published = delivered \o Stamped
  BY DEF Published, Stamped
<1>5. delivered \in Seq(Stamps)
  BY DEF PacketInv
<1>6. /\ delivered \o Stamped \in Seq(Stamps) /\ Len(delivered) \in Nat
      /\ Len(delivered \o Stamped) = Len(delivered) + Len(Stamped)
  BY <1>3, <1>5, ConcatProperties, LenProperties
<1> QED
  BY <1>1, <1>3, <1>4, <1>6

LEMMA HeadMoves ==
    ASSUME NEW S, NEW d \in Seq(S), NEW q \in Seq(S), q # <<>>
    PROVE  Append(d, Head(q)) \o Tail(q) = d \o q
<1>1. /\ Head(q) \in S /\ Tail(q) \in Seq(S) /\ Len(Tail(q)) = Len(q) - 1 /\ Len(q) \in Nat
      /\ \A i \in 1..Len(Tail(q)) : Tail(q)[i] = q[i + 1]
      /\ Head(q) = q[1] /\ Len(q) # 0
  BY HeadTailProperties, LenProperties, EmptySeq
<1> DEFINE f == <<Head(q)>>
<1>2. f \in Seq(S) /\ Len(f) = 1 /\ f[1] = q[1]
  BY <1>1
<1> HIDE DEF f
<1>3. f \o Tail(q) = q
  <2>1. /\ f \o Tail(q) \in Seq(S) /\ Len(f \o Tail(q)) = Len(q)
        /\ \A i \in 1..Len(q) : (f \o Tail(q))[i] = IF i <= 1 THEN f[i] ELSE Tail(q)[i - 1]
    <3> DEFINE t == Tail(q)
    <3>1. t \in Seq(S) /\ Len(f) + Len(t) = Len(q)
      BY <1>1, <1>2
    <3> HIDE DEF t
    <3>2. /\ f \o t \in Seq(S) /\ Len(f \o t) = Len(f) + Len(t)
          /\ \A i \in 1..(Len(f) + Len(t)) :
               (f \o t)[i] = IF i <= Len(f) THEN f[i] ELSE t[i - Len(f)]
      BY <1>2, <3>1, ConcatProperties
    <3> QED
      BY <1>2, <3>1, <3>2 DEF t
  <2>2. ASSUME NEW i \in 1..Len(q) PROVE (f \o Tail(q))[i] = q[i]
    <3>1. CASE i = 1
      BY <1>2, <2>1, <3>1
    <3>2. CASE i # 1
      <4>1. ~(i <= 1) /\ i - 1 \in 1..(Len(q) - 1) /\ (i - 1) + 1 = i
        BY <1>1, <3>2
      <4>2. Tail(q)[i - 1] = q[i]
        BY <1>1, <4>1
      <4> QED
        BY <2>1, <4>1, <4>2
    <3> QED
      BY <3>1, <3>2
  <2> QED
    BY <2>1, <2>2, SeqEqual
<1>4. Append(d, Head(q)) = d \o f
  BY <1>1, AppendIsConcat DEF f
<1>5. (d \o f) \o Tail(q) = d \o (f \o Tail(q))
  <2> DEFINE t == Tail(q)
  <2>1. t \in Seq(S)
    BY <1>1
  <2> HIDE DEF t
  <2>2. f \in Seq(S)
    BY <1>2
  <2>3. \A g, u \in Seq(S) : (d \o g) \o u = d \o (g \o u)
    BY ConcatAssociative
  <2>4. (d \o f) \o t = d \o (f \o t)
    BY <2>1, <2>2, <2>3
  <2> QED
    BY <2>4 DEF t
<1> QED
  BY <1>3, <1>4, <1>5

LEMMA LastMoves ==
    ASSUME NEW S, NEW d \in Seq(S), NEW q \in Seq(S), NEW e \in S
    PROVE  d \o Append(q, e) = Append(d \o q, e)
<1> DEFINE f == <<e>>
<1>1. f \in Seq(S)
  OBVIOUS
<1>2. Append(q, e) = q \o f
  BY AppendIsConcat
<1>3. d \o q \in Seq(S)
  BY ConcatProperties
<1>4. Append(d \o q, e) = (d \o q) \o f
  BY <1>3, AppendIsConcat
<1> HIDE DEF f
<1>5. (d \o q) \o f = d \o (q \o f)
  BY <1>1, ConcatAssociative
<1> QED
  BY <1>2, <1>4, <1>5

LEMMA PublishedStays ==
    ASSUME PacketInv, UNCHANGED <<queue, delivered>>
    PROVE  Published' = Published
BY DEF Published

LEMMA PublishedTaken ==
    ASSUME PacketInv, RecvTakes
    PROVE  Published' = Published
<1> DEFINE d == delivered
           q == Stamped
           n == Len(queue)
           e == Head(queue).n
<1>1. queue # <<>> /\ queue' = Tail(queue) /\ delivered' = Append(delivered, e)
  BY DEF RecvTakes
<1>2. queue \in Seq(Packet) /\ n \in Nat /\ n # 0
  BY <1>1 DEF PacketInv
<1>3. /\ Len(queue') = n - 1 /\ Head(queue) = queue[1]
      /\ \A i \in 1..(n - 1) : queue'[i] = queue[i + 1]
  BY <1>1, <1>2
<1>4. q \in Seq(Stamps) /\ Len(q) = n /\ d \in Seq(Stamps) /\ \A i \in 1..n : q[i] = queue[i].n
  BY StampsForm DEF PacketInv, Stamped
<1>5. Head(q) = e /\ q # <<>>
  BY <1>2, <1>3, <1>4
<1>6. Stamped' = Tail(q)
  <2>1. Stamped' = [i \in 1..(n - 1) |-> queue'[i].n]
    BY <1>3 DEF Stamped
  <2>2. Tail(q) = [i \in 1..(n - 1) |-> q[i + 1]]
    <3> HIDE DEF q, e
    <3>1. /\ Tail(q) \in Seq(Stamps) /\ Len(Tail(q)) = n - 1
          /\ \A i \in 1..Len(Tail(q)) : Tail(q)[i] = q[i + 1]
      BY <1>4, <1>5, HeadTailProperties
    <3>2. Tail(q) = [i \in 1..Len(Tail(q)) |-> Tail(q)[i]]
      BY <3>1, LenProperties
    <3> QED
      BY <3>1, <3>2
  <2>3. \A i \in 1..(n - 1) : i + 1 \in 1..n
    BY <1>2
  <2>4. \A i \in 1..(n - 1) : queue'[i].n = q[i + 1]
    BY <1>3, <1>4, <2>3
  <2> QED
    BY <2>1, <2>2, <2>4
<1>7. Published' = delivered' \o Stamped' /\ Published = d \o q
  BY DEF Published, Stamped
<1> HIDE DEF q, d, e
<1>8. Append(d, e) \o Tail(q) = d \o q
  BY <1>4, <1>5, HeadMoves
<1> QED
  BY <1>1, <1>6, <1>7, <1>8 DEF d

LEMMA PublishedGrows ==
    ASSUME PacketInv, NEW p \in Packet, queue' = Append(queue, p), UNCHANGED delivered
    PROVE  Published' = Append(Published, p.n)
<1> DEFINE q == Stamped
           n == Len(queue)
           d == delivered
           e == p.n
<1>1. /\ queue \in Seq(Packet) /\ n \in Nat /\ q \in Seq(Stamps) /\ Len(q) = n
      /\ d \in Seq(Stamps) /\ e \in Stamps
  BY StampsForm DEF PacketInv, Packet
<1>2. /\ Len(queue') = n + 1 /\ queue'[n + 1] = p
      /\ \A i \in 1..n : queue'[i] = queue[i]
  BY <1>1
<1>3. Stamped' = Append(q, e)
  <2>1. Stamped' = [i \in 1..(n + 1) |-> queue'[i].n]
    BY <1>2 DEF Stamped
  <2>2. \A i \in 1..n : q[i] = queue[i].n
    BY DEF Stamped
  <2> HIDE DEF q, e
  <2>3. Append(q, e) \in Seq(Stamps) /\ Len(Append(q, e)) = n + 1
    BY <1>1, AppendProperties
  <2>4. Append(q, e) = [i \in 1..(n + 1) |-> Append(q, e)[i]]
    BY <2>3, LenProperties
  <2>5. \A i \in 1..(n + 1) : Append(q, e)[i] = queue'[i].n
    <3>1. \A i \in 1..(n + 1) : i \in 1..n \/ i = n + 1
      BY <1>1
    <3>2. (\A i \in 1..n : Append(q, e)[i] = q[i]) /\ Append(q, e)[n + 1] = e
      BY <1>1, AppendProperties
    <3> QED
      BY <1>2, <2>2, <3>1, <3>2 DEF e
  <2> QED
    BY <2>1, <2>4, <2>5
<1>4. Published' = d \o Stamped' /\ Published = d \o q
  BY DEF Published, Stamped
<1> HIDE DEF q, d, e
<1>5. d \o Append(q, e) = Append(d \o q, e)
  BY <1>1, LastMoves
<1> QED
  BY <1>3, <1>4, <1>5 DEF e

LEMMA PublishedCut ==
    ASSUME PacketInv, queue' = <<>>, UNCHANGED delivered
    PROVE  /\ Published' \in Seq(Stamps) /\ Len(Published') <= Len(Published)
           /\ \A i \in 1..Len(Published') : Published'[i] = Published[i]
<1>1. Published' = delivered \o <<>>
  <2>1. Stamped' = <<>>
    BY DEF Stamped
  <2> QED
    BY <2>1 DEF Published, Stamped
<1>2. /\ Stamped \in Seq(Stamps) /\ delivered \in Seq(Stamps) /\ Published = delivered \o Stamped
      /\ Len(Published) = Len(delivered) + Len(queue) /\ Len(queue) \in Nat
      /\ Len(delivered) \in Nat
  BY StampsForm DEF PacketInv
<1>3. delivered \o <<>> = delivered
  BY <1>2
<1> QED
  BY <1>1, <1>2, <1>3

-----------------------------------------------------------------------------
(* Where the stream stands while nothing has stopped it: buffers 1..h were *)
(* taken out of the queue.                                                 *)
FirstOf(h) ==
    /\ h + Len(outputs) <= Len(announced)
    /\ \A i \in 1..Len(outputs) : outputs[i].n = h + i
    /\ workerAt \in Carrying => inHand.n = h
    /\ \A c \in Pending : h + Len(outputs) < c.n /\ c.n <= Len(announced)
    /\ \A c, d \in Pending : c.n = d.n => c = d
    /\ \A n \in (h + Len(outputs) + 1)..Len(announced) : \E c \in Pending : c.n = n

OrderOf(h) ==
    /\ \A i \in 1..Len(Published) :
         Published[i] <= h /\ (workerAt \in Carrying => Published[i] # h)
    /\ \A n \in 1..h :
         IsPicture(announced[n]) =>
           (\E i \in 1..Len(Published) : Published[i] = n) \/ (workerAt \in Carrying /\ n = h)

MetaOf(h) ==
    /\ workerAt \in Carrying \ {"freeing"} => parameters.pending = Waiting(announced, h - 1)
    /\ workerAt = "freeing" => Content.last \/ parameters.pending = Waiting(announced, h)
    /\ workerAt \in Quiet => parameters.pending = Waiting(announced, h)

ContentOf ==
    /\ workerAt = "freeing" => ~IsPicture(Content)
    /\ workerAt \in {"admit", "admit_keyframe", "copy", "publish"} => IsPicture(Content)

StreamInv ==
    ~Halted => ContentOf /\ \E h \in Nat : FirstOf(h) /\ OrderOf(h) /\ MetaOf(h)

LEMMA AnnouncedForm ==
    ASSUME EncoderInv
    PROVE  announced \in Seq(Contents) /\ Len(announced) \in Nat
BY DEF EncoderInv

LEMMA AnnouncedContinues ==
    ASSUME EncoderInv, NEW content \in Contents, announced' = Append(announced, content)
    PROVE  Continues(announced, announced') /\ Len(announced') = Len(announced) + 1
<1>1. /\ Len(announced') = Len(announced) + 1 /\ Len(announced) \in Nat
      /\ \A n \in 1..Len(announced) : announced'[n] = announced[n]
  BY AnnouncedForm
<1> QED
  BY <1>1 DEF Continues

(* An announcement.                                                        *)
LEMMA FirstAnnounced ==
    ASSUME EncoderInv, NEW h \in Nat, FirstOf(h), CallMoves, Announces
    PROVE  FirstOf(h)'
<1>1. PICK index \in encoderOwns, content \in Contents :
          /\ announced' = Append(announced, content)
          /\ Pending' = Pending \cup
               {[event |-> index, n |-> Len(announced) + 1, done |-> FALSE]}
          /\ UNCHANGED outputs
  BY DEF Announces
<1> DEFINE a == [event |-> index, n |-> Len(announced) + 1, done |-> FALSE]
           l == Len(announced)
<1>2. a.n = l + 1 /\ Pending' = Pending \cup {a}
  BY <1>1
<1> HIDE DEF a
<1>3. l \in Nat /\ Len(announced') = l + 1 /\ Len(outputs) \in Nat
  BY <1>1, AnnouncedForm, OutputsForm
<1> HIDE DEF l
<1>4. /\ h + Len(outputs) <= l
      /\ \A i \in 1..Len(outputs) : outputs[i].n = h + i
      /\ workerAt \in Carrying => inHand.n = h
      /\ \A c \in Pending : h + Len(outputs) < c.n /\ c.n <= l
      /\ \A c, d \in Pending : c.n = d.n => c = d
      /\ \A n \in (h + Len(outputs) + 1)..l : \E c \in Pending : c.n = n
  BY DEF FirstOf, l
<1>5. \A c \in Pending : c.n \in Nat
  <2>1. \A c \in Pending : c.n \in Stamps
    BY PendingForm
  <2> QED
    BY <2>1 DEF Stamps
<1>6. UNCHANGED <<workerAt, inHand, outputs>>
  BY <1>1 DEF CallMoves
<1>7. \A c \in Pending' : h + Len(outputs) < c.n /\ c.n <= l + 1
  BY <1>2, <1>3, <1>4, <1>5
<1>8. \A c, d \in Pending' : c.n = d.n => c = d
  BY <1>2, <1>3, <1>4, <1>5
<1>9. ASSUME NEW n \in (h + Len(outputs) + 1)..(l + 1) PROVE \E c \in Pending' : c.n = n
  <2>1. CASE n = l + 1
    BY <1>2, <2>1
  <2>2. CASE n # l + 1
    <3>1. n \in (h + Len(outputs) + 1)..l
      BY <1>3, <2>2
    <3> QED
      BY <1>2, <1>4, <3>1
  <2> QED
    BY <2>1, <2>2
<1>10. h + Len(outputs) <= l + 1
  BY <1>3, <1>4
<1> QED
  BY <1>3, <1>4, <1>6, <1>7, <1>8, <1>9, <1>10 DEF FirstOf

LEMMA MetaContinues ==
    ASSUME EncoderInv, EncoderInv', NEW h \in Nat, FirstOf(h), MetaOf(h), ContentOf,
           HandInv, Continues(announced, announced'), UNCHANGED <<workerAt, inHand, parameters>>
    PROVE  MetaOf(h)' /\ ContentOf'
<1>1. announced \in Seq(Contents) /\ announced' \in Seq(Contents) /\ Len(announced) \in Nat
  BY AnnouncedForm DEF EncoderInv
<1>2. h <= Len(announced)
  BY <1>1, OutputsForm DEF FirstOf
<1>3. Waiting(announced', h) = Waiting(announced, h)
  BY <1>1, <1>2, WaitingContinues
<1>4. workerAt \in Carrying => /\ h \in 1..Len(announced) /\ h - 1 \in Nat /\ h - 1 <= Len(announced)
                               /\ Content' = Content
  <2> SUFFICES ASSUME workerAt \in Carrying
               PROVE  /\ h \in 1..Len(announced) /\ h - 1 \in Nat /\ h - 1 <= Len(announced)
                      /\ Content' = Content
    OBVIOUS
  <2>1. inHand.n = h /\ inHand.n \in Stamps
    BY DEF FirstOf, HandInv, Taken
  <2>2. h \in 1..Len(announced) /\ h - 1 \in Nat /\ h - 1 <= Len(announced)
    BY <1>1, <1>2, <2>1 DEF Stamps
  <2> QED
    BY <2>1, <2>2 DEF Content, Continues
<1>5. workerAt \in Carrying => Waiting(announced', h - 1) = Waiting(announced, h - 1)
  BY <1>1, <1>4, WaitingContinues
<1>6. {"freeing", "admit", "admit_keyframe", "copy", "publish"} \subseteq Carrying
  BY DEF Carrying
<1>7. MetaOf(h)'
  BY <1>3, <1>4, <1>5, <1>6 DEF MetaOf
<1>8. ContentOf'
  BY <1>4, <1>6 DEF ContentOf
<1> QED
  BY <1>7, <1>8

LEMMA OrderContinues ==
    ASSUME EncoderInv, NEW h \in Nat, FirstOf(h), OrderOf(h),
           Continues(announced, announced'), UNCHANGED workerAt, Published' = Published
    PROVE  OrderOf(h)'
<1>1. h <= Len(announced) /\ Len(announced) \in Nat
  BY AnnouncedForm, OutputsForm DEF FirstOf
<1>2. \A n \in 1..h : announced'[n] = announced[n]
  BY <1>1 DEF Continues
<1> HIDE DEF IsPicture
<1> QED
  BY <1>2 DEF OrderOf

LEMMA ContinuesItself ==
    ASSUME EncoderInv, UNCHANGED announced
    PROVE  Continues(announced, announced')
BY AnnouncedForm DEF Continues

(* output() takes an announcement over, the oldest first.                  *)
LEMMA FirstAccepted ==
    ASSUME EncoderInv, NEW h \in Nat, FirstOf(h), CallMoves, Accepts
    PROVE  FirstOf(h)'
<1>1. PICK c \in Pending :
          /\ \A d \in Pending : c.n <= d.n
          /\ Pending' = Pending \ {c}
          /\ outputs' = Append(outputs, [index |-> c.event, n |-> c.n])
          /\ UNCHANGED announced
  BY DEF Accepts
<1> DEFINE o == [index |-> c.event, n |-> c.n]
           k == Len(outputs)
           l == Len(announced)
<1>2. /\ k \in Nat /\ l \in Nat /\ Len(outputs') = k + 1 /\ outputs'[k + 1] = o
      /\ \A i \in 1..k : outputs'[i] = outputs[i]
  BY <1>1, AnnouncedForm DEF EncoderInv
<1>3. o.n = c.n
  OBVIOUS
<1> HIDE DEF o, k, l
<1>4. /\ h + k <= l
      /\ \A i \in 1..k : outputs[i].n = h + i
      /\ workerAt \in Carrying => inHand.n = h
      /\ \A d \in Pending : h + k < d.n /\ d.n <= l
      /\ \A d, e \in Pending : d.n = e.n => d = e
      /\ \A n \in (h + k + 1)..l : \E d \in Pending : d.n = n
  BY DEF FirstOf, k, l
<1>5. \A d \in Pending : d.n \in Nat
  <2>1. \A d \in Pending : d.n \in Stamps
    BY PendingForm
  <2> QED
    BY <2>1 DEF Stamps
<1>6. c.n = h + k + 1
  <2>1. c.n \in Nat /\ h + k < c.n /\ c.n <= l
    BY <1>4, <1>5
  <2>2. h + k + 1 \in (h + k + 1)..l
    BY <1>2, <2>1
  <2>3. PICK d \in Pending : d.n = h + k + 1
    BY <1>4, <2>2
  <2>4. c.n <= h + k + 1
    BY <1>1, <2>3
  <2> QED
    BY <1>2, <2>1, <2>4
<1>7. UNCHANGED <<workerAt, inHand, announced>>
  BY <1>1 DEF CallMoves
<1>8. h + (k + 1) <= l
  BY <1>2, <1>4, <1>6
<1>9. \A i \in 1..(k + 1) : outputs'[i].n = h + i
  <2>1. \A i \in 1..(k + 1) : i \in 1..k \/ i = k + 1
    BY <1>2
  <2> QED
    BY <1>2, <1>3, <1>4, <1>6, <2>1
<1>10. \A d \in Pending' : h + (k + 1) < d.n /\ d.n <= l
  <2> SUFFICES ASSUME NEW d \in Pending' PROVE h + (k + 1) < d.n /\ d.n <= l
    OBVIOUS
  <2>1. d \in Pending /\ d # c
    BY <1>1
  <2>2. d.n # c.n /\ c.n <= d.n /\ d.n \in Nat /\ c.n \in Nat
    BY <1>1, <1>4, <1>5, <2>1
  <2>3. d.n <= l
    BY <1>4, <2>1
  <2>4. h + (k + 1) = c.n /\ c.n < d.n
    BY <1>2, <1>6, <2>2
  <2> QED
    BY <2>3, <2>4
<1>11. \A d, e \in Pending' : d.n = e.n => d = e
  BY <1>1, <1>4
<1>12. ASSUME NEW n \in (h + (k + 1) + 1)..l PROVE \E d \in Pending' : d.n = n
  <2>1. n \in (h + k + 1)..l /\ n # c.n
    BY <1>2, <1>6
  <2> QED
    BY <1>1, <1>4, <2>1
<1> QED
  BY <1>2, <1>4, <1>7, <1>8, <1>9, <1>10, <1>11, <1>12 DEF FirstOf, l

-----------------------------------------------------------------------------
(* The stream, step by step.                                               *)
LEMMA PlacesApart ==
    /\ Quiet \cap Carrying = {}
    /\ "shutdown" \notin Carrying \cup Quiet
    /\ Carrying = {"inspect", "freeing", "admit", "admit_keyframe", "copy", "publish"}
    /\ NextPlace \notin Carrying
    /\ NextPlace \in Quiet => ~Content.last
BY DEF Quiet, Carrying, NextPlace

LEMMA StreamStays ==
    ASSUME PacketInv, UNCHANGED <<announced, callbacks, delivered, queue, outputs>>,
           NEW h \in Nat, FirstOf(h), OrderOf(h),
           workerAt' \in Carrying <=> workerAt \in Carrying,
           workerAt' \in Carrying => inHand'.n = inHand.n
    PROVE  (FirstOf(h) /\ OrderOf(h))'
<1>1. Published' = Published /\ Pending' = Pending
  BY PublishedStays DEF Pending
<1>2. FirstOf(h)'
  BY <1>1 DEF FirstOf
<1>3. OrderOf(h)'
  <2> HIDE DEF IsPicture
  <2> QED
    BY <1>1 DEF OrderOf
<1> QED
  BY <1>2, <1>3

(* The buffer in hand is the last that was taken.                          *)
LEMMA HandIsLast ==
    ASSUME HandInv, EncoderInv, NEW h \in Nat, FirstOf(h), workerAt \in Carrying
    PROVE  /\ inHand.n = h /\ h \in Stamps /\ h \in Nat \ {0} /\ h <= Len(announced)
           /\ Content = announced[h]
<1>1. inHand.n = h /\ inHand.n \in Stamps
  BY DEF FirstOf, HandInv, Taken
<1>2. h + Len(outputs) <= Len(announced) /\ Len(outputs) \in Nat /\ Len(announced) \in Nat
  BY OutputsForm, AnnouncedForm DEF FirstOf
<1> QED
  BY <1>1, <1>2 DEF Stamps, Content

LEMMA StreamSkips ==
    ASSUME HandInv, EncoderInv, PacketInv, NEW h \in Nat, FirstOf(h), OrderOf(h), MetaOf(h),
           UNCHANGED <<announced, callbacks, delivered>>, Skips
    PROVE  ContentOf' /\ (FirstOf(h) /\ OrderOf(h) /\ MetaOf(h))'
<1>1. /\ workerAt = "inspect" /\ workerAt' = "freeing"
      /\ UNCHANGED <<inHand, outputs, queue>>
      /\ Content.kind = "empty" \/ Content.kind = "config"
  BY DEF Skips
<1>2. ~IsPicture(Content) /\ Content' = Content
  BY <1>1 DEF IsPicture, Content
<1>3. ContentOf'
  BY <1>1, <1>2 DEF ContentOf
<1>4. FirstOf(h)' /\ OrderOf(h)'
  BY <1>1, StreamStays DEF Carrying
<1>5. h \in Nat \ {0} /\ Content = announced[h] /\ inHand.n = h
  BY <1>1, HandIsLast DEF Carrying
<1>6. Waiting(announced, h) = IF Content.kind = "config" THEN Waiting(announced, h - 1) \cup {h}
                              ELSE Waiting(announced, h - 1)
  BY <1>2, <1>5, WaitingSkips
<1>7. parameters.pending = Waiting(announced, h - 1)
  BY <1>1 DEF MetaOf, Carrying
<1>8. Content.last \/ parameters'.pending = Waiting(announced, h)
  <2>1. CASE Content.kind = "empty"
    BY <1>6, <1>7, <2>1 DEF Skips
  <2>2. CASE Content.kind = "config" /\ ~Content.last
    BY <1>5, <1>6, <1>7, <2>2 DEF Skips
  <2> QED
    BY <1>1, <2>1, <2>2
<1>9. MetaOf(h)'
  BY <1>1, <1>2, <1>8 DEF MetaOf, Quiet
<1> QED
  BY <1>3, <1>4, <1>9

LEMMA StreamKeeps ==
    ASSUME HandInv, EncoderInv, PacketInv, NEW h \in Nat, FirstOf(h), OrderOf(h), MetaOf(h),
           ContentOf, UNCHANGED <<announced, callbacks, delivered>>,
           Waits \/ Keeps \/ Admits \/ Copies
    PROVE  ContentOf' /\ (FirstOf(h) /\ OrderOf(h) /\ MetaOf(h))'
<1> DEFINE After == {"admit", "admit_keyframe", "copy", "publish"}
<1>1. CASE Waits
  <2>1. /\ workerAt \in Quiet /\ workerAt' \in Quiet
        /\ UNCHANGED <<inHand, parameters, outputs, queue>>
    BY <1>1 DEF Waits
  <2>2. FirstOf(h)' /\ OrderOf(h)'
    BY <2>1, StreamStays, PlacesApart
  <2>3. ContentOf' /\ MetaOf(h)'
    BY <2>1 DEF ContentOf, MetaOf, Quiet, Carrying
  <2> QED
    BY <2>2, <2>3
<1>2. CASE Keeps \/ Admits \/ Copies
  <2>1. /\ workerAt \in Carrying /\ workerAt # "freeing" /\ workerAt' \in After
        /\ UNCHANGED <<outputs, queue>> /\ parameters'.pending = parameters.pending
        /\ IsPicture(Content)
    BY <1>2 DEF Keeps, Admits, Copies, Carrying, ContentOf
  <2>2. inHand'.n = inHand.n
    <3>1. inHand \in Taken
      BY <2>1 DEF HandInv
    <3>2. CASE Keeps
      BY <3>1, <3>2 DEF Keeps, Taken
    <3> QED
      BY <1>2, <3>2 DEF Admits, Copies
  <2>3. FirstOf(h)' /\ OrderOf(h)'
    BY <2>1, <2>2, StreamStays DEF Carrying
  <2>4. Content' = Content
    BY <2>2 DEF Content
  <2>5. ContentOf'
    BY <2>1, <2>4 DEF ContentOf
  <2>6. parameters.pending = Waiting(announced, h - 1)
    BY <2>1 DEF MetaOf
  <2>7. MetaOf(h)'
    BY <2>1, <2>6 DEF MetaOf, Quiet
  <2> QED
    BY <2>3, <2>5, <2>7
<1> QED
  BY <1>1, <1>2

LEMMA StreamTakes ==
    ASSUME EncoderInv, PacketInv, NEW h \in Nat, FirstOf(h), OrderOf(h), MetaOf(h),
           UNCHANGED <<announced, callbacks, delivered>>, Takes
    PROVE  ContentOf' /\ (FirstOf(h + 1) /\ OrderOf(h + 1) /\ MetaOf(h + 1))'
<1> DEFINE k == Len(outputs)
           l == Len(announced)
<1>1. /\ workerAt \in Quiet /\ workerAt' = "inspect" /\ outputs # <<>>
      /\ outputs' = Tail(outputs) /\ inHand'.n = Head(outputs).n
      /\ UNCHANGED <<parameters, queue>>
  BY DEF Takes
<1>2. /\ k \in Nat \ {0} /\ l \in Nat /\ Len(outputs') = k - 1 /\ Head(outputs) = outputs[1]
      /\ \A i \in 1..(k - 1) : outputs'[i] = outputs[i + 1]
  BY <1>1, AnnouncedForm DEF EncoderInv
<1>3. Published' = Published /\ Pending' = Pending
  BY <1>1, PublishedStays DEF Pending
<1> HIDE DEF k, l
<1>4. /\ h + k <= l
      /\ \A i \in 1..k : outputs[i].n = h + i
      /\ \A c \in Pending : h + k < c.n /\ c.n <= l
      /\ \A c, d \in Pending : c.n = d.n => c = d
      /\ \A n \in (h + k + 1)..l : \E c \in Pending : c.n = n
  BY DEF FirstOf, k, l
<1>5. inHand'.n = h + 1
  <2>1. 1 \in 1..k
    BY <1>2
  <2> QED
    BY <1>1, <1>2, <1>4, <2>1
<1>6. \A i \in 1..(k - 1) : outputs'[i].n = (h + 1) + i
  <2> SUFFICES ASSUME NEW i \in 1..(k - 1) PROVE outputs'[i].n = (h + 1) + i
    OBVIOUS
  <2>1. i + 1 \in 1..k /\ h + (i + 1) = (h + 1) + i
    BY <1>2
  <2> QED
    BY <1>2, <1>4, <2>1
<1>7. (h + 1) + (k - 1) = h + k
  BY <1>2
<1>8. FirstOf(h + 1)'
  BY <1>2, <1>3, <1>4, <1>5, <1>6, <1>7 DEF FirstOf, l
<1>9. \A i \in 1..Len(Published) : Published[i] \in Nat
  <2>1. Published \in Seq(Stamps)
    BY StampsForm
  <2>2. \A i \in 1..Len(Published) : Published[i] \in Stamps
    BY <2>1
  <2> QED
    BY <2>2 DEF Stamps
<1>10. workerAt \notin Carrying /\ workerAt' \in Carrying
  BY <1>1, PlacesApart
<1>11. \A i \in 1..Len(Published) : Published[i] <= h + 1 /\ Published[i] # h + 1
  BY <1>9 DEF OrderOf
<1>12. ASSUME NEW n \in 1..(h + 1), IsPicture(announced[n])
       PROVE  (\E i \in 1..Len(Published) : Published[i] = n) \/ n = h + 1
  <2>1. n \in 1..h \/ n = h + 1
    OBVIOUS
  <2> HIDE DEF IsPicture
  <2> QED
    BY <1>10, <1>12, <2>1 DEF OrderOf
<1>13. OrderOf(h + 1)'
  <2> HIDE DEF IsPicture
  <2> QED
    BY <1>3, <1>10, <1>11, <1>12 DEF OrderOf
<1>14. (h + 1) - 1 = h
  OBVIOUS
<1>15. ContentOf' /\ MetaOf(h + 1)'
  BY <1>1, <1>14 DEF ContentOf, MetaOf, Quiet
<1> QED
  BY <1>8, <1>13, <1>15

-----------------------------------------------------------------------------
LEMMA StreamFreed ==
    ASSUME HandInv, EncoderInv, PacketInv, NEW h \in Nat, FirstOf(h), OrderOf(h), MetaOf(h),
           ContentOf, UNCHANGED <<announced, callbacks, delivered>>, GetsFreed
    PROVE  ContentOf' /\ (FirstOf(h) /\ OrderOf(h) /\ MetaOf(h))'
<1>1. /\ workerAt = "freeing" /\ workerAt \in Carrying /\ workerAt' = NextPlace
      /\ UNCHANGED <<outputs, queue, parameters>>
  BY DEF GetsFreed, Carrying
<1>2. Published' = Published /\ Pending' = Pending
  BY <1>1, PublishedStays DEF Pending
<1>3. ~IsPicture(announced[h])
  BY <1>1, HandIsLast DEF ContentOf
<1>4. workerAt' \notin Carrying
  BY <1>1, PlacesApart
<1>5. FirstOf(h)'
  BY <1>1, <1>2, <1>4 DEF FirstOf
<1>6. OrderOf(h)'
  <2> HIDE DEF IsPicture
  <2> QED
    BY <1>1, <1>2, <1>3, <1>4 DEF OrderOf
<1>7. MetaOf(h)'
  BY <1>1, <1>4, PlacesApart DEF MetaOf
<1>8. ContentOf'
  BY <1>4, PlacesApart DEF ContentOf
<1> QED
  BY <1>5, <1>6, <1>7, <1>8

LEMMA StreamPublishes ==
    ASSUME HandInv, EncoderInv, PacketInv, NEW h \in Nat, FirstOf(h), OrderOf(h), MetaOf(h),
           ContentOf, UNCHANGED <<announced, callbacks, delivered>>, Publishes
    PROVE  ContentOf' /\ (FirstOf(h) /\ OrderOf(h) /\ MetaOf(h))'
<1> DEFINE packet == [n |-> inHand.n, meta |-> parameters.pending, length |-> inHand.length]
           p == Published
           l == Len(p)
<1>1. /\ workerAt = "publish" /\ workerAt \in Carrying /\ workerAt' = NextPlace
      /\ queue' = Append(queue, packet) /\ parameters'.pending = {}
      /\ UNCHANGED <<outputs, delivered>>
  BY DEF Publishes, Carrying
<1>2. /\ inHand.n = h /\ h \in Stamps /\ h \in Nat \ {0} /\ h <= Len(announced)
      /\ Content = announced[h]
  BY <1>1, HandIsLast
<1>3. packet \in Packet /\ packet.n = h
  BY <1>1, <1>2, PacketType
<1> HIDE DEF packet
<1>4. Published' = Append(p, h)
  BY <1>1, <1>3, PublishedGrows
<1>5. p \in Seq(Stamps) /\ l \in Nat
  BY StampsForm
<1>7. IsPicture(announced[h])
  BY <1>1, <1>2 DEF ContentOf
<1>8. /\ \A i \in 1..l : p[i] <= h /\ p[i] # h
      /\ \A n \in 1..h : IsPicture(announced[n]) => (\E i \in 1..l : p[i] = n) \/ n = h
  <2> HIDE DEF IsPicture
  <2> QED
    BY <1>1 DEF OrderOf
<1> HIDE DEF p, l, IsPicture
<1>9. /\ Len(Published') = l + 1 /\ Published'[l + 1] = h
      /\ \A i \in 1..l : Published'[i] = p[i]
      /\ \A i \in 1..(l + 1) : i \in 1..l \/ i = l + 1
      /\ \A i \in 1..l : i \in 1..(l + 1)
      /\ l + 1 \in 1..(l + 1)
  BY <1>2, <1>4, <1>5 DEF l
<1>10. workerAt' \notin Carrying
  BY <1>1, PlacesApart
<1>11. OrderOf(h)'
  <2>1. \A i \in 1..(l + 1) : Published'[i] <= h
    BY <1>2, <1>8, <1>9
  <2>2. ASSUME NEW n \in 1..h, IsPicture(announced[n])
        PROVE  \E i \in 1..(l + 1) : Published'[i] = n
    <3>1. CASE n = h
      BY <1>9, <3>1
    <3>2. CASE \E i \in 1..l : p[i] = n
      BY <1>9, <3>2
    <3> QED
      BY <1>8, <2>2, <3>1, <3>2
  <2> QED
    BY <1>9, <1>10, <2>1, <2>2 DEF OrderOf
<1>12. Pending' = Pending
  BY DEF Pending
<1>13. FirstOf(h)'
  BY <1>1, <1>10, <1>12 DEF FirstOf
<1>14. Waiting(announced, h) = {}
  BY <1>2, <1>7, WaitingStops
<1>15. MetaOf(h)'
  BY <1>1, <1>10, <1>14, PlacesApart DEF MetaOf
<1>16. ContentOf'
  BY <1>10, PlacesApart DEF ContentOf
<1> QED
  BY <1>11, <1>13, <1>15, <1>16

LEMMA StreamWorked ==
    ASSUME EncoderInv, HandInv, PacketInv, ContentOf, WorkerMoves,
           NEW h \in Nat, FirstOf(h), OrderOf(h), MetaOf(h)
    PROVE  ContentOf' /\ \E k \in Nat : (FirstOf(k) /\ OrderOf(k) /\ MetaOf(k))'
<1>1. UNCHANGED <<announced, callbacks, delivered>>
  BY DEF WorkerMoves
<1>2. CASE Takes
  <2>1. h + 1 \in Nat
    OBVIOUS
  <2> QED
    BY <1>1, <1>2, <2>1, StreamTakes
<1>3. CASE Skips
  BY <1>1, <1>3, StreamSkips
<1>4. CASE Waits \/ Keeps \/ Admits \/ Copies
  BY <1>1, <1>4, StreamKeeps
<1>5. CASE GetsFreed
  BY <1>1, <1>5, StreamFreed
<1>6. CASE Publishes
  BY <1>1, <1>6, StreamPublishes
<1> QED
  BY <1>2, <1>3, <1>4, <1>5, <1>6 DEF WorkerMoves

LEMMA StreamCalled ==
    ASSUME EncoderInv, EncoderInv', HandInv, PacketInv, ContentOf, CallMoves,
           NEW h \in Nat, FirstOf(h), OrderOf(h), MetaOf(h)
    PROVE  ContentOf' /\ (FirstOf(h) /\ OrderOf(h) /\ MetaOf(h))'
<1>1. UNCHANGED <<workerAt, inHand, parameters, queue, delivered>>
  BY DEF CallMoves
<1>2. Continues(announced, announced')
  <2>1. CASE Announces
    BY <2>1, AnnouncedContinues DEF Announces
  <2>2. CASE UNCHANGED announced
    BY <2>2, ContinuesItself
  <2> QED
    BY <2>1, <2>2 DEF CallMoves, Accepts
<1>3. FirstOf(h)'
  <2>1. CASE Announces
    BY <2>1, FirstAnnounced
  <2>2. CASE Accepts
    BY <2>2, FirstAccepted
  <2>3. CASE UNCHANGED <<Pending, owned, encoderOwns, outputs, announced>>
    BY <1>1, <2>3 DEF FirstOf
  <2> QED
    BY <2>1, <2>2, <2>3 DEF CallMoves
<1>4. Published' = Published
  BY <1>1, PublishedStays
<1>5. OrderOf(h)'
  BY <1>1, <1>2, <1>4, OrderContinues
<1>6. MetaOf(h)' /\ ContentOf'
  BY <1>1, <1>2, MetaContinues
<1> QED
  BY <1>3, <1>5, <1>6

LEMMA StreamLeft ==
    ASSUME EncoderInv, HandInv, PacketInv, ContentOf, Published' = Published,
           UNCHANGED <<workerAt, inHand, parameters, outputs, announced, callbacks>>,
           NEW h \in Nat, FirstOf(h), OrderOf(h), MetaOf(h)
    PROVE  ContentOf' /\ (FirstOf(h) /\ OrderOf(h) /\ MetaOf(h))'
<1>1. Pending' = Pending /\ Content' = Content
  BY DEF Pending, Content
<1>2. FirstOf(h)'
  BY <1>1 DEF FirstOf
<1>3. OrderOf(h)'
  <2> HIDE DEF IsPicture
  <2> QED
    BY DEF OrderOf
<1>4. MetaOf(h)' /\ ContentOf'
  BY <1>1 DEF MetaOf, ContentOf
<1> QED
  BY <1>2, <1>3, <1>4

LEMMA OthersPublish ==
    ASSUME PacketInv, HolderNext \/ ConsumerNext
    PROVE  Published' = Published
<1> USE DEF sharedVars, consumerVars
<1>1. CASE HolderNext
  <2>1. UNCHANGED <<queue, delivered>>
    BY <1>1 DEF HolderNext, OpenAbandoned, OpenReturns, RequestKeyframe, RequestPublisherClose,
         HolderLetsGo, CloseReturns
  <2> QED
    BY <2>1, PublishedStays
<1>2. CASE RecvTakes
  BY <1>2, PublishedTaken
<1>3. CASE ConsumerNext /\ ~RecvTakes
  <2>1. UNCHANGED <<queue, delivered>>
    BY <1>3 DEF ConsumerNext, RecvRegisters, RecvWaits, RecvEnds, RecvCancelled, UnitDropped
  <2> QED
    BY <2>1, PublishedStays
<1> QED
  BY <1>1, <1>2, <1>3

LEMMA StreamInit == PublisherInit => StreamInv
<1> SUFFICES ASSUME PublisherInit PROVE StreamInv
  OBVIOUS
<1>1. Pending = {} /\ outputs = <<>> /\ announced = <<>> /\ workerAt = "setup_encoder"
      /\ parameters.pending = {}
  BY DEF PublisherInit, Pending
<1>2. Published = <<>>
  BY DEF PublisherInit, Published
<1>3. FirstOf(0)
  BY <1>1 DEF FirstOf, Carrying
<1>4. OrderOf(0)
  BY <1>1, <1>2 DEF OrderOf
<1>5. Waiting(announced, 0) = {}
  BY DEF Waiting
<1>6. MetaOf(0) /\ ContentOf
  BY <1>1, <1>5 DEF MetaOf, ContentOf, Carrying
<1> QED
  BY <1>3, <1>4, <1>6 DEF StreamInv

LEMMA StreamStep ==
    ASSUME flags \in Flags, FlagUpdates, EncoderInv, EncoderInv', HandInv, PacketInv,
           StoppedInv, StreamInv, [PublisherNext]_publisherVars
    PROVE  StreamInv'
<1> SUFFICES ASSUME ~Halted'
             PROVE  ContentOf' /\ \E k \in Nat : (FirstOf(k) /\ OrderOf(k) /\ MetaOf(k))'
  BY DEF StreamInv
<1>1. ContentOf /\ \E h \in Nat : FirstOf(h) /\ OrderOf(h) /\ MetaOf(h)
  BY FlagsStep DEF StreamInv
<1>2. PICK h \in Nat : FirstOf(h) /\ OrderOf(h) /\ MetaOf(h)
  BY <1>1
<1>3. CASE HolderNext \/ ConsumerNext
  BY <1>1, <1>2, <1>3, OthersLeave, OthersPublish, StreamLeft
<1>4. CASE EncoderCallNext
  BY <1>1, <1>2, <1>4, CallVarsMove, StreamCalled
<1>5. CASE PublisherWorkerNext
  BY <1>1, <1>2, <1>5, WorkerVarsMove, StreamWorked
<1>6. CASE UNCHANGED publisherVars
  <2>1. /\ Published' = Published
        /\ UNCHANGED <<workerAt, inHand, parameters, outputs, announced, callbacks>>
    BY <1>6, PublishedStays DEF publisherVars
  <2> QED
    BY <1>1, <1>2, <2>1, StreamLeft
<1> QED
  BY <1>3, <1>4, <1>5, <1>6 DEF PublisherNext

-----------------------------------------------------------------------------
(* What has been published stays a stream, also when the pump is stopped.  *)
LEMMA AnnouncedMoves ==
    ASSUME EncoderInv, EncoderMoves
    PROVE  Continues(announced, announced')
<1>1. CASE UNCHANGED announced
  BY <1>1, ContinuesItself
<1>2. CASE EncoderCallNext
  <2>1. \/ UNCHANGED announced
        \/ \E content \in Contents : announced' = Append(announced, content)
    BY <1>2 DEF EncoderCallNext, EncoderCalls, CallbackRuns, EncoderCallExits
  <2> QED
    BY <1>1, <2>1, AnnouncedContinues
<1> QED
  BY <1>1, <1>2 DEF EncoderMoves

LEMMA PictureGoesOut ==
    ASSUME HandInv, EncoderInv, PacketInv, StreamInv, workerAt = "publish", ~Halted,
           queue' = Append(queue, [n |-> inHand.n, meta |-> parameters.pending,
                                   length |-> inHand.length]),
           UNCHANGED delivered, NoPictureIsSkipped
    PROVE  IsStreamOf(Published', announced)
<1> DEFINE packet == [n |-> inHand.n, meta |-> parameters.pending, length |-> inHand.length]
           p == Published
<1>1. PICK h \in Nat : FirstOf(h) /\ OrderOf(h)
  BY DEF StreamInv
<1>2. workerAt \in Carrying
  BY DEF Carrying
<1>3. /\ inHand.n = h /\ h \in Stamps /\ h \in Nat \ {0} /\ h <= Len(announced)
      /\ Content = announced[h]
  BY <1>1, <1>2, HandIsLast
<1>4. packet \in Packet /\ packet.n = h
  BY <1>2, <1>3, PacketType
<1>5. queue' = Append(queue, packet)
  OBVIOUS
<1> HIDE DEF packet
<1>6. Published' = Append(p, h)
  BY <1>4, <1>5, PublishedGrows
<1>7. p \in Seq(Stamps)
  BY StampsForm
<1>8. \A i \in 1..Len(p) : p[i] \in Nat
  <2>1. \A i \in 1..Len(p) : p[i] \in Stamps
    BY <1>7
  <2> QED
    BY <2>1 DEF Stamps
<1>9. IsPicture(announced[h])
  BY <1>3 DEF StreamInv, ContentOf
<1>10. /\ \A i \in 1..Len(p) : p[i] <= h /\ p[i] # h
       /\ \A n \in 1..h : IsPicture(announced[n]) => (\E i \in 1..Len(p) : p[i] = n) \/ n = h
  <2> HIDE DEF IsPicture
  <2> QED
    BY <1>1, <1>2 DEF OrderOf
<1>11. IsStreamOf(p, announced)
  BY DEF NoPictureIsSkipped
<1> HIDE DEF p, IsPicture
<1>12. \A i \in 1..Len(p) : p[i] < h
  BY <1>3, <1>8, <1>10
<1>13. \A m \in 1..(h - 1) : IsPicture(announced[m]) => \E i \in 1..Len(p) : p[i] = m
  <2>1. \A m \in 1..(h - 1) : m \in 1..h /\ m # h
    BY <1>3
  <2> QED
    BY <1>10, <2>1
<1>14. IsStreamOf(Append(p, h), announced)
  BY <1>3, <1>7, <1>9, <1>11, <1>12, <1>13, StreamGrows
<1> QED
  BY <1>6, <1>14

LEMMA SkipStep ==
    ASSUME HandInv, EncoderInv, EncoderInv', PacketInv, PacketInv', StreamInv,
           EncoderMoves, PacketMoves, NoPictureIsSkipped
    PROVE  NoPictureIsSkipped'
<1>1. announced \in Seq(Contents) /\ announced' \in Seq(Contents)
      /\ Continues(announced, announced')
  BY AnnouncedMoves DEF EncoderInv
<1>2. Published \in Seq(Stamps)
  BY StampsForm
<1>3. (Published \in Seq(Stamps))'
  BY StampsForm, PTL
<1>4. IsStreamOf(Published, announced)
  BY DEF NoPictureIsSkipped
<1>5. IsStreamOf(Published', announced)
  <2>1. CASE UNCHANGED <<queue, leases, delivered>> \/ UnitDropped
    <3>1. UNCHANGED <<queue, delivered>>
      BY <2>1 DEF UnitDropped
    <3>2. Published' = Published
      BY <3>1, PublishedStays
    <3> QED
      BY <1>4, <3>2
  <2>2. CASE RecvTakes
    BY <1>4, <2>2, PublishedTaken
  <2>3. CASE /\ workerAt = "publish" /\ ~Halted
             /\ queue' = Append(queue, [n |-> inHand.n, meta |-> parameters.pending,
                                        length |-> inHand.length])
             /\ UNCHANGED <<leases, delivered>>
    BY <2>3, PictureGoesOut
  <2>4. CASE queue' = <<>> /\ UNCHANGED <<leases, delivered>>
    <3>1. /\ Len(Published') <= Len(Published)
          /\ \A i \in 1..Len(Published') : Published'[i] = Published[i]
      BY <2>4, PublishedCut
    <3> QED
      BY <1>2, <1>3, <1>4, <3>1, StreamIsCut
  <2> QED
    BY <2>1, <2>2, <2>3, <2>4 DEF PacketMoves
<1>6. IsStreamOf(Published', announced')
  BY <1>1, <1>3, <1>5, StreamContinues
<1> QED
  BY <1>6 DEF NoPictureIsSkipped

-----------------------------------------------------------------------------
(* Metadata.                                                               *)
Travelling == {queue[i] : i \in 1..Len(queue)} \cup {leases[i] : i \in 1..Len(leases)}

TravelsWell(packet, filled) ==
    packet.n <= Len(filled) /\ packet.meta = Waiting(filled, packet.n - 1)

MetaInv == \A packet \in Travelling : TravelsWell(packet, announced)

LEMMA TravelContinues ==
    ASSUME EncoderInv, EncoderInv', EncoderMoves, NEW packet \in Packet,
           TravelsWell(packet, announced)
    PROVE  TravelsWell(packet, announced')
<1>1. announced \in Seq(Contents) /\ announced' \in Seq(Contents)
      /\ Continues(announced, announced')
  BY AnnouncedMoves DEF EncoderInv
<1>2. packet.n \in Nat /\ packet.n - 1 \in Nat /\ packet.n - 1 <= Len(announced)
  <2>1. packet.n \in Stamps /\ packet.n <= Len(announced) /\ Len(announced) \in Nat
    BY AnnouncedForm DEF Packet, TravelsWell
  <2> QED
    BY <2>1 DEF Stamps
<1>3. Waiting(announced', packet.n - 1) = Waiting(announced, packet.n - 1)
  BY <1>1, <1>2, WaitingContinues
<1>4. Len(announced) <= Len(announced') /\ Len(announced) \in Nat /\ Len(announced') \in Nat
  BY <1>1 DEF Continues
<1>5. packet.n <= Len(announced')
  BY <1>2, <1>4 DEF TravelsWell
<1> QED
  BY <1>3, <1>5 DEF TravelsWell

LEMMA TravelForm ==
    ASSUME PacketInv
    PROVE  Travelling \subseteq Packet
<1>1. /\ \A i \in 1..Len(queue) : queue[i] \in Packet
      /\ \A i \in 1..Len(leases) : leases[i] \in Packet
  BY DEF PacketInv
<1> QED
  BY <1>1 DEF Travelling

LEMMA MembersOf ==
    ASSUME NEW S, NEW s \in Seq(S)
    PROVE  /\ \A e \in S : {Append(s, e)[i] : i \in 1..Len(Append(s, e))}
                             \subseteq {s[i] : i \in 1..Len(s)} \cup {e}
           /\ s # <<>> => /\ {Tail(s)[i] : i \in 1..Len(Tail(s))} \subseteq {s[i] : i \in 1..Len(s)}
                          /\ Head(s) \in {s[i] : i \in 1..Len(s)}
<1>1. ASSUME NEW e \in S, NEW i \in 1..Len(Append(s, e))
      PROVE  Append(s, e)[i] \in {s[j] : j \in 1..Len(s)} \cup {e}
  <2>1. Len(Append(s, e)) = Len(s) + 1 /\ Len(s) \in Nat
    BY AppendProperties, LenProperties
  <2>2. CASE i = Len(s) + 1
    BY <2>2, AppendProperties
  <2>3. CASE i \in 1..Len(s)
    BY <2>3, AppendProperties
  <2> QED
    BY <1>1, <2>1, <2>2, <2>3
<1>2. ASSUME s # <<>>
      PROVE  /\ \A i \in 1..Len(Tail(s)) : Tail(s)[i] \in {s[j] : j \in 1..Len(s)}
             /\ Head(s) \in {s[i] : i \in 1..Len(s)}
  <2>1. /\ Len(Tail(s)) = Len(s) - 1 /\ Len(s) \in Nat /\ Len(s) # 0 /\ Head(s) = s[1]
        /\ \A i \in 1..Len(Tail(s)) : Tail(s)[i] = s[i + 1]
    BY <1>2, HeadTailProperties, LenProperties, EmptySeq
  <2>2. 1 \in 1..Len(s) /\ \A i \in 1..(Len(s) - 1) : i + 1 \in 1..Len(s)
    BY <2>1
  <2> QED
    BY <2>1, <2>2
<1> QED
  BY <1>1, <1>2

LEMMA TravelMoves ==
    ASSUME PacketInv, PacketMoves
    PROVE  \A packet \in Travelling' :
             \/ packet \in Travelling
             \/ /\ workerAt = "publish" /\ ~Halted
                /\ packet = [n |-> inHand.n, meta |-> parameters.pending,
                             length |-> inHand.length]
<1> DEFINE p == [n |-> inHand.n, meta |-> parameters.pending, length |-> inHand.length]
           Of(s) == {s[i] : i \in 1..Len(s)}
<1>1. Travelling = Of(queue) \cup Of(leases) /\ Travelling' = Of(queue') \cup Of(leases')
  BY DEF Travelling
<1>2. queue \in Seq(Packet) /\ leases \in Seq(Packet)
  BY DEF PacketInv
<1>3. CASE UNCHANGED <<queue, leases, delivered>>
  BY <1>1, <1>3
<1>4. CASE RecvTakes
  <2>1. queue # <<>> /\ queue' = Tail(queue) /\ leases' = Append(leases, Head(queue))
    BY <1>4 DEF RecvTakes
  <2>2. Of(Tail(queue)) \subseteq Of(queue) /\ Head(queue) \in Of(queue) /\ Head(queue) \in Packet
    BY <1>2, <2>1, MembersOf, HeadTailProperties
  <2>3. Of(Append(leases, Head(queue))) \subseteq Of(leases) \cup {Head(queue)}
    BY <1>2, <2>2, MembersOf
  <2> HIDE DEF Of
  <2>4. Of(queue') \subseteq Of(queue) /\ Of(leases') \subseteq Of(leases) \cup Of(queue)
    BY <2>1, <2>2, <2>3
  <2> QED
    BY <1>1, <2>4
<1>5. CASE UnitDropped
  <2>1. leases # <<>> /\ leases' = Tail(leases) /\ queue' = queue
    BY <1>5 DEF UnitDropped
  <2>2. Of(Tail(leases)) \subseteq Of(leases)
    BY <1>2, <2>1, MembersOf
  <2> HIDE DEF Of
  <2> QED
    BY <1>1, <2>1, <2>2
<1>6. CASE /\ workerAt = "publish" /\ ~Halted
           /\ queue' = Append(queue, p) /\ UNCHANGED <<leases, delivered>>
  <2>1. \A i \in 1..Len(Append(queue, p)) : Append(queue, p)[i] \in Of(queue) \cup {p}
    <3> HIDE DEF p
    <3>1. /\ Len(Append(queue, p)) = Len(queue) + 1 /\ Len(queue) \in Nat
          /\ Append(queue, p)[Len(queue) + 1] = p
          /\ \A i \in 1..Len(queue) : Append(queue, p)[i] = queue[i]
      BY <1>2
    <3>2. \A i \in 1..(Len(queue) + 1) : i \in 1..Len(queue) \/ i = Len(queue) + 1
      BY <3>1
    <3> QED
      BY <3>1, <3>2
  <2>2. Of(queue') \subseteq Of(queue) \cup {p} /\ leases' = leases
    BY <1>6, <2>1
  <2> HIDE DEF Of
  <2>3. \A packet \in Travelling' : packet \in Travelling \/ packet = p
    BY <1>1, <2>2
  <2> QED
    BY <1>6, <2>3
<1>7. CASE queue' = <<>> /\ UNCHANGED <<leases, delivered>>
  <2>1. Of(queue') = {}
    BY <1>7
  <2> HIDE DEF Of
  <2> QED
    BY <1>1, <1>7, <2>1
<1> QED
  BY <1>3, <1>4, <1>5, <1>6, <1>7 DEF PacketMoves

LEMMA MetaStep ==
    ASSUME HandInv, EncoderInv, EncoderInv', PacketInv, StreamInv, EncoderMoves, PacketMoves,
           MetaInv
    PROVE  MetaInv'
<1> SUFFICES ASSUME NEW packet \in Travelling' PROVE TravelsWell(packet, announced')
  BY DEF MetaInv
<1>1. CASE packet \in Travelling
  BY <1>1, TravelContinues, TravelForm DEF MetaInv
<1>2. CASE /\ workerAt = "publish" /\ ~Halted
           /\ packet = [n |-> inHand.n, meta |-> parameters.pending, length |-> inHand.length]
  <2>1. PICK h \in Nat : FirstOf(h) /\ MetaOf(h)
    BY <1>2 DEF StreamInv
  <2>2. workerAt \in Carrying /\ workerAt \in Carrying \ {"freeing"}
    BY <1>2 DEF Carrying
  <2>3. inHand.n = h /\ h <= Len(announced) /\ packet \in Packet
    BY <1>2, <2>1, <2>2, HandIsLast, PacketType
  <2>4. parameters.pending = Waiting(announced, h - 1)
    BY <2>1, <2>2 DEF MetaOf
  <2>5. packet.n = h /\ packet.meta = parameters.pending
    BY <1>2, <2>3
  <2>6. TravelsWell(packet, announced)
    BY <2>3, <2>4, <2>5 DEF TravelsWell
  <2> QED
    BY <2>3, <2>6, TravelContinues
<1> QED
  BY <1>1, <1>2, TravelMoves

-----------------------------------------------------------------------------
(* The publisher as a whole.                                               *)
LEMMA StoppedStep ==
    ASSUME flags \in Flags, FlagUpdates, StoppedInv, [PublisherNext]_publisherVars
    PROVE  StoppedInv'
<1> DEFINE Last == {"release", "destroy", "wait_idle", "ended"}
<1> SUFFICES ASSUME workerAt' \in Last PROVE Halted'
  BY DEF StoppedInv
<1>1. CASE workerAt \in Last
  BY <1>1, FlagsStep DEF StoppedInv
<1>2. CASE workerAt \notin Last
  <2>1. CASE HolderNext \/ ConsumerNext
    BY <1>2, <2>1, OthersMove
  <2>2. CASE EncoderCallNext
    BY <1>2, <2>2 DEF EncoderCallNext, EncoderCalls, CallbackRuns, EncoderCallExits, threadVars
  <2>3. CASE SetupEncoder \/ SetupCapture \/ StartCapture
    BY <2>3 DEF SetupEncoder, SetupCapture, StartCapture, MovesTo, FailsTo
  <2>4. CASE \/ PumpNext \/ PumpRate \/ PumpKeyframe \/ PumpInspect \/ PumpFreed \/ PumpAdmit
             \/ PumpAdmitKeyframe \/ PumpCopy \/ PumpPublish
    BY <2>4, PumpMoves DEF Pumping
  <2>5. CASE ShutdownBegins
    BY <2>5, Halts DEF ShutdownBegins
  <2>6. CASE ShutdownReleases \/ ShutdownDestroys \/ ShutdownFrees
    BY <1>2, <2>6 DEF ShutdownReleases, ShutdownDestroys, ShutdownFrees
  <2>7. CASE UNCHANGED publisherVars
    BY <1>2, <2>7 DEF publisherVars
  <2> QED
    BY <2>1, <2>2, <2>3, <2>4, <2>5, <2>6, <2>7 DEF PublisherNext, PublisherWorkerNext
<1> QED
  BY <1>1, <1>2

(* The variables no other invariant bounds.                                *)
ScalarInv ==
    /\ sleeping \in BOOLEAN /\ roused \in BOOLEAN
    /\ consumer \in {"idle", "registered", "empty", "waiting"}
    /\ ready \in {"none", "ok", "err"}
    /\ holder \in {"opening", "abandoned", "failed", "open", "closing", "dropped",
                   "Ok", "ReclamationUnconfirmed"}
    /\ requests \in 0..MaxRequests

LEMMA ScalarStep ==
    ASSUME ScalarInv, [PublisherNext]_publisherVars
    PROVE  ScalarInv'
<1> USE DEF ScalarInv, Wake, NotifyChanged, holderVars, consumerVars, threadVars
<1>1. CASE HolderNext
  <2>1. CASE RequestKeyframe
    <3>1. requests' \in 0..MaxRequests
      BY <2>1, PublisherAssumption DEF RequestKeyframe
    <3> QED
      BY <2>1, <3>1 DEF RequestKeyframe
  <2> QED
    BY <1>1, <2>1 DEF HolderNext, OpenAbandoned, OpenReturns, RequestPublisherClose, HolderLetsGo,
         CloseReturns, RequestsClose
<1>2. CASE ConsumerNext
  <2>1. UNCHANGED holderVars
    BY <1>2 DEF ConsumerNext, RecvRegisters, RecvTakes, RecvWaits, RecvEnds, RecvCancelled,
         UnitDropped
  <2>2. sleeping' \in BOOLEAN
    BY <1>2 DEF ConsumerNext, RecvRegisters, RecvTakes, RecvWaits, RecvEnds, RecvCancelled,
         UnitDropped
  <2>3. roused' \in BOOLEAN
    BY <1>2 DEF ConsumerNext, RecvRegisters, RecvTakes, RecvWaits, RecvEnds, RecvCancelled,
         UnitDropped
  <2>4. consumer' \in {"idle", "registered", "empty", "waiting"}
    BY <1>2 DEF ConsumerNext, RecvRegisters, RecvTakes, RecvWaits, RecvEnds, RecvCancelled,
         UnitDropped
  <2> QED
    BY <2>1, <2>2, <2>3, <2>4
<1>3. CASE EncoderCallNext
  <2>1. UNCHANGED <<consumer, holderVars>>
    BY <1>3 DEF EncoderCallNext, EncoderCalls, CallbackRuns, EncoderCallExits, OutputCallback
  <2>2. sleeping' \in BOOLEAN
    BY <1>3 DEF EncoderCallNext, EncoderCalls, CallbackRuns, EncoderCallExits, OutputCallback
  <2>3. roused' \in BOOLEAN
    BY <1>3 DEF EncoderCallNext, EncoderCalls, CallbackRuns, EncoderCallExits, OutputCallback
  <2> QED
    BY <2>1, <2>2, <2>3
<1>4. CASE PublisherWorkerNext
  <2> USE DEF FailsTo, Fails
  <2>1. CASE SetupEncoder \/ SetupCapture \/ StartCapture
    BY <2>1 DEF SetupEncoder, SetupCapture, StartCapture
  <2>2. CASE PumpNext \/ PumpKeyframe
    BY <2>2 DEF PumpNext, PumpKeyframe, TakesOutput
  <2>3. CASE PumpRate \/ PumpInspect \/ PumpFreed
    BY <2>3 DEF PumpRate, PumpInspect, PumpFreed
  <2>4. CASE PumpAdmit \/ PumpAdmitKeyframe \/ PumpCopy \/ PumpPublish
    BY <2>4 DEF PumpAdmit, PumpAdmitKeyframe, PumpCopy, PumpPublish
  <2>5. CASE ShutdownBegins \/ ShutdownReleases \/ ShutdownDestroys \/ ShutdownFrees
    BY <2>5 DEF ShutdownBegins, ShutdownReleases, ShutdownDestroys, ShutdownFrees, RequestsClose,
         Quarantines, Clear, WorkerEnds
  <2> QED
    BY <1>4, <2>1, <2>2, <2>3, <2>4, <2>5 DEF PublisherWorkerNext
<1>5. CASE UNCHANGED publisherVars
  BY <1>5 DEF publisherVars
<1> QED
  BY <1>1, <1>2, <1>3, <1>4, <1>5 DEF PublisherNext

OwnedInv == Cardinality(owned) <= MaxEvents

PublisherInv ==
    /\ StageInv /\ FlowInv /\ StoppedInv /\ ScalarInv /\ OwnedInv
    /\ CreditInv /\ BufferInv /\ NoFalseAccusation /\ SleepInv
    /\ StreamInv /\ NoPictureIsSkipped /\ MetaInv

LEMMA PublisherStarts == PublisherInit => PublisherInv
<1> SUFFICES ASSUME PublisherInit PROVE PublisherInv
  OBVIOUS
<1>1. StageInv
  BY DEF PublisherInit, StageInv, Allocation, Objects, Standing, CaptureAlive, EncoderAlive,
     Pumping
<1>2. FlowInv /\ BufferInv /\ StreamInv
  BY FlowInit, BufferInit, StreamInit
<1>3. StoppedInv /\ ScalarInv /\ NoFalseAccusation
  <2>1. ScalarInv
    <3>1. MaxRequests \in Nat
      BY PublisherAssumption
    <3>2. 0 \in 0..MaxRequests
      BY <3>1
    <3> QED
      BY <3>2 DEF PublisherInit, ScalarInv
  <2>2. StoppedInv
    BY DEF PublisherInit, StoppedInv
  <2>3. NoFalseAccusation
    BY DEF PublisherInit, NoFalseAccusation
  <2> QED
    BY <2>1, <2>2, <2>3
<1>4. OwnedInv
  <2>1. Cardinality(owned) = 0
    BY FS_EmptySet DEF PublisherInit
  <2> QED
    BY <2>1, PublisherAssumption DEF OwnedInv
<1>5. CreditInv
  <2>1. /\ queue = <<>> /\ leases = <<>> /\ units = 0 /\ bytes = 0
        /\ InProgress = 0 /\ Charge = 0
    BY DEF PublisherInit, InProgress, Charge, Charged
  <2>2. Len(queue) = 0 /\ Len(leases) = 0 /\ BytesOf(queue) = 0 /\ BytesOf(leases) = 0
    BY <2>1, BytesEmpty
  <2> QED
    BY <2>1, <2>2, PublisherAssumption DEF CreditInv
<1>6. SleepInv
  BY DEF PublisherInit, SleepInv, MissedInv, SleepIsJustified
<1>7. NoPictureIsSkipped
  <2>1. Published = <<>>
    BY DEF PublisherInit, Published
  <2> QED
    BY <2>1 DEF NoPictureIsSkipped, IsStreamOf
<1>8. MetaInv
  BY DEF PublisherInit, MetaInv, Travelling
<1> QED
  BY <1>1, <1>2, <1>3, <1>4, <1>5, <1>6, <1>7, <1>8 DEF PublisherInv

LEMMA PublisherStep == PublisherInv /\ [PublisherNext]_publisherVars => PublisherInv'
<1> SUFFICES ASSUME PublisherInv, [PublisherNext]_publisherVars PROVE PublisherInv'
  OBVIOUS
<1>1. /\ StageInv /\ FlowInv /\ StoppedInv /\ ScalarInv /\ OwnedInv
      /\ CreditInv /\ BufferInv /\ NoFalseAccusation /\ SleepInv
      /\ StreamInv /\ NoPictureIsSkipped /\ MetaInv
  BY DEF PublisherInv
<1>2. flags \in Flags /\ EncoderInv /\ HandInv /\ PacketInv
  BY <1>1 DEF FlowInv, ConsentInv
<1>3. FlagUpdates /\ EncoderMoves /\ PacketMoves /\ CreditMoves
  BY FlagsMove, EncoderVarsMove, PacketVarsMove, CreditVarsMove
<1>4. FlowInv' /\ StageInv'
  BY <1>1, FlowStep, StageStep
<1>5. EncoderInv' /\ PacketInv'
  BY <1>4 DEF FlowInv
<1>6. StoppedInv'
  BY <1>1, <1>2, <1>3, StoppedStep
<1>7. ScalarInv'
  BY <1>1, ScalarStep
<1>8. OwnedInv'
  BY <1>1, <1>2, <1>3, OwnedStep DEF OwnedInv
<1>9. CreditInv'
  BY <1>1, <1>2, <1>3, <1>5, CreditStep
<1>10. BufferInv'
  BY <1>1, <1>2, <1>3, BufferStep
<1>11. NoFalseAccusation'
  BY <1>1, <1>2, <1>3, AccusationStep
<1>12. SleepInv'
  BY <1>1, <1>2, <1>3, SleepStep
<1>13. StreamInv'
  BY <1>1, <1>2, <1>3, <1>5, StreamStep
<1>14. NoPictureIsSkipped'
  BY <1>1, <1>2, <1>3, <1>5, SkipStep
<1>15. MetaInv'
  BY <1>1, <1>2, <1>3, <1>5, MetaStep
<1> QED
  BY <1>4, <1>6, <1>7, <1>8, <1>9, <1>10, <1>11, <1>12, <1>13, <1>14, <1>15 DEF PublisherInv

LEMMA PublisherInvHolds == PublisherInv => PublisherIsSound
<1> SUFFICES ASSUME PublisherInv PROVE PublisherIsSound
  OBVIOUS
<1>1. /\ StageInv /\ FlowInv /\ ScalarInv /\ OwnedInv /\ CreditInv
      /\ NoFalseAccusation /\ SleepInv /\ NoPictureIsSkipped /\ MetaInv
  BY DEF PublisherInv
<1>2. flags \in Flags /\ EncoderInv /\ HandInv /\ PacketInv
  BY <1>1 DEF FlowInv, ConsentInv
<1>3. /\ CreditsAreConserved
      /\ units \in 0..MaxEncodedUnits /\ bytes \in 0..MaxEncodedBytes
      /\ Len(queue) <= MaxEncodedUnits
  BY <1>1, <1>2, CreditsHold
<1>4. MetadataTravelsOnce
  BY <1>1 DEF MetaInv, TravelsWell, Travelling, Waiting, MetadataTravelsOnce
<1>5. callbacks \subseteq [event : EncoderOutputs \cup Signals, n : Nat, done : BOOLEAN]
  <2>1. Stamps \subseteq Nat
    BY DEF Stamps
  <2>2. [event : EncoderOutputs, n : Stamps, done : BOOLEAN]
          \subseteq [event : EncoderOutputs \cup Signals, n : Nat, done : BOOLEAN]
    BY <2>1
  <2>3. [event : Signals, n : Nat, done : BOOLEAN]
          \subseteq [event : EncoderOutputs \cup Signals, n : Nat, done : BOOLEAN]
    OBVIOUS
  <2> QED
    BY <1>2, <2>2, <2>3 DEF EncoderInv, Entered
<1>6. workerAt \in {"setup_encoder", "setup_capture", "start_capture", "next", "rate",
               "keyframe", "inspect", "freeing", "admit", "admit_keyframe", "copy",
               "publish", "shutdown", "release", "destroy", "wait_idle", "ended"}
  BY <1>1 DEF StageInv, Pumping
<1>7. PublisherTypeOK
  <2>1. /\ flags \in Flags
        /\ queue \in Seq(Packet) /\ Len(queue) <= MaxEncodedUnits
        /\ outputs \in Seq(Filled)
        /\ owned \subseteq EncoderOutputs /\ Cardinality(owned) <= MaxEvents
        /\ inHand = NoBuffer \/ inHand \in Taken
        /\ parameters \in [sets : BOOLEAN, pending : SUBSET Stamps]
        /\ objects \in Objects
        /\ announced \in Seq(Contents) /\ Len(announced) <= MaxAnnounced
        /\ encoderOwns \subseteq EncoderOutputs
        /\ signals \in 0..MaxSignals
        /\ leases \in Seq(Packet) /\ Len(leases) <= MaxLeases
        /\ delivered \in Seq(Stamps)
    BY <1>1, <1>2, <1>3 DEF StageInv, EncoderInv, HandInv, PacketInv, OwnedInv
  <2> QED
    BY <1>1, <1>3, <1>5, <1>6, <2>1
       DEF PublisherTypeOK, ScalarInv, Flags, Filled, Taken, Objects
<1>8. SleepIsJustified
  BY <1>1 DEF SleepInv
<1> QED
  BY <1>1, <1>3, <1>4, <1>7, <1>8 DEF PublisherIsSound

(* However the worker, the encoder's and the capture's callbacks, the      *)
(* consumer and the holder interleave, and wherever a call fails: no       *)
(* credit leaks, no picture is skipped, repeated or overtaken, metadata    *)
(* travels once, the encoder is not accused of what it did not do, and the *)
(* worker sleeps on no work but a refresh that it missed (State, pump,     *)
(* free, publish, clear, recv and Drop for EncodedUnit of                  *)
(* ohos_publisher.rs).                                                     *)
THEOREM PublisherTheorem == PublisherSpec => []PublisherIsSound
BY PublisherStarts, PublisherStep, PublisherInvHolds, PTL DEF PublisherSpec
=============================================================================
