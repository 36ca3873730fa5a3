---------------------------- MODULE Device_proofs ----------------------------
(***************************************************************************)
(* Proofs about what runs on one device: the Windows producer, its bitrate *)
(* and the telemetry of a session, the colours of its pictures, the        *)
(* settings of a session, the input of the user and the files of the       *)
(* desktop client.                                                         *)
(*                                                                         *)
(* Each native call is a function from a state of the native libraries to  *)
(* the set of states it may leave behind.  The lemmas say of each what     *)
(* every one of those states keeps; the invariant then says where in its   *)
(* life the worker may hold what.                                          *)
(*                                                                         *)
(* Settings and input travel in queues.  What will be true when a queue is *)
(* written depends on its last message about a thing, so the invariants    *)
(* speak of that message, and the lemmas on queues of what appending one   *)
(* and taking the first do to it.                                          *)
(***************************************************************************)
EXTENDS MCDevice, TLAPS, FiniteSetTheorems

-----------------------------------------------------------------------------
(* Types.                                                                  *)

NativeStates == [cap : {"none", "open", "closed"}, enc : {"none", "live", "gone"},
            lease : {"none", "encoder", "orphan"}, loan : BOOLEAN, mapped : BOOLEAN,
            faults : 0..MaxFaults]

Pipelines == [opened : BOOLEAN, force : BOOLEAN, next : Nat, due : BOOLEAN]

Shareds == [queue : Seq(Units), charged : 0..MaxUnits, closing : BOOLEAN, closed : BOOLEAN,
            keyframe : BOOLEAN, failure : {"none", "failed", "reclaim"},
            quarantine : {"none", "capture", "encoder", "pipeline"}]

Workers == [pc : {"open", "loop", "next", "space", "waiting", "teardown", "done"},
            unit : Units \cup {NoUnit}, woken : BOOLEAN, failure : {"none", "failed"}]

WinTypes ==
    /\ native \in NativeStates /\ pipeline \in Pipelines
    /\ shared \in Shareds /\ worker \in Workers
    /\ owner \in {"opening", "using", "closing", "ok", "unconfirmed", "refused"}
    /\ units \in Nat /\ clock \in 0..MaxPts

(* A frame whose output is on loan or whose texture is mapped is with the  *)
(* encoder, such an encoder lives, and a capture closes only when it has   *)
(* every lease back.                                                       *)
Kept(n) ==
    /\ n.loan \/ n.mapped => n.lease = "encoder"
    /\ n.lease = "encoder" => n.enc = "live"
    /\ n.cap = "closed" => n.lease = "none"

(* A pipeline that was opened: the encoder goes before the capture.        *)
Piped(n) ==
    /\ n.cap \in {"open", "closed"} /\ n.enc \in {"live", "gone"}
    /\ n.enc = "live" => n.cap = "open"

(* Between two frames nothing is with the encoder.                         *)
Idle(n) ==
    /\ n.cap = "open" /\ n.enc = "live"
    /\ n.lease # "encoder" /\ ~n.loan /\ ~n.mapped

Untouched(n) ==
    n.cap = "none" /\ n.enc = "none" /\ n.lease = "none" /\ ~n.loan /\ ~n.mapped

Running == {"loop", "next", "space", "waiting"}

(* What each phase of the worker may have in its hands.                    *)
PhaseKeeps ==
    /\ worker.pc = "open" => Untouched(native) /\ ~pipeline.opened /\ owner = "opening"
    /\ owner = "opening" => worker.pc = "open" /\ shared.quarantine = "none"
    /\ worker.pc \in Running \cup {"teardown"}
         => pipeline.opened /\ native.cap = "open" /\ native.enc = "live"
    /\ worker.pc \in Running => Idle(native)
    /\ worker.pc \in {"space", "waiting"} => worker.unit \in Units
    /\ worker.pc \in Running \cup {"teardown"} => owner \in {"using", "closing"}

(* The charge is what waits in the queue and what the consumer holds.      *)
ChargeIsExact == shared.charged = Len(shared.queue) + units

(* Whatever a pipeline that was torn down has not given back is in         *)
(* quarantine until close() has given it back.                             *)
QuarantineIsTold ==
    /\ pipeline.opened => Piped(native) /\ shared.quarantine \in {"none", "pipeline"}
    /\ shared.quarantine = "pipeline" => pipeline.opened
    /\ (pipeline.opened /\ worker.pc = "done" /\ shared.quarantine = "none")
         => PipelineClosed(native)
    /\ (owner = "ok" /\ pipeline.opened) => worker.pc = "done" /\ shared.quarantine = "none"
    /\ ~pipeline.opened => ~native.loan /\ ~native.mapped /\ native.lease = "none"

WinInv ==
    /\ WinTypes /\ Kept(native)
    /\ PhaseKeeps /\ ChargeIsExact /\ QuarantineIsTold /\ SleepMeansFull

-----------------------------------------------------------------------------
(* The native calls.                                                       *)

LEMMA FaultKeeps ==
    ASSUME NEW n \in NativeStates, MayFault(n)
    PROVE  /\ Fault(n) \in NativeStates
           /\ Fault(n).cap = n.cap /\ Fault(n).enc = n.enc /\ Fault(n).lease = n.lease
           /\ Fault(n).loan = n.loan /\ Fault(n).mapped = n.mapped
BY ProducerConstants DEF NativeStates, MayFault, Fault

(* A release takes the lease from the frame, to the capture or its owner.  *)
LEMMA ReleaseLeaseKeeps ==
    ASSUME NEW n \in NativeStates, NEW m \in ReleaseLease(n)
    PROVE  /\ m \in NativeStates /\ m.lease \in {"none", "orphan"}
           /\ m.cap = n.cap /\ m.enc = n.enc /\ m.loan = n.loan /\ m.mapped = n.mapped
<1>1. CASE m = [n EXCEPT !.lease = "none"]
  BY <1>1 DEF NativeStates
<1>2. CASE MayFault(n) /\ m = [Fault(n) EXCEPT !.lease = "orphan"]
  <2> DEFINE f == Fault(n)
  <2>1. /\ f \in NativeStates /\ f.cap = n.cap /\ f.enc = n.enc
        /\ f.loan = n.loan /\ f.mapped = n.mapped
    BY <1>2, FaultKeeps
  <2>2. m = [f EXCEPT !.lease = "orphan"]
    BY <1>2
  <2> HIDE DEF f
  <2> QED
    BY <2>1, <2>2 DEF NativeStates
<1> QED
  BY <1>1, <1>2 DEF ReleaseLease

LEMMA RetryOrphanKeeps ==
    ASSUME NEW n \in NativeStates, NEW m \in RetryOrphan(n)
    PROVE  /\ m \in NativeStates
           /\ m.lease = n.lease \/ (n.lease = "orphan" /\ m.lease = "none")
           /\ m.cap = n.cap /\ m.enc = n.enc /\ m.loan = n.loan /\ m.mapped = n.mapped
<1>1. CASE n.lease = "orphan"
  BY <1>1, ReleaseLeaseKeeps DEF RetryOrphan
<1>2. CASE n.lease # "orphan"
  BY <1>2 DEF RetryOrphan
<1> QED
  BY <1>1, <1>2

(* A capture closes only when no lease is out.                             *)
LEMMA CloseCaptureKeeps ==
    ASSUME NEW n \in NativeStates, NEW m \in CloseCapture(n)
    PROVE  /\ m \in NativeStates /\ m.lease = n.lease /\ m.enc = n.enc
           /\ m.loan = n.loan /\ m.mapped = n.mapped
           /\ m.cap = n.cap \/ (m.cap = "closed" /\ n.lease = "none")
<1>1. CASE m = [n EXCEPT !.cap = "closed"] /\ n.lease = "none"
  BY <1>1 DEF NativeStates
<1>2. CASE MayFault(n) /\ m = Fault(n)
  BY <1>2, FaultKeeps
<1>3. CASE m = n
  BY <1>3
<1>4. (n.lease = "none" /\ m = [n EXCEPT !.cap = "closed"]) \/ (MayFault(n) /\ m = Fault(n))
        \/ m = n
  <2>1. m \in {k \in {[n EXCEPT !.cap = "closed"]} : n.lease = "none"}
        \/ (MayFault(n) /\ m = Fault(n)) \/ m = n
    BY DEF CloseCapture
  <2> QED
    BY <2>1
<1> QED
  BY <1>1, <1>2, <1>3, <1>4

LEMMA CaptureOwnerCloseKeeps ==
    ASSUME NEW n \in NativeStates, NEW m \in CaptureOwnerClose(n)
    PROVE  /\ m \in NativeStates /\ m.enc = n.enc /\ m.loan = n.loan /\ m.mapped = n.mapped
           /\ m.lease = n.lease \/ (n.lease = "orphan" /\ m.lease = "none")
           /\ m.cap = n.cap \/ (m.cap = "closed" /\ m.lease = "none")
<1>1. PICK k \in RetryOrphan(n) : m \in IF k.lease = "orphan" THEN {k} ELSE CloseCapture(k)
  BY DEF CaptureOwnerClose
<1>2. /\ k \in NativeStates
      /\ k.lease = n.lease \/ (n.lease = "orphan" /\ k.lease = "none")
      /\ k.cap = n.cap /\ k.enc = n.enc /\ k.loan = n.loan /\ k.mapped = n.mapped
  BY RetryOrphanKeeps
<1>3. CASE k.lease = "orphan"
  BY <1>1, <1>2, <1>3
<1>4. CASE k.lease # "orphan"
  <2>1. m \in CloseCapture(k)
    BY <1>1, <1>4
  <2>2. /\ m \in NativeStates /\ m.lease = k.lease /\ m.enc = k.enc
        /\ m.loan = k.loan /\ m.mapped = k.mapped
        /\ m.cap = k.cap \/ (m.cap = "closed" /\ k.lease = "none")
    BY <1>2, <2>1, CloseCaptureKeeps
  <2> QED
    BY <1>2, <2>2
<1> QED
  BY <1>3, <1>4

LEMMA ReleaseOutputKeeps ==
    ASSUME NEW n \in NativeStates, NEW m \in ReleaseOutput(n)
    PROVE  /\ m \in NativeStates /\ m.lease = n.lease /\ m.enc = n.enc
           /\ m.cap = n.cap /\ m.mapped = n.mapped
           /\ m.loan => n.loan
<1>1. CASE m = [n EXCEPT !.loan = FALSE]
  BY <1>1 DEF NativeStates
<1>2. CASE MayFault(n) /\ m = Fault(n)
  BY <1>2, FaultKeeps
<1> QED
  BY <1>1, <1>2 DEF ReleaseOutput

LEMMA ShutdownEncoderKeeps ==
    ASSUME NEW n \in NativeStates, NEW m \in ShutdownEncoder(n)
    PROVE  /\ m \in NativeStates /\ m.lease = n.lease /\ m.cap = n.cap /\ m.loan = n.loan
           /\ \/ m.enc = n.enc /\ m.mapped = n.mapped
              \/ m.enc = "gone" /\ ~m.mapped
<1>1. CASE m = [n EXCEPT !.enc = "gone", !.mapped = FALSE]
  BY <1>1 DEF NativeStates
<1>2. CASE MayFault(n) /\ m = Fault(n)
  BY <1>2, FaultKeeps
<1> QED
  BY <1>1, <1>2 DEF ShutdownEncoder

(* The encoder gives back the loan, then itself, then the frame.           *)
LEMMA EncoderCloseKeeps ==
    ASSUME NEW n \in NativeStates, Kept(n), n.enc = "live", n.cap = "open",
           NEW m \in EncoderClose(n)
    PROVE  /\ m \in NativeStates /\ Kept(m) /\ m.cap = "open" /\ m.enc \in {"live", "gone"}
<1> DEFINE loaned == IF n.loan THEN ReleaseOutput(n) ELSE {n}
           shutOf(k) == IF k.loan \/ k.enc # "live" THEN {k} ELSE ShutdownEncoder(k)
           freedOf(k) == IF k.enc = "live" \/ k.lease # "encoder" THEN {k} ELSE ReleaseFrame(k)
<1>1. m \in UNION {freedOf(k) : k \in UNION {shutOf(j) : j \in loaned}}
  BY DEF EncoderClose
<1>2. PICK j, k : j \in loaned /\ k \in shutOf(j) /\ m \in freedOf(k)
  BY <1>1
<1>3. /\ j \in NativeStates /\ j.lease = n.lease /\ j.enc = "live" /\ j.cap = "open"
      /\ j.mapped = n.mapped /\ (j.loan => n.loan)
  BY <1>2, ReleaseOutputKeeps
<1>4. /\ k \in NativeStates /\ k.lease = j.lease /\ k.cap = "open" /\ k.loan = j.loan
      /\ \/ k = j
         \/ ~k.loan /\ (\/ k.enc = "live" /\ k.mapped = j.mapped
                        \/ k.enc = "gone" /\ ~k.mapped)
  <2>1. CASE j.loan
    BY <1>2, <1>3, <2>1
  <2>2. CASE ~j.loan
    <3>1. k \in ShutdownEncoder(j)
      BY <1>2, <1>3, <2>2
    <3> QED
      BY <1>3, <2>2, <3>1, ShutdownEncoderKeeps
  <2> QED
    BY <1>3, <2>1, <2>2 DEF NativeStates
<1>5. CASE k.enc = "live"
  <2>1. m = k
    BY <1>2, <1>5
  <2> QED
    BY <1>3, <1>4, <1>5, <2>1 DEF Kept
<1>6. CASE k.enc # "live"
  <2>1. k.enc = "gone" /\ ~k.mapped /\ ~k.loan
    BY <1>3, <1>4, <1>6
  <2>2. CASE k.lease = "encoder"
    <3>1. m \in ReleaseLease(k)
      BY <1>2, <1>6, <2>2 DEF ReleaseFrame
    <3> QED
      BY <1>4, <2>1, <3>1, ReleaseLeaseKeeps DEF Kept
  <2>3. CASE k.lease # "encoder"
    <3>1. m = k
      BY <1>2, <2>3
    <3> QED
      BY <1>4, <2>1, <2>3, <3>1 DEF Kept
  <2> QED
    BY <2>2, <2>3
<1> QED
  BY <1>5, <1>6

(* The pipeline closes its encoder before its capture, whatever fails.     *)
LEMMA PipelineCloseKeeps ==
    ASSUME NEW n \in NativeStates, Kept(n), Piped(n), NEW m \in PipelineClose(n)
    PROVE  /\ m \in NativeStates /\ Kept(m) /\ Piped(m)
<1>1. PICK k \in (IF EncoderClosed(n) THEN {n} ELSE EncoderClose(n)) :
        m \in IF EncoderClosed(k) /\ k.cap = "open" THEN CaptureOwnerClose(k) ELSE {k}
  BY DEF PipelineClose
<1>2. k \in NativeStates /\ Kept(k) /\ Piped(k)
  <2>1. CASE EncoderClosed(n)
    BY <1>1, <2>1
  <2>2. CASE ~EncoderClosed(n)
    <3>1. n.enc = "live" /\ n.cap = "open"
      BY <2>2 DEF EncoderClosed, Kept, Piped
    <3> QED
      BY <1>1, <2>2, <3>1, EncoderCloseKeeps DEF Piped
  <2> QED
    BY <2>1, <2>2
<1>3. CASE EncoderClosed(k) /\ k.cap = "open"
  <2>1. m \in CaptureOwnerClose(k)
    BY <1>1, <1>3
  <2> QED
    BY <1>2, <1>3, <2>1, CaptureOwnerCloseKeeps DEF Kept, Piped, EncoderClosed
<1>4. CASE ~(EncoderClosed(k) /\ k.cap = "open")
  BY <1>1, <1>2, <1>4
<1> QED
  BY <1>3, <1>4

-----------------------------------------------------------------------------
(* The actions.                                                            *)

LEMMA NotifySpaceKeeps ==
    ASSUME worker \in Workers, NotifySpace
    PROVE  /\ worker' \in Workers /\ worker'.pc = worker.pc /\ worker'.unit = worker.unit
           /\ worker'.pc = "waiting" => worker'.woken
BY DEF NotifySpace, Workers

(* The ends of open_native: whatever is left of a failed opening was never *)
(* a pipeline.                                                             *)
LEMMA FailKeeps ==
    ASSUME WinInv, worker.pc = "open", NEW failure \in {"failed", "reclaim"},
           NEW quarantine \in {"none", "capture", "encoder"},
           Fail(failure, quarantine),
           native' \in NativeStates, native'.lease = "none", ~native'.loan, ~native'.mapped
    PROVE  WinInv'
<1>1. /\ WinTypes /\ Untouched(native) /\ ~pipeline.opened /\ owner = "opening"
  BY DEF WinInv, PhaseKeeps
<1>2. /\ shared' \in Shareds /\ shared'.queue = shared.queue
      /\ shared'.charged = shared.charged
  BY <1>1 DEF Fail, WinTypes, Shareds
<1>3. worker' \in Workers /\ worker'.pc = "done"
  BY <1>1 DEF Fail, WinTypes, Workers
<1>4. owner' \in {"using", "refused"} /\ UNCHANGED <<pipeline, units, clock>>
  BY DEF Fail
<1>5. WinTypes'
  BY <1>1, <1>2, <1>3, <1>4 DEF WinTypes
<1>6. Kept(native)'
  BY DEF Kept
<1>7. PhaseKeeps'
  BY <1>1, <1>3, <1>4 DEF PhaseKeeps, Running
<1>8. ChargeIsExact'
  BY <1>2, <1>4 DEF WinInv, ChargeIsExact
<1>9. QuarantineIsTold'
  <2>1. shared'.quarantine = quarantine
    BY <1>1 DEF Fail, WinTypes, Shareds
  <2> QED
    BY <1>1, <1>4, <2>1 DEF QuarantineIsTold
<1>10. SleepMeansFull'
  BY <1>3 DEF SleepMeansFull
<1> QED
  BY <1>5, <1>6, <1>7, <1>8, <1>9, <1>10 DEF WinInv

LEMMA OpeningKeeps ==
    ASSUME WinInv, OpenFails \/ CaptureRejected \/ EncoderFails \/ EncoderQuarantined \/ Opens
    PROVE  WinInv'
<1>1. /\ WinTypes /\ Untouched(native) /\ ~pipeline.opened /\ owner = "opening"
      /\ worker.pc = "open" /\ shared.quarantine = "none" /\ native \in NativeStates
  BY DEF WinInv, PhaseKeeps, WinTypes, OpenFails, CaptureRejected, EncoderFails,
         EncoderQuarantined, Opens
<1>2. CASE OpenFails
  BY <1>1, <1>2, FailKeeps DEF OpenFails, Untouched
<1> DEFINE c == [native EXCEPT !.cap = "open"]
           e == [native EXCEPT !.cap = "open", !.enc = "live"]
<1>3. /\ c \in NativeStates /\ c.lease = "none" /\ ~c.loan /\ ~c.mapped
      /\ e \in NativeStates /\ e.lease = "none" /\ ~e.loan /\ ~e.mapped
      /\ e.cap = "open" /\ e.enc = "live"
  BY <1>1 DEF NativeStates, Untouched
<1>4. CASE CaptureRejected
  <2>1. native' \in CloseCapture(c)
    BY <1>4 DEF CaptureRejected
  <2> HIDE DEF c, e
  <2>2. native' \in NativeStates /\ native'.lease = "none" /\ ~native'.loan /\ ~native'.mapped
    BY <1>3, <2>1, CloseCaptureKeeps
  <2>3. Fail("failed", "none") \/ Fail("reclaim", "capture")
    BY <1>4 DEF CaptureRejected
  <2> QED
    BY <1>1, <2>2, <2>3, FailKeeps
<1>5. CASE EncoderFails
  <2>1. native' \in CaptureOwnerClose(c) /\ Fail("failed", "none")
    BY <1>5 DEF EncoderFails
  <2> HIDE DEF c, e
  <2>2. native' \in NativeStates /\ native'.lease = "none" /\ ~native'.loan /\ ~native'.mapped
    BY <1>3, <2>1, CaptureOwnerCloseKeeps
  <2> QED
    BY <1>1, <2>1, <2>2, FailKeeps
<1>6. CASE EncoderQuarantined
  <2>1. native' \in CaptureOwnerClose(e) /\ Fail("reclaim", "encoder")
    BY <1>6 DEF EncoderQuarantined
  <2> HIDE DEF c, e
  <2>2. native' \in NativeStates /\ native'.lease = "none" /\ ~native'.loan /\ ~native'.mapped
    BY <1>3, <2>1, CaptureOwnerCloseKeeps
  <2> QED
    BY <1>1, <2>1, <2>2, FailKeeps
<1>7. CASE Opens
  <2>1. native' = e /\ UNCHANGED <<shared, units, clock>> /\ owner' = "using"
    BY <1>7 DEF Opens
  <2>2. pipeline' \in Pipelines /\ pipeline'.opened
    BY <1>1, <1>7 DEF Opens, WinTypes, Pipelines
  <2>3. worker' \in Workers /\ worker'.pc = "loop"
    BY <1>1, <1>7 DEF Opens, WinTypes, Workers
  <2> HIDE DEF c, e
  <2>4. WinTypes'
    BY <1>1, <1>3, <2>1, <2>2, <2>3 DEF WinTypes
  <2>5. Kept(native)' /\ Piped(native)' /\ Idle(native)'
    BY <1>3, <2>1 DEF Kept, Piped, Idle
  <2>6. PhaseKeeps'
    BY <1>3, <2>1, <2>2, <2>3, <2>5 DEF PhaseKeeps, Running, Idle
  <2>7. ChargeIsExact'
    BY <2>1 DEF WinInv, ChargeIsExact
  <2>8. QuarantineIsTold'
    BY <1>1, <2>1, <2>2, <2>3, <2>5 DEF QuarantineIsTold
  <2>9. SleepMeansFull'
    BY <2>3 DEF SleepMeansFull
  <2> QED
    BY <2>4, <2>5, <2>6, <2>7, <2>8, <2>9 DEF WinInv
<1> QED
  BY <1>2, <1>4, <1>5, <1>6, <1>7

(* A step of the running worker that leaves the queue alone.               *)
LEMMA RunningKeeps ==
    ASSUME WinInv, worker.pc \in Running,
           native' \in NativeStates, native'.cap = "open", native'.enc = "live", Kept(native'),
           worker' \in Workers, worker'.pc \in {"loop", "next", "space", "teardown"},
           worker'.pc # "teardown" => Idle(native'),
           worker'.pc = "space" => worker'.unit \in Units,
           pipeline' \in Pipelines, pipeline'.opened = pipeline.opened,
           shared' \in Shareds, shared'.queue = shared.queue,
           shared'.charged = shared.charged, shared'.quarantine = shared.quarantine,
           owner' = owner, units' = units, clock' \in 0..MaxPts
    PROVE  WinInv'
<1>1. WinTypes /\ pipeline.opened /\ owner \in {"using", "closing"}
  BY DEF WinInv, PhaseKeeps
<1>2. WinTypes'
  BY <1>1 DEF WinTypes
<1>3. PhaseKeeps'
  BY <1>1 DEF PhaseKeeps, Running, Idle
<1>4. ChargeIsExact'
  BY DEF WinInv, ChargeIsExact
<1>5. Piped(native')
  BY DEF Piped
<1>6. QuarantineIsTold'
  BY <1>1, <1>5 DEF WinInv, QuarantineIsTold
<1>7. SleepMeansFull'
  BY DEF SleepMeansFull
<1> QED
  BY <1>2, <1>3, <1>4, <1>6, <1>7 DEF WinInv

LEMMA BackKeeps ==
    ASSUME worker \in Workers, NEW pc \in {"loop", "teardown"},
           NEW failure \in {"none", "failed"}, Back(pc, failure)
    PROVE  worker' \in Workers /\ worker'.pc = pc
BY DEF Back, Workers

LEMMA LoopHeadKeeps ==
    ASSUME WinInv, LoopHead
    PROVE  WinInv'
<1>1. worker.pc = "loop" /\ worker.pc \in Running /\ WinTypes /\ Kept(native) /\ Idle(native)
  BY DEF LoopHead, Running, WinInv, PhaseKeeps
<1>2. worker' \in Workers /\ worker'.pc \in {"next", "teardown"}
  BY <1>1 DEF LoopHead, WinTypes, Workers
<1>3. pipeline' \in Pipelines /\ pipeline'.opened = pipeline.opened
  BY <1>1 DEF LoopHead, WinTypes, Pipelines, Forces, Shareds
<1>4. /\ shared' \in Shareds /\ shared'.queue = shared.queue
      /\ shared'.charged = shared.charged /\ shared'.quarantine = shared.quarantine
  BY <1>1 DEF LoopHead, WinTypes, Shareds
<1>5. UNCHANGED <<native, owner, units, clock>>
  BY DEF LoopHead
<1> QED
  BY <1>1, <1>2, <1>3, <1>4, <1>5, RunningKeeps DEF WinTypes, Idle

LEMMA NoTextureKeeps ==
    ASSUME WinInv, NoTexture
    PROVE  WinInv'
<1>1. worker.pc \in Running /\ WinTypes /\ Kept(native) /\ Idle(native)
  BY DEF NoTexture, Running, WinInv, PhaseKeeps
<1>2. /\ native' \in NativeStates /\ native'.cap = "open" /\ native'.enc = "live"
      /\ Idle(native') /\ Kept(native')
  BY <1>1, RetryOrphanKeeps DEF NoTexture, WinTypes, Idle, Kept
<1>3. worker' \in Workers /\ worker'.pc \in {"loop", "teardown"}
  BY <1>1, BackKeeps DEF NoTexture, WinTypes
<1>4. UNCHANGED <<pipeline, shared, owner, units, clock>>
  BY DEF NoTexture
<1> QED
  BY <1>1, <1>2, <1>3, <1>4, RunningKeeps DEF WinTypes

LEMMA ReleasedFrameKeeps ==
    ASSUME WinInv, FrameRejected \/ FrameThinned
    PROVE  WinInv'
<1>1. worker.pc \in Running /\ WinTypes /\ Kept(native) /\ Idle(native)
  BY DEF FrameRejected, FrameThinned, Running, WinInv, PhaseKeeps
<1>2. native' \in ReleaseLease(native)
  BY DEF FrameRejected, FrameThinned, RetainFailed, DropFrame
<1>3. /\ native' \in NativeStates /\ native'.cap = "open" /\ native'.enc = "live"
      /\ Idle(native') /\ Kept(native')
  BY <1>1, <1>2, ReleaseLeaseKeeps DEF WinTypes, Idle, Kept
<1>4. worker' \in Workers /\ worker'.pc \in {"loop", "teardown"}
  BY <1>1, BackKeeps DEF FrameRejected, FrameThinned, WinTypes
<1>5. UNCHANGED <<pipeline, shared, owner, units>> /\ clock' \in 0..MaxPts
  BY <1>1, ProducerConstants DEF FrameRejected, FrameThinned, WinTypes
<1> QED
  BY <1>1, <1>3, <1>4, <1>5, RunningKeeps DEF WinTypes

(* The slot of a unit is a time.                                           *)
LEMMA NextDueIsTime ==
    ASSUME pipeline \in Pipelines, NEW pts \in Nat, ~Early(pts)
    PROVE  NextDue(pts) \in Nat
<1>1. Interval \in Nat \ {0} /\ pipeline.next \in Nat
  BY ProducerConstants DEF Pipelines
<1>2. CASE ~pipeline.force /\ pipeline.next # NoPts
  <2>1. pts - pipeline.next \in Nat
    BY <1>1, <1>2 DEF Early
  <2>2. (pts - pipeline.next) \div Interval \in Nat
    BY <1>1, <2>1
  <2> DEFINE k == (pts - pipeline.next) \div Interval
  <2> HIDE DEF k
  <2>3. (k + 1) * Interval \in Nat
    BY <1>1, <2>2 DEF k
  <2> QED
    BY <1>1, <1>2, <2>3 DEF NextDue, k
<1>3. CASE ~(~pipeline.force /\ pipeline.next # NoPts)
  BY <1>1, <1>3 DEF NextDue
<1> QED
  BY <1>2, <1>3

LEMMA ReturnedKeeps ==
    ASSUME native \in NativeStates, Idle(native), native.lease = "none",
           native' \in Returned(native)
    PROVE  /\ native' \in NativeStates /\ Kept(native') /\ native'.cap = "open"
           /\ native'.enc = "live" /\ ~native'.mapped
           /\ ~native'.loan /\ native'.lease = "none" => Idle(native')
<1> DEFINE l == [native EXCEPT !.loan = TRUE]
<1>1. /\ l \in NativeStates /\ l.cap = "open" /\ l.enc = "live" /\ ~l.mapped /\ l.lease = "none"
  BY DEF NativeStates, Idle
<1>2. PICK m \in ReleaseOutput(l) :
        native' \in IF m.loan THEN {[m EXCEPT !.lease = "encoder"]} ELSE ReleaseFrame(m)
  BY DEF Returned
<1> HIDE DEF l
<1>3. /\ m \in NativeStates /\ m.cap = "open" /\ m.enc = "live" /\ ~m.mapped /\ m.lease = "none"
  BY <1>1, ReleaseOutputKeeps
<1>4. CASE m.loan
  <2>1. native' = [m EXCEPT !.lease = "encoder"]
    BY <1>2, <1>4
  <2> QED
    BY <1>3, <1>4, <2>1 DEF NativeStates, Kept
<1>5. CASE ~m.loan
  <2>1. native' \in ReleaseLease(m)
    BY <1>2, <1>5 DEF ReleaseFrame
  <2> QED
    BY <1>3, <1>5, <2>1, ReleaseLeaseKeeps DEF Kept, Idle
<1> QED
  BY <1>4, <1>5

LEMMA FrameEncodedKeeps ==
    ASSUME WinInv, FrameEncoded
    PROVE  WinInv'
<1>1. /\ worker.pc \in Running /\ WinTypes /\ Kept(native) /\ Idle(native)
      /\ native.lease = "none"
  BY DEF FrameEncoded, Running, WinInv, PhaseKeeps
<1>2. PICK pts \in clock..MaxPts, key \in BOOLEAN :
          /\ ~Early(pts) /\ clock' = pts
          /\ native' \in Returned(native)
          /\ IF native'.loan \/ native'.lease # "none" \/ (pipeline.force /\ ~key)
             THEN Back("teardown", "failed") /\ UNCHANGED pipeline
             ELSE /\ worker' = [worker EXCEPT !.pc = "space", !.unit = [key |-> key, pts |-> pts]]
                  /\ pipeline' = [pipeline EXCEPT !.force = FALSE, !.next = NextDue(pts)]
  BY DEF FrameEncoded
<1>3. pts \in 0..MaxPts /\ pts \in Nat
  BY <1>1, ProducerConstants DEF WinTypes
<1>4. /\ native' \in NativeStates /\ Kept(native') /\ native'.cap = "open"
      /\ native'.enc = "live"
      /\ ~native'.loan /\ native'.lease = "none" => Idle(native')
  BY <1>1, <1>2, ReturnedKeeps DEF WinTypes
<1>5. UNCHANGED <<shared, owner, units>>
  BY DEF FrameEncoded
<1>6. CASE native'.loan \/ native'.lease # "none" \/ (pipeline.force /\ ~key)
  <2>1. worker' \in Workers /\ worker'.pc = "teardown" /\ pipeline' = pipeline
    BY <1>1, <1>2, <1>6, BackKeeps DEF WinTypes
  <2> QED
    BY <1>1, <1>2, <1>3, <1>4, <1>5, <2>1, RunningKeeps DEF WinTypes
<1>7. CASE ~(native'.loan \/ native'.lease # "none" \/ (pipeline.force /\ ~key))
  <2>1. [key |-> key, pts |-> pts] \in Units
    BY <1>3 DEF Units
  <2>2. /\ worker' = [worker EXCEPT !.pc = "space", !.unit = [key |-> key, pts |-> pts]]
        /\ pipeline' = [pipeline EXCEPT !.force = FALSE, !.next = NextDue(pts)]
    BY <1>2, <1>7
  <2>3. worker' \in Workers /\ worker'.pc = "space" /\ worker'.unit \in Units
    BY <1>1, <2>1, <2>2 DEF WinTypes, Workers
  <2>4. NextDue(pts) \in Nat
    BY <1>1, <1>2, <1>3, NextDueIsTime DEF WinTypes
  <2>5. pipeline' \in Pipelines /\ pipeline'.opened = pipeline.opened
    BY <1>1, <2>2, <2>4 DEF WinTypes, Pipelines
  <2> QED
    BY <1>1, <1>2, <1>3, <1>4, <1>5, <1>7, <2>3, <2>5, RunningKeeps DEF WinTypes
<1> QED
  BY <1>6, <1>7

LEMMA EncodeFailsKeeps ==
    ASSUME WinInv, EncodeFails
    PROVE  WinInv'
<1>1. /\ worker.pc \in Running /\ WinTypes /\ Kept(native) /\ Idle(native)
      /\ native.lease = "none"
  BY DEF EncodeFails, Running, WinInv, PhaseKeeps
<1>3. /\ native' \in NativeStates /\ native'.cap = "open" /\ native'.enc = "live" /\ Kept(native')
  <2>1. CASE native' \in ReleaseLease(native)
    BY <1>1, <2>1, ReleaseLeaseKeeps DEF WinTypes, Idle, Kept
  <2>2. CASE MayFault(native)
             /\ native' = [Fault(native) EXCEPT !.lease = "encoder", !.mapped = TRUE]
    <3> DEFINE f == Fault(native)
    <3>1. /\ f \in NativeStates /\ f.cap = "open" /\ f.enc = "live" /\ ~f.loan
      BY <1>1, <2>2, FaultKeeps DEF WinTypes, Idle
    <3>2. native' = [f EXCEPT !.lease = "encoder", !.mapped = TRUE]
      BY <2>2
    <3> HIDE DEF f
    <3> QED
      BY <3>1, <3>2 DEF NativeStates, Kept
  <2> QED
    BY <2>1, <2>2 DEF EncodeFails, ReleaseFrame
<1>4. worker' \in Workers /\ worker'.pc = "teardown"
  BY <1>1, BackKeeps DEF EncodeFails, WinTypes
<1>5. UNCHANGED <<pipeline, shared, owner, units>> /\ clock' \in 0..MaxPts
  BY <1>1, ProducerConstants DEF EncodeFails, WinTypes
<1> QED
  BY <1>1, <1>3, <1>4, <1>5, RunningKeeps DEF WinTypes

LEMMA PushOrWaitKeeps ==
    ASSUME WinInv, PushOrWait
    PROVE  WinInv'
<1>1. /\ worker.pc \in {"space", "waiting"} /\ worker.pc \in Running
      /\ WinTypes /\ Kept(native) /\ Idle(native)
      /\ pipeline.opened /\ owner \in {"using", "closing"} /\ worker.unit \in Units
      /\ shared.queue \in Seq(Units) /\ shared.charged \in 0..MaxUnits
      /\ shared.charged = Len(shared.queue) + units /\ units \in Nat
  BY DEF PushOrWait, Running, WinInv, PhaseKeeps, WinTypes, Shareds, ChargeIsExact
<1>2. UNCHANGED <<native, owner, units, clock>>
  BY DEF PushOrWait
<1>3. CASE shared.closing
  <2>1. /\ worker' = [worker EXCEPT !.pc = "teardown", !.unit = NoUnit, !.woken = FALSE]
        /\ UNCHANGED <<shared, pipeline>>
    BY <1>3 DEF PushOrWait
  <2>2. worker' \in Workers /\ worker'.pc = "teardown"
    BY <1>1, <2>1 DEF WinTypes, Workers
  <2> QED
    BY <1>1, <1>2, <2>1, <2>2, RunningKeeps DEF WinTypes, Idle
<1>4. CASE ~shared.closing /\ shared.charged >= MaxUnits
  <2>1. /\ worker' = [worker EXCEPT !.pc = "waiting", !.woken = FALSE]
        /\ UNCHANGED <<shared, pipeline>>
    BY <1>4 DEF PushOrWait
  <2>2. worker' \in Workers /\ worker'.pc = "waiting" /\ worker'.unit = worker.unit
    BY <1>1, <2>1 DEF WinTypes, Workers
  <2>3. shared.charged = MaxUnits
    BY <1>1, <1>4, ProducerConstants
  <2>4. WinTypes' /\ Kept(native)'
    BY <1>1, <1>2, <2>1, <2>2 DEF WinTypes
  <2>5. PhaseKeeps'
    BY <1>1, <1>2, <2>1, <2>2 DEF PhaseKeeps, Running, Idle
  <2>6. ChargeIsExact' /\ QuarantineIsTold'
    BY <1>1, <1>2, <2>1, <2>2 DEF WinInv, ChargeIsExact, QuarantineIsTold
  <2>7. SleepMeansFull'
    BY <1>4, <2>1, <2>3 DEF SleepMeansFull
  <2> QED
    BY <2>4, <2>5, <2>6, <2>7 DEF WinInv
<1>5. CASE ~shared.closing /\ ~(shared.charged >= MaxUnits)
  <2>1. /\ worker' = [worker EXCEPT !.pc = "loop", !.unit = NoUnit, !.woken = FALSE]
        /\ shared' = [shared EXCEPT !.queue = Append(@, worker.unit), !.charged = @ + 1]
        /\ pipeline' = [pipeline EXCEPT !.due = @ /\ ~worker.unit.key]
    BY <1>5 DEF PushOrWait
  <2>2. worker' \in Workers /\ worker'.pc = "loop"
    BY <1>1, <2>1 DEF WinTypes, Workers
  <2>3. pipeline' \in Pipelines /\ pipeline'.opened
    BY <1>1, <2>1 DEF WinTypes, Pipelines
  <2>4. /\ Append(shared.queue, worker.unit) \in Seq(Units)
        /\ Len(Append(shared.queue, worker.unit)) = Len(shared.queue) + 1
    <3> DEFINE U == Units
    <3>1. shared.queue \in Seq(U) /\ worker.unit \in U
      BY <1>1
    <3> HIDE DEF U
    <3>2. /\ Append(shared.queue, worker.unit) \in Seq(U)
          /\ Len(Append(shared.queue, worker.unit)) = Len(shared.queue) + 1
      BY <3>1
    <3> QED
      BY <3>2 DEF U
  <2>5. shared.charged + 1 \in 0..MaxUnits
    BY <1>1, <1>5, ProducerConstants
  <2>6. /\ shared'.queue = Append(shared.queue, worker.unit)
        /\ shared'.charged = shared.charged + 1
        /\ shared'.closing = shared.closing /\ shared'.quarantine = shared.quarantine
    BY <1>1, <2>1 DEF WinTypes, Shareds
  <2>7. shared' \in Shareds
    BY <1>1, <2>1, <2>4, <2>5 DEF WinTypes, Shareds
  <2>8. WinTypes' /\ Kept(native)'
    BY <1>1, <1>2, <2>2, <2>3, <2>7 DEF WinTypes
  <2>9. PhaseKeeps'
    BY <1>1, <1>2, <2>2, <2>3, <2>6 DEF PhaseKeeps, Running, Idle
  <2>10. Len(shared.queue) \in Nat
    BY <1>1
  <2>11. ChargeIsExact'
    BY <1>1, <1>2, <2>4, <2>6, <2>10 DEF ChargeIsExact
  <2>12. QuarantineIsTold'
    BY <1>1, <1>2, <2>2, <2>3, <2>6 DEF WinInv, QuarantineIsTold
  <2>13. SleepMeansFull'
    BY <2>2 DEF SleepMeansFull
  <2> QED
    BY <2>8, <2>9, <2>11, <2>12, <2>13 DEF WinInv
<1> QED
  BY <1>3, <1>4, <1>5

LEMMA TeardownKeeps ==
    ASSUME WinInv, Teardown
    PROVE  WinInv'
<1>1. /\ WinTypes /\ Kept(native) /\ Piped(native) /\ native \in NativeStates
      /\ pipeline.opened /\ owner \in {"using", "closing"}
  BY DEF Teardown, WinInv, PhaseKeeps, Running, QuarantineIsTold, WinTypes
<1>2. UNCHANGED <<pipeline, owner, units, clock>>
  BY DEF Teardown
<1>3. native' \in NativeStates /\ Kept(native') /\ Piped(native')
  BY <1>1, PipelineCloseKeeps DEF Teardown
<1>4. worker' \in Workers /\ worker'.pc = "done"
  BY <1>1 DEF Teardown, WinTypes, Workers
<1>5. /\ shared'.quarantine = IF PipelineClosed(native') THEN "none" ELSE "pipeline"
      /\ shared'.queue = shared.queue /\ shared'.charged = shared.charged
  BY <1>1 DEF Teardown, WinTypes, Shareds
<1>6. shared' \in Shareds
  <2>1. (IF PipelineClosed(native') THEN worker.failure ELSE "reclaim")
          \in {"none", "failed", "reclaim"}
    BY <1>1 DEF WinTypes, Workers
  <2>2. (IF PipelineClosed(native') THEN "none" ELSE "pipeline")
          \in {"none", "capture", "encoder", "pipeline"}
    OBVIOUS
  <2> DEFINE f == IF PipelineClosed(native') THEN worker.failure ELSE "reclaim"
             q == IF PipelineClosed(native') THEN "none" ELSE "pipeline"
  <2>3. shared' = [shared EXCEPT !.closed = TRUE, !.failure = f, !.quarantine = q]
    BY DEF Teardown
  <2> HIDE DEF f, q
  <2>4. shared \in Shareds
    BY <1>1 DEF WinTypes
  <2>5. f \in {"none", "failed", "reclaim"}
    BY <2>1 DEF f
  <2>6. q \in {"none", "capture", "encoder", "pipeline"}
    BY <2>2 DEF q
  <2> QED
    BY <2>3, <2>4, <2>5, <2>6 DEF Shareds
<1>7. WinTypes'
  BY <1>1, <1>2, <1>3, <1>4, <1>6 DEF WinTypes
<1>8. PhaseKeeps'
  BY <1>1, <1>2, <1>4 DEF PhaseKeeps, Running
<1>9. ChargeIsExact'
  BY <1>2, <1>5 DEF WinInv, ChargeIsExact
<1>10. QuarantineIsTold'
  BY <1>1, <1>2, <1>3, <1>5 DEF QuarantineIsTold
<1>11. SleepMeansFull'
  BY <1>4 DEF SleepMeansFull
<1> QED
  BY <1>3, <1>7, <1>8, <1>9, <1>10, <1>11 DEF WinInv

LEMMA RecvKeeps ==
    ASSUME WinInv, Recv
    PROVE  WinInv'
<1>1. /\ WinTypes /\ shared \in Shareds /\ shared.queue \in Seq(Units) /\ shared.queue # <<>>
      /\ units \in Nat /\ shared.charged = Len(shared.queue) + units
  BY DEF Recv, WinInv, WinTypes, Shareds, ChargeIsExact
<1>2. /\ shared' = [shared EXCEPT !.queue = Tail(@)] /\ units' = units + 1
      /\ UNCHANGED <<native, pipeline, worker, owner, clock>>
  BY DEF Recv
<1>3. /\ Tail(shared.queue) \in Seq(Units) /\ Len(Tail(shared.queue)) = Len(shared.queue) - 1
      /\ Len(shared.queue) \in Nat
  <2> DEFINE U == Units
  <2>1. shared.queue \in Seq(U) /\ shared.queue # <<>>
    BY <1>1
  <2> HIDE DEF U
  <2>2. /\ Tail(shared.queue) \in Seq(U) /\ Len(Tail(shared.queue)) = Len(shared.queue) - 1
        /\ Len(shared.queue) \in Nat
    BY <2>1
  <2> QED
    BY <2>2 DEF U
<1>4. shared' \in Shareds
  BY <1>1, <1>2, <1>3 DEF Shareds
<1>5. /\ shared'.queue = Tail(shared.queue) /\ shared'.charged = shared.charged
      /\ shared'.quarantine = shared.quarantine /\ shared'.closing = shared.closing
  BY <1>1, <1>2 DEF Shareds
<1>6. WinTypes' /\ Kept(native)'
  BY <1>1, <1>2, <1>4 DEF WinTypes, WinInv
<1>7. PhaseKeeps' /\ QuarantineIsTold' /\ SleepMeansFull'
  BY <1>2, <1>5 DEF WinInv, PhaseKeeps, QuarantineIsTold, SleepMeansFull
<1>8. ChargeIsExact'
  BY <1>1, <1>2, <1>3, <1>5 DEF ChargeIsExact
<1> QED
  BY <1>6, <1>7, <1>8 DEF WinInv

LEMMA DropUnitKeeps ==
    ASSUME WinInv, DropUnit
    PROVE  WinInv'
<1>1. /\ WinTypes /\ shared \in Shareds /\ Len(shared.queue) \in Nat /\ shared.charged \in Nat
      /\ shared.charged <= MaxUnits
      /\ units \in Nat /\ shared.charged = Len(shared.queue) + units /\ units > 0
  BY ProducerConstants DEF DropUnit, WinInv, WinTypes, Shareds, ChargeIsExact
<1>2. /\ shared' = [shared EXCEPT !.charged = @ - 1] /\ units' = units - 1
      /\ UNCHANGED <<native, pipeline, owner, clock>>
  BY DEF DropUnit
<1>3. /\ worker' \in Workers /\ worker'.pc = worker.pc /\ worker'.unit = worker.unit
      /\ worker'.pc = "waiting" => worker'.woken
  BY <1>1, NotifySpaceKeeps DEF DropUnit, WinTypes
<1>4. shared.charged - 1 \in 0..MaxUnits
  BY <1>1, ProducerConstants
<1>5. /\ shared' \in Shareds /\ shared'.queue = shared.queue
      /\ shared'.charged = shared.charged - 1 /\ shared'.quarantine = shared.quarantine
  BY <1>1, <1>2, <1>4 DEF Shareds
<1>6. WinTypes' /\ Kept(native)'
  BY <1>1, <1>2, <1>3, <1>5 DEF WinTypes, WinInv
<1>7. PhaseKeeps'
  BY <1>2, <1>3, <1>5 DEF WinInv, PhaseKeeps
<1>8. QuarantineIsTold'
  BY <1>2, <1>3, <1>5 DEF WinInv, QuarantineIsTold
<1>9. SleepMeansFull'
  BY <1>3 DEF SleepMeansFull
<1>10. ChargeIsExact'
  BY <1>1, <1>2, <1>5 DEF ChargeIsExact
<1> QED
  BY <1>6, <1>7, <1>8, <1>9, <1>10 DEF WinInv

LEMMA RequestKeyframeKeeps ==
    ASSUME WinInv, RequestKeyframe
    PROVE  WinInv'
<1>1. WinTypes /\ shared \in Shareds
  BY DEF WinInv, WinTypes
<1>2. UNCHANGED <<native, pipeline, worker, owner, units, clock>>
  BY DEF RequestKeyframe
<1>3. /\ shared' \in Shareds /\ shared'.queue = shared.queue
      /\ shared'.charged = shared.charged /\ shared'.quarantine = shared.quarantine
      /\ shared'.closing = shared.closing
  BY <1>1 DEF RequestKeyframe, Shareds
<1>4. WinTypes' /\ Kept(native)'
  BY <1>1, <1>2, <1>3 DEF WinTypes, WinInv
<1>5. PhaseKeeps' /\ QuarantineIsTold' /\ SleepMeansFull' /\ ChargeIsExact'
  BY <1>2, <1>3 DEF WinInv, PhaseKeeps, QuarantineIsTold, SleepMeansFull, ChargeIsExact
<1> QED
  BY <1>4, <1>5 DEF WinInv

LEMMA RequestCloseKeeps ==
    ASSUME WinInv, RequestClose
    PROVE  WinInv'
<1>1. WinTypes /\ shared \in Shareds
  BY DEF WinInv, WinTypes
<1>2. UNCHANGED <<native, pipeline, units, clock>> /\ owner = "using" /\ owner' = "closing"
  BY DEF RequestClose
<1>3. /\ worker' \in Workers /\ worker'.pc = worker.pc /\ worker'.unit = worker.unit
      /\ worker'.pc = "waiting" => worker'.woken
  BY <1>1, NotifySpaceKeeps DEF RequestClose, WinTypes
<1>4. /\ shared' \in Shareds /\ shared'.queue = shared.queue
      /\ shared'.charged = shared.charged /\ shared'.quarantine = shared.quarantine
  BY <1>1 DEF RequestClose, Shareds
<1>5. WinTypes' /\ Kept(native)'
  BY <1>1, <1>2, <1>3, <1>4 DEF WinTypes, WinInv
<1>6. PhaseKeeps'
  BY <1>2, <1>3, <1>4 DEF WinInv, PhaseKeeps
<1>7. QuarantineIsTold' /\ ChargeIsExact'
  BY <1>2, <1>3, <1>4 DEF WinInv, QuarantineIsTold, ChargeIsExact
<1>8. SleepMeansFull'
  BY <1>3 DEF SleepMeansFull
<1> QED
  BY <1>5, <1>6, <1>7, <1>8 DEF WinInv

LEMMA JoinAndRetryKeeps ==
    ASSUME WinInv, JoinAndRetry
    PROVE  WinInv'
<1>1. /\ WinTypes /\ shared \in Shareds /\ native \in NativeStates /\ Kept(native)
      /\ worker.pc = "done" /\ owner = "closing"
      /\ shared.quarantine \in {"none", "capture", "encoder", "pipeline"}
  BY DEF WinInv, WinTypes, JoinAndRetry, Shareds
<1>2. UNCHANGED <<pipeline, worker, units, clock>> /\ native' \in Retried(native)
  BY DEF JoinAndRetry
<1>3. /\ shared' \in Shareds /\ shared'.queue = shared.queue
      /\ shared'.charged = shared.charged
      /\ shared'.quarantine = IF Reclaimed(native') THEN "none" ELSE shared.quarantine
  BY <1>1 DEF JoinAndRetry, Shareds
<1>4. owner' = IF Reclaimed(native') THEN "ok" ELSE "unconfirmed"
  BY DEF JoinAndRetry, AnswersOk
<1>5. /\ native' \in NativeStates /\ Kept(native')
      /\ pipeline.opened => Piped(native')
                              /\ (Reclaimed(native') => PipelineClosed(native'))
      /\ ~pipeline.opened => ~native'.loan /\ ~native'.mapped /\ native'.lease = "none"
  <2>1. CASE shared.quarantine = "capture"
    <3>1. ~pipeline.opened /\ native' \in CloseCapture(native)
      BY <1>2, <2>1 DEF Retried, WinInv, QuarantineIsTold
    <3> QED
      BY <1>1, <3>1, CloseCaptureKeeps DEF WinInv, QuarantineIsTold, Kept
  <2>2. CASE shared.quarantine = "encoder"
    <3>1. ~pipeline.opened /\ native' \in ShutdownEncoder(native)
      BY <1>2, <2>2 DEF Retried, WinInv, QuarantineIsTold
    <3> QED
      BY <1>1, <3>1, ShutdownEncoderKeeps DEF WinInv, QuarantineIsTold, Kept
  <2>3. CASE shared.quarantine = "pipeline" /\ pipeline.opened
    <3>1. Piped(native) /\ native' \in PipelineClose(native)
      BY <1>2, <2>3 DEF Retried, WinInv, QuarantineIsTold
    <3> QED
      BY <1>1, <2>3, <3>1, PipelineCloseKeeps DEF Reclaimed
  <2>4. CASE shared.quarantine = "none"
    <3>1. native' = native
      BY <1>2, <2>4 DEF Retried
    <3> QED
      BY <1>1, <2>4, <3>1 DEF WinInv, QuarantineIsTold
  <2>5. shared.quarantine = "pipeline" => pipeline.opened
    BY DEF WinInv, QuarantineIsTold
  <2> QED
    BY <1>1, <2>1, <2>2, <2>3, <2>4, <2>5
<1>6. WinTypes'
  BY <1>1, <1>2, <1>3, <1>4, <1>5 DEF WinTypes
<1>7. PhaseKeeps'
  BY <1>1, <1>2, <1>4 DEF PhaseKeeps, Running
<1>8. ChargeIsExact'
  BY <1>2, <1>3 DEF WinInv, ChargeIsExact
<1>9. QuarantineIsTold'
  <2>1. /\ pipeline.opened => shared.quarantine \in {"none", "pipeline"}
        /\ shared.quarantine = "pipeline" => pipeline.opened
    BY DEF WinInv, QuarantineIsTold
  <2>2. shared'.quarantine = "none" => Reclaimed(native')
    BY <1>3 DEF Reclaimed
  <2> QED
    BY <1>1, <1>2, <1>3, <1>4, <1>5, <2>1, <2>2 DEF QuarantineIsTold
<1>10. SleepMeansFull'
  BY <1>1, <1>2 DEF SleepMeansFull
<1> QED
  BY <1>5, <1>6, <1>7, <1>8, <1>9, <1>10 DEF WinInv

-----------------------------------------------------------------------------
LEMMA WinInitially == WinInit => WinInv
<1> SUFFICES ASSUME WinInit PROVE WinInv
  OBVIOUS
<1>1. /\ Untouched(native) /\ native \in NativeStates /\ ~pipeline.opened
      /\ owner = "opening" /\ units = 0 /\ clock = 0
  BY ProducerConstants DEF WinInit, Untouched, NativeStates
<1>2. pipeline \in Pipelines
  BY ProducerConstants DEF WinInit, Pipelines, NoPts
<1>3. shared \in Shareds /\ shared.queue = <<>> /\ shared.charged = 0
      /\ shared.quarantine = "none"
  <2>1. <<>> \in Seq(Units) /\ 0 \in 0..MaxUnits
    BY ProducerConstants
  <2> QED
    BY <2>1 DEF WinInit, Shareds
<1>4. worker \in Workers /\ worker.pc = "open"
  BY DEF WinInit, Workers
<1>5. WinTypes
  BY <1>1, <1>2, <1>3, <1>4, ProducerConstants DEF WinTypes
<1>6. Kept(native) /\ PhaseKeeps /\ ChargeIsExact /\ QuarantineIsTold /\ SleepMeansFull
  BY <1>1, <1>3, <1>4 DEF Kept, PhaseKeeps, ChargeIsExact, QuarantineIsTold,
     SleepMeansFull, Untouched, Running
<1> QED
  BY <1>5, <1>6 DEF WinInv

LEMMA WinStep == WinInv /\ [WinNext]_winVars => WinInv'
<1> SUFFICES ASSUME WinInv, [WinNext]_winVars PROVE WinInv'
  OBVIOUS
<1>1. CASE OpenFails \/ CaptureRejected \/ EncoderFails \/ EncoderQuarantined \/ Opens
  BY <1>1, OpeningKeeps
<1>2. CASE LoopHead
  BY <1>2, LoopHeadKeeps
<1>3. CASE NoTexture
  BY <1>3, NoTextureKeeps
<1>4. CASE FrameRejected \/ FrameThinned
  BY <1>4, ReleasedFrameKeeps
<1>5. CASE FrameEncoded
  BY <1>5, FrameEncodedKeeps
<1>6. CASE EncodeFails
  BY <1>6, EncodeFailsKeeps
<1>7. CASE PushOrWait
  BY <1>7, PushOrWaitKeeps
<1>8. CASE Teardown
  BY <1>8, TeardownKeeps
<1>9. CASE Recv
  BY <1>9, RecvKeeps
<1>10. CASE DropUnit
  BY <1>10, DropUnitKeeps
<1>11. CASE RequestKeyframe
  BY <1>11, RequestKeyframeKeeps
<1>12. CASE RequestClose
  BY <1>12, RequestCloseKeeps
<1>13. CASE JoinAndRetry
  BY <1>13, JoinAndRetryKeeps
<1>14. CASE UNCHANGED winVars
  BY <1>14 DEF winVars, WinInv, WinTypes, PhaseKeeps, ChargeIsExact, QuarantineIsTold,
     SleepMeansFull
<1> QED
  BY <1>1, <1>2, <1>3, <1>4, <1>5, <1>6, <1>7, <1>8, <1>9, <1>10, <1>11, <1>12, <1>13,
     <1>14 DEF WinNext, WorkerNext

LEMMA WinInvIsEnough == WinInv => NativeIsReclaimed
<1> SUFFICES ASSUME WinInv PROVE NativeIsReclaimed
  OBVIOUS
<1>1. /\ WinTypes /\ native \in NativeStates /\ shared \in Shareds /\ worker \in Workers
      /\ units \in Nat /\ shared.charged \in 0..MaxUnits
      /\ shared.charged = Len(shared.queue) + units /\ Len(shared.queue) \in Nat
  BY DEF WinInv, WinTypes, Shareds, ChargeIsExact
<1>2. units \in 0..MaxUnits
  BY <1>1, ProducerConstants
<1>3. WinTypeOK
  BY <1>1, <1>2 DEF WinTypeOK, WinTypes, NativeStates, Shareds, Workers
<1>4. TextureOutlivesUse
  BY DEF WinInv, Kept, QuarantineIsTold, Piped, TextureOutlivesUse
<1>5. CloseOkMeansReclaimed
  BY DEF WinInv, Kept, QuarantineIsTold, PipelineClosed, CloseOkMeansReclaimed
<1> QED
  BY <1>3, <1>4, <1>5 DEF NativeIsReclaimed, WinInv

(* For every size of the queue, every interval and however many releases   *)
(* fail: a texture is never given back while the encoder may read it, the  *)
(* capture outlives its encoder, close() answers Ok only for what was      *)
(* reclaimed and the worker sleeps only while the queue is full            *)
(* (windows_native.rs, windows_host_publisher.rs).                         *)
THEOREM ReclaimTheorem == WinSpec => []NativeIsReclaimed
<1>1. WinInit => WinInv
  BY WinInitially
<1>2. WinInv /\ [WinNext]_winVars => WinInv'
  BY WinStep
<1>3. WinInv => NativeIsReclaimed
  BY WinInvIsEnough
<1> QED
  BY <1>1, <1>2, <1>3, PTL DEF WinSpec

-----------------------------------------------------------------------------
(* The producer's keyframes and its pace.                                  *)

(* A keyframe request the worker took is still to be encoded, or the unit  *)
(* in its hands is the key unit.                                           *)
DueIsKept ==
    /\ pipeline.due /\ worker.pc \in {"open", "loop", "next"} => pipeline.force
    /\ pipeline.due /\ worker.pc \in {"space", "waiting"} => worker.unit.key

KeyframeStep ==
    Len(shared'.queue) > Len(shared.queue) /\ pipeline.due
      => shared'.queue[Len(shared'.queue)].key

PaceStep ==
    pipeline'.next # pipeline.next /\ ~pipeline.force /\ pipeline.next # NoPts
      => pipeline'.next > clock'

(* Every step but the worker's own push, encode and loop head.             *)
QuietStep ==
    /\ pipeline'.due = pipeline.due /\ pipeline'.force = pipeline.force
    /\ pipeline'.next = pipeline.next
    /\ \/ worker'.pc = worker.pc /\ worker'.unit = worker.unit
       \/ worker'.pc \in {"teardown", "done"}
       \/ worker.pc \in {"open", "next"} /\ worker'.pc = "loop"
       \/ worker.pc = "space" /\ worker'.pc = "waiting" /\ worker'.unit = worker.unit
    /\ \/ shared'.queue = shared.queue
       \/ shared.queue # <<>> /\ shared'.queue = Tail(shared.queue)

LEMMA QuietStepKeeps ==
    ASSUME shared \in Shareds, DueIsKept, QuietStep
    PROVE  DueIsKept' /\ KeyframeStep /\ PaceStep
<1>1. DueIsKept'
  BY DEF DueIsKept, QuietStep
<1>2. KeyframeStep
  <2>1. ~(Len(shared'.queue) > Len(shared.queue))
    <3> DEFINE U == Units
    <3>1. shared.queue \in Seq(U)
      BY DEF Shareds
    <3> HIDE DEF U
    <3>2. CASE shared'.queue = shared.queue
      BY <3>1, <3>2
    <3>3. CASE shared.queue # <<>> /\ shared'.queue = Tail(shared.queue)
      <4>1. Len(Tail(shared.queue)) = Len(shared.queue) - 1 /\ Len(shared.queue) \in Nat
        BY <3>1, <3>3
      <4> QED
        BY <3>3, <4>1
    <3> QED
      BY <3>2, <3>3 DEF QuietStep
  <2> QED
    BY <2>1 DEF KeyframeStep
<1>3. PaceStep
  BY DEF PaceStep, QuietStep
<1> QED
  BY <1>1, <1>2, <1>3

LEMMA NextSlotIsLater ==
    ASSUME NEW x \in Nat, NEW n \in Nat \ {0}
    PROVE  x < (x \div n + 1) * n /\ (x \div n + 1) * n \in Nat
<1>1. x < (x \div n + 1) * n
  OBVIOUS
<1>2. x \div n \in Nat
  OBVIOUS
<1> DEFINE k == x \div n
<1> HIDE DEF k
<1>3. k \in Nat => (k + 1) * n \in Nat
  OBVIOUS
<1> QED
  BY <1>1, <1>2, <1>3 DEF k

(* The slot after one that was passed lies beyond the capture time.        *)
LEMMA NextDueIsLater ==
    ASSUME pipeline \in Pipelines, NEW pts \in Nat, ~Early(pts),
           ~pipeline.force, pipeline.next # NoPts
    PROVE  NextDue(pts) > pts
<1> DEFINE x == pts - pipeline.next
           s == (x \div Interval + 1) * Interval
<1>1. Interval \in Nat \ {0} /\ pipeline.next \in Nat /\ x \in Nat
  BY ProducerConstants DEF Pipelines, Early
<1>2. NextDue(pts) = pipeline.next + s
  BY DEF NextDue
<1> HIDE DEF x
<1>3. s \in Nat /\ x < s
  BY <1>1, NextSlotIsLater
<1> HIDE DEF s
<1>4. pipeline.next + s > pipeline.next + x /\ pipeline.next + x = pts
  BY <1>1, <1>3 DEF x
<1> QED
  BY <1>2, <1>4

LEMMA SteadyStep ==
    ASSUME WinInv, DueIsKept, [WinNext]_winVars
    PROVE  DueIsKept' /\ KeyframeStep /\ PaceStep
<1>1. shared \in Shareds /\ pipeline \in Pipelines /\ worker \in Workers /\ clock \in 0..MaxPts
  BY DEF WinInv, WinTypes
<1>2. CASE LoopHead
  <2>1. shared'.queue = shared.queue /\ pipeline'.next = pipeline.next
    BY <1>1, <1>2 DEF LoopHead, Shareds, Pipelines
  <2>2. KeyframeStep /\ PaceStep
    <3>1. Len(shared.queue) \in Nat
      BY <1>1 DEF Shareds
    <3> QED
      BY <2>1, <3>1 DEF KeyframeStep, PaceStep
  <2>3. DueIsKept'
    <3>1. CASE shared.closing
      <4>1. worker'.pc = "teardown"
        BY <1>1, <1>2, <3>1 DEF LoopHead, Workers
      <4> QED
        BY <4>1 DEF DueIsKept
    <3>2. CASE ~shared.closing
      <4>1. /\ worker.pc = "loop" /\ worker'.pc = "next"
            /\ pipeline'.force = (pipeline.force \/ shared.keyframe)
            /\ pipeline'.due = (pipeline.due \/ shared.keyframe)
        BY <1>1, <1>2, <3>2 DEF LoopHead, Workers, Pipelines, Forces
      <4> QED
        BY <4>1 DEF DueIsKept
    <3> QED
      BY <3>1, <3>2
  <2> QED
    BY <2>2, <2>3
<1>3. CASE FrameEncoded
  <2>1. PICK pts \in clock..MaxPts, key \in BOOLEAN :
          /\ ~Early(pts) /\ clock' = pts
          /\ IF native'.loan \/ native'.lease # "none" \/ (pipeline.force /\ ~key)
             THEN Back("teardown", "failed") /\ UNCHANGED pipeline
             ELSE /\ worker' = [worker EXCEPT !.pc = "space", !.unit = [key |-> key, pts |-> pts]]
                  /\ pipeline' = [pipeline EXCEPT !.force = FALSE, !.next = NextDue(pts)]
    BY <1>3 DEF FrameEncoded
  <2>2. worker.pc = "next" /\ shared' = shared
    BY <1>3 DEF FrameEncoded
  <2>3. KeyframeStep
    <3>1. Len(shared.queue) \in Nat
      BY <1>1 DEF Shareds
    <3> QED
      BY <2>2, <3>1 DEF KeyframeStep
  <2>4. CASE native'.loan \/ native'.lease # "none" \/ (pipeline.force /\ ~key)
    <3>1. worker'.pc = "teardown" /\ pipeline' = pipeline
      BY <1>1, <2>1, <2>4 DEF Back, Workers
    <3> QED
      BY <2>3, <3>1 DEF DueIsKept, PaceStep
  <2>5. CASE ~(native'.loan \/ native'.lease # "none" \/ (pipeline.force /\ ~key))
    <3>1. /\ worker'.pc = "space" /\ worker'.unit.key = key
          /\ pipeline'.due = pipeline.due /\ pipeline'.next = NextDue(pts)
      <4>1. /\ worker' = [worker EXCEPT !.pc = "space", !.unit = [key |-> key, pts |-> pts]]
            /\ pipeline' = [pipeline EXCEPT !.force = FALSE, !.next = NextDue(pts)]
        BY <2>1, <2>5
      <4>2. worker'.pc = "space" /\ worker'.unit = [key |-> key, pts |-> pts]
        BY <1>1, <4>1 DEF Workers
      <4>3. pipeline'.due = pipeline.due /\ pipeline'.next = NextDue(pts)
        BY <1>1, <4>1 DEF Pipelines
      <4> QED
        BY <4>2, <4>3
    <3>2. DueIsKept'
      BY <2>2, <2>5, <3>1 DEF DueIsKept
    <3>3. pts \in Nat
      BY <1>1, ProducerConstants
    <3>4. PaceStep
      BY <1>1, <2>1, <3>1, <3>3, NextDueIsLater DEF PaceStep
    <3> QED
      BY <2>3, <3>2, <3>4
  <2> QED
    BY <2>4, <2>5
<1>4. CASE PushOrWait
  <2>1. worker.pc \in {"space", "waiting"} /\ worker.unit \in Units
    BY <1>4 DEF PushOrWait, WinInv, PhaseKeeps
  <2>2. CASE shared.closing
    <3>1. QuietStep
      BY <1>1, <1>4, <2>2 DEF PushOrWait, QuietStep, Workers
    <3> QED
      BY <1>1, <3>1, QuietStepKeeps
  <2>3. CASE ~shared.closing /\ shared.charged >= MaxUnits
    <3>1. QuietStep
      BY <1>1, <1>4, <2>1, <2>3 DEF PushOrWait, QuietStep, Workers
    <3> QED
      BY <1>1, <3>1, QuietStepKeeps
  <2>4. CASE ~shared.closing /\ ~(shared.charged >= MaxUnits)
    <3>1. /\ worker'.pc = "loop" /\ shared'.queue = Append(shared.queue, worker.unit)
          /\ pipeline'.due = (pipeline.due /\ ~worker.unit.key)
          /\ pipeline'.next = pipeline.next
      BY <1>1, <1>4, <2>4 DEF PushOrWait, Workers, Shareds, Pipelines
    <3>2. DueIsKept' /\ PaceStep
      BY <2>1, <3>1 DEF DueIsKept, PaceStep
    <3>3. shared'.queue[Len(shared'.queue)] = worker.unit
      <4> DEFINE U == Units
      <4>1. shared.queue \in Seq(U) /\ worker.unit \in U
        BY <1>1, <2>1 DEF Shareds
      <4> HIDE DEF U
      <4> QED
        BY <3>1, <4>1
    <3>4. KeyframeStep
      BY <2>1, <3>3 DEF KeyframeStep, DueIsKept
    <3> QED
      BY <3>2, <3>4
  <2> QED
    BY <2>2, <2>3, <2>4
<1>5. CASE Opens
  <2>1. QuietStep
    BY <1>1, <1>5 DEF Opens, QuietStep, Workers, Pipelines
  <2> QED
    BY <1>1, <2>1, QuietStepKeeps
<1>6. CASE OpenFails \/ CaptureRejected \/ EncoderFails \/ EncoderQuarantined
  <2>1. Fail("failed", "none") \/ Fail("reclaim", "capture") \/ Fail("reclaim", "encoder")
    BY <1>6 DEF OpenFails, CaptureRejected, EncoderFails, EncoderQuarantined
  <2>2. QuietStep
    BY <1>1, <2>1 DEF Fail, QuietStep, Workers, Shareds
  <2> QED
    BY <1>1, <2>2, QuietStepKeeps
<1>7. CASE NoTexture \/ FrameRejected \/ FrameThinned \/ EncodeFails
  <2>1. worker.pc = "next" /\ worker'.pc \in {"loop", "teardown"}
        /\ UNCHANGED <<pipeline, shared>>
    BY <1>1, <1>7 DEF NoTexture, FrameRejected, FrameThinned, EncodeFails, Back, Workers
  <2>2. QuietStep
    BY <2>1 DEF QuietStep
  <2> QED
    BY <1>1, <2>2, QuietStepKeeps
<1>8. CASE Teardown
  <2>1. QuietStep
    BY <1>1, <1>8 DEF Teardown, QuietStep, Workers, Shareds
  <2> QED
    BY <1>1, <2>1, QuietStepKeeps
<1>9. CASE Recv \/ RequestKeyframe \/ JoinAndRetry
  <2>1. QuietStep
    BY <1>1, <1>9 DEF Recv, RequestKeyframe, JoinAndRetry, QuietStep, Shareds
  <2> QED
    BY <1>1, <2>1, QuietStepKeeps
<1>10. CASE DropUnit \/ RequestClose
  <2>1. worker'.pc = worker.pc /\ worker'.unit = worker.unit
    BY <1>1, <1>10, NotifySpaceKeeps DEF DropUnit, RequestClose
  <2>2. QuietStep
    BY <1>1, <1>10, <2>1 DEF DropUnit, RequestClose, QuietStep, Shareds
  <2> QED
    BY <1>1, <2>2, QuietStepKeeps
<1>11. CASE UNCHANGED winVars
  <2>1. QuietStep
    BY <1>11 DEF winVars, QuietStep
  <2> QED
    BY <1>1, <2>1, QuietStepKeeps
<1> QED
  BY <1>2, <1>3, <1>4, <1>5, <1>6, <1>7, <1>8, <1>9, <1>10, <1>11 DEF WinNext, WorkerNext

-----------------------------------------------------------------------------
(* The bitrate.                                                            *)

LEMMA ClampIsBetween ==
    ASSUME NEW x \in Nat
    PROVE  /\ Clamp(x, MinRate, MaxRate) \in MinRate..MaxRate
           /\ x \in MinRate..MaxRate => Clamp(x, MinRate, MaxRate) = x
           /\ x >= MaxRate => Clamp(x, MinRate, MaxRate) = MaxRate
<1>1. \A a, b \in Nat : Max({a, b}) = IF a >= b THEN a ELSE b
  BY DEF Max
<1>2. \A a, b \in Nat : Min({a, b}) = IF a <= b THEN a ELSE b
  BY DEF Min
<1>3. MinRate \in Nat /\ MaxRate \in Nat /\ MinRate <= MaxRate
  BY DEF MinRate, MaxRate
<1>4. Max({x, MinRate}) = IF x >= MinRate THEN x ELSE MinRate
  BY <1>1, <1>3
<1> DEFINE m == Max({x, MinRate})
<1>5. m \in Nat /\ m = IF x >= MinRate THEN x ELSE MinRate
  BY <1>3, <1>4
<1>6. Clamp(x, MinRate, MaxRate) = Min({m, MaxRate})
  BY DEF Clamp
<1> HIDE DEF m
<1>7. Min({m, MaxRate}) = IF m <= MaxRate THEN m ELSE MaxRate
  BY <1>2, <1>3, <1>5
<1> QED
  BY <1>3, <1>5, <1>6, <1>7

(* The long window began after the rate last changed.                      *)
RateInv ==
    /\ controller.current \in MinRate..MaxRate
    /\ controller.long.frames \in Nat /\ since \in Nat
    /\ controller.long.frames <= since
    /\ controller = [current |-> controller.current, short |-> controller.short,
                     long |-> controller.long]

PulseStep == controller'.current < controller.current => since + 1 >= LowerAfter

LEMMA RateStep ==
    ASSUME RateInv, [RateNext]_rateVars
    PROVE  RateInv' /\ PulseStep
<1>1. CASE UNCHANGED rateVars
  BY <1>1 DEF rateVars, RateInv, PulseStep, MinRate, MaxRate
<1>2. ASSUME NEW spend \in Spends, Observe(spend)
      PROVE  RateInv' /\ PulseStep
  <2> DEFINE short == Added(controller.short, spend)
             long == Added(controller.long, spend)
             c == controller.current
  <2>1. /\ long.frames = controller.long.frames + 1 /\ long.frames \in Nat
        /\ long.frames <= since + 1 /\ c \in MinRate..MaxRate /\ c \in Nat /\ since \in Nat
    BY DEF Added, RateInv, MinRate, MaxRate
  <2>2. since' = IF controller'.current # c THEN 0 ELSE since + 1
    BY <1>2 DEF Observe
  <2>3. \/ Decides(Raised, long)
        \/ long.frames >= LowerAfter /\ Decides(Lowered, long)
        \/ controller' = [controller EXCEPT !.short = short,
                             !.long = IF long.frames >= LowerAfter THEN Window ELSE long]
    BY <1>2 DEF Observe
  <2> HIDE DEF short, long, c
  <2>4. /\ Raised \in MinRate..MaxRate /\ Raised >= c
        /\ Lowered \in MinRate..MaxRate
    <3>1. (c * 125) \div 100 \in Nat /\ (c * 125) \div 100 >= c
      BY <2>1
    <3>2. (c * 88) \div 100 \in Nat
      BY <2>1
    <3> DEFINE u == (c * 125) \div 100
               d == (c * 88) \div 100
    <3>3. Raised = Clamp(u, MinRate, MaxRate) /\ Lowered = Clamp(d, MinRate, MaxRate)
      BY DEF Raised, Lowered, c
    <3>4. u \in Nat /\ u >= c /\ d \in Nat
      BY <3>1, <3>2
    <3> HIDE DEF u, d
    <3>5. /\ Clamp(u, MinRate, MaxRate) \in MinRate..MaxRate
          /\ u \in MinRate..MaxRate => Clamp(u, MinRate, MaxRate) = u
          /\ u >= MaxRate => Clamp(u, MinRate, MaxRate) = MaxRate
          /\ Clamp(d, MinRate, MaxRate) \in MinRate..MaxRate
      BY <3>4, ClampIsBetween
    <3>6. MinRate \in Nat /\ MaxRate \in Nat
      BY DEF MinRate, MaxRate
    <3> QED
      BY <2>1, <3>3, <3>4, <3>5, <3>6
  <2>5. ASSUME NEW target \in MinRate..MaxRate, Decides(target, long),
               target < c => long.frames >= LowerAfter
        PROVE  RateInv' /\ PulseStep
    <3>1. /\ controller'.current = target /\ controller'.long.frames = 0
          /\ controller' = [current |-> controller'.current, short |-> controller'.short,
                            long |-> controller'.long]
      BY <2>5 DEF Decides, Cleared, Window
    <3>2. since' \in Nat
      BY <2>1, <2>2
    <3>3. RateInv'
      BY <3>1, <3>2 DEF RateInv
    <3>4. PulseStep
      BY <2>1, <2>5, <3>1, BitrateConstants DEF PulseStep, c, MinRate, MaxRate
    <3> QED
      BY <3>3, <3>4
  <2>6. CASE Decides(Raised, long)
    <3>1. MinRate \in Nat /\ MaxRate \in Nat
      BY DEF MinRate, MaxRate
    <3>2. ~(Raised < c)
      BY <2>1, <2>4, <3>1
    <3> QED
      BY <2>4, <2>5, <2>6, <3>2
  <2>7. CASE long.frames >= LowerAfter /\ Decides(Lowered, long)
    BY <2>4, <2>5, <2>7
  <2>8. CASE controller' = [controller EXCEPT !.short = short,
                             !.long = IF long.frames >= LowerAfter THEN Window ELSE long]
    <3> DEFINE w == IF long.frames >= LowerAfter THEN Window ELSE long
    <3>1. w.frames \in Nat /\ w.frames <= since + 1
      BY <2>1 DEF Window
    <3>2. controller' = [controller EXCEPT !.short = short, !.long = w]
      BY <2>8
    <3> HIDE DEF w
    <3>3. controller' = [current |-> c, short |-> short, long |-> w]
      BY <3>2 DEF RateInv, c
    <3>4. /\ controller'.current = c /\ controller'.long = w
          /\ controller' = [current |-> controller'.current, short |-> controller'.short,
                            long |-> controller'.long]
      BY <3>3
    <3>5. since' = since + 1
      BY <2>2, <3>4
    <3>6. RateInv'
      BY <2>1, <3>1, <3>4, <3>5 DEF RateInv
    <3>7. PulseStep
      BY <2>1, <3>4 DEF PulseStep, c
    <3> QED
      BY <3>6, <3>7
  <2> QED
    BY <2>3, <2>6, <2>7, <2>8
<1> QED
  BY <1>1, <1>2 DEF RateNext

LEMMA RateInitially == RateInit => RateInv
<1> SUFFICES ASSUME RateInit PROVE RateInv
  OBVIOUS
<1>1. PICK shape \in Shapes : encoder = ResolveBitrate(shape)
  BY DEF RateInit
<1>2. encoder \in Nat
  <2>1. \A a, b \in Nat : Max({a, b}) \in Nat
    BY DEF Max
  <2>2. \A a, b \in Nat : Min({a, b}) \in Nat
    BY DEF Min
  <2>3. shape \in Nat /\ MinAuto \in Nat /\ MaxAuto \in Nat
    BY BitrateConstants DEF MinAuto, MaxAuto
  <2>4. AutoBitrate(shape) \in Nat
    BY <2>1, <2>2, <2>3 DEF AutoBitrate, Clamp
  <2> QED
    BY <1>1, <2>4 DEF ResolveBitrate
<1>3. Clamp(encoder, MinRate, MaxRate) \in MinRate..MaxRate
  BY <1>2, ClampIsBetween
<1> QED
  BY <1>3 DEF RateInit, RateInv, Window

-----------------------------------------------------------------------------
(* The telemetry of a session.                                             *)

Sessions == [gen : Nat \ {0}, viewOnly : BOOLEAN, clipboard : BOOLEAN, installed : BOOLEAN,
             fps : Nat, quality : {"low", "balanced", "best", "custom"}, custom : Nat,
             revision : Nat, elapsed : Nat]

Readings == [gen : Nat, revision : Nat, fps : Nat, elapsed : Nat]

(* The last reading is older than the session it was taken of.             *)
SampleIsOfSession ==
    /\ adds \in Nat
    /\ Alive => session \in Sessions /\ session.gen = adds
    /\ sample \subseteq Readings
    /\ \A a, b \in sample : a = b
    /\ \A a \in sample :
          /\ a.gen <= adds
          /\ (Alive /\ a.gen = session.gen) =>
               /\ a.revision <= session.revision /\ a.elapsed <= session.elapsed
               /\ a.revision = session.revision => a.fps = session.fps

SampleStep ==
    \A a \in sample, b \in sample' :
        (a.gen = b.gen /\ a.revision = b.revision)
        => a.fps = b.fps /\ a.elapsed <= b.elapsed

LEMMA SameSampleAgrees ==
    ASSUME SampleIsOfSession, sample' = sample
    PROVE  SampleStep
<1> SUFFICES ASSUME NEW a \in sample, NEW b \in sample
             PROVE  a.fps = b.fps /\ a.elapsed <= b.elapsed
  BY DEF SampleStep
<1>1. a = b /\ a \in Readings
  BY DEF SampleIsOfSession
<1> QED
  BY <1>1 DEF Readings

(* A step that keeps generation and clock, and the rate with its revision. *)
LEMMA KeptSessionAgrees ==
    ASSUME SampleIsOfSession, Alive, session' \in Sessions,
           sample' = sample, adds' = adds, session'.gen = session.gen,
           session'.elapsed = session.elapsed,
           \/ session'.fps = session.fps /\ session'.revision = session.revision
           \/ session'.revision = session.revision + 1
    PROVE  SampleIsOfSession' /\ SampleStep
<1>1. session \in Sessions /\ session.revision \in Nat
  BY DEF SampleIsOfSession, Sessions
<1>2. ASSUME NEW a \in sample, a.gen = session.gen
      PROVE  /\ a.revision <= session'.revision
             /\ a.revision = session'.revision => a.fps = session'.fps
  <2>1. /\ a \in Readings /\ a.revision <= session.revision
        /\ a.revision = session.revision => a.fps = session.fps
    BY <1>2 DEF SampleIsOfSession
  <2>2. a.revision \in Nat
    BY <2>1 DEF Readings
  <2> QED
    BY <1>1, <2>1, <2>2
<1>3. SampleIsOfSession'
  BY <1>2 DEF SampleIsOfSession
<1> QED
  BY <1>3, SameSampleAgrees

LEMMA TelemetryStep ==
    ASSUME SampleIsOfSession, [SettingsNext]_settingsVars
    PROVE  SampleIsOfSession' /\ SampleStep
<1>1. CASE UNCHANGED settingsVars
  <2>1. UNCHANGED <<session, sample, adds>>
    BY <1>1 DEF settingsVars
  <2> QED
    BY <2>1, SameSampleAgrees DEF SampleIsOfSession, Alive
<1>2. CASE UNCHANGED <<session, sample, adds>>
  BY <1>2, SameSampleAgrees DEF SampleIsOfSession, Alive
<1>3. CASE SettingsAdd
  <2>1. /\ ~Alive /\ sample' = sample /\ adds' = adds + 1 /\ adds \in Nat
    BY <1>3 DEF SettingsAdd, SampleIsOfSession
  <2>2. session' \in Sessions /\ session'.gen = adds + 1
    <3>1. PICK fps \in Rates, name \in Names, custom \in Customs,
          viewOnly \in BOOLEAN, clipboard \in BOOLEAN :
          session' = [gen |-> adds + 1, viewOnly |-> viewOnly,
                      clipboard |-> clipboard, installed |-> FALSE,
                      fps |-> IF ValidRate(fps) THEN fps ELSE 60,
                      quality |-> normalize_quality_name(name),
                      custom |-> IF ValidCustom(custom) THEN custom ELSE 0,
                      revision |-> 1, elapsed |-> 0]
      BY <1>3 DEF SettingsAdd
    <3>2. normalize_quality_name(name) \in {"low", "balanced", "best", "custom"}
      BY DEF normalize_quality_name
    <3>3. /\ (IF ValidRate(fps) THEN fps ELSE 60) \in Nat
          /\ (IF ValidCustom(custom) THEN custom ELSE 0) \in Nat
      BY SettingsConstants
    <3>4. adds + 1 \in Nat \ {0}
      BY <2>1
    <3> QED
      BY <3>1, <3>2, <3>3, <3>4 DEF Sessions
  <2>3. \A a \in sample : a.gen <= adds /\ a.gen \in Nat
    BY DEF SampleIsOfSession, Readings
  <2>4. SampleIsOfSession'
    BY <2>1, <2>2, <2>3 DEF SampleIsOfSession
  <2> QED
    BY <2>1, <2>4, SameSampleAgrees
<1>4. CASE SettingsClose
  <2>1. ~Alive' /\ sample' = sample /\ adds' = adds
    BY <1>4 DEF SettingsClose, Alive, tallies
  <2>2. SampleIsOfSession'
    BY <2>1 DEF SampleIsOfSession
  <2> QED
    BY <2>1, <2>2, SameSampleAgrees
<1>5. CASE SettingsStartInstalls
  <2>1. sample' = sample /\ adds' = adds
    BY <1>5 DEF SettingsStartInstalls, tallies
  <2>2. CASE ~Alive
    <3>1. session' = session
      BY <1>5, <2>2 DEF SettingsStartInstalls
    <3> QED
      BY <1>2, <2>1, <3>1
  <2>3. CASE Alive
    <3>1. session \in Sessions
      BY <2>3 DEF SampleIsOfSession
    <3>2. session' = [session EXCEPT !.installed = TRUE]
      BY <1>5, <2>3 DEF SettingsStartInstalls
    <3>3. /\ session' \in Sessions /\ session'.gen = session.gen
          /\ session'.elapsed = session.elapsed
          /\ session'.fps = session.fps /\ session'.revision = session.revision
      BY <3>1, <3>2 DEF Sessions
    <3> QED
      BY <2>1, <2>3, <3>3, KeptSessionAgrees
  <2> QED
    BY <2>2, <2>3
<1>6. ASSUME NEW enabled \in BOOLEAN, SetViewOnly(enabled)
      PROVE  SampleIsOfSession' /\ SampleStep
  <2>1. Alive /\ session \in Sessions /\ sample' = sample /\ adds' = adds
    BY <1>6 DEF SetViewOnly, SampleIsOfSession
  <2>2. session' = [session EXCEPT !.viewOnly = enabled]
    BY <1>6 DEF SetViewOnly
  <2>3. /\ session' \in Sessions /\ session'.gen = session.gen
        /\ session'.elapsed = session.elapsed
        /\ session'.fps = session.fps /\ session'.revision = session.revision
    BY <2>1, <2>2 DEF Sessions
  <2> QED
    BY <2>1, <2>3, KeptSessionAgrees
<1>7. ASSUME NEW fps \in Rates, SetCustomFps(fps)
      PROVE  SampleIsOfSession' /\ SampleStep
  <2>1. Alive /\ session \in Sessions /\ sample' = sample /\ adds' = adds /\ fps \in Nat
    BY <1>7, SettingsConstants DEF SetCustomFps, Called, SampleIsOfSession
  <2>2. session' = [session EXCEPT !.fps = fps, !.revision = session.revision + 1]
    BY <1>7 DEF SetCustomFps, Intended
  <2>3. session.revision + 1 \in Nat
    BY <2>1 DEF Sessions
  <2>4. /\ session' \in Sessions /\ session'.gen = session.gen
        /\ session'.elapsed = session.elapsed
        /\ session'.revision = session.revision + 1
    BY <2>1, <2>2, <2>3 DEF Sessions
  <2> QED
    BY <2>1, <2>4, KeptSessionAgrees
<1>8. ASSUME NEW name \in Names, SetImageQuality(name)
      PROVE  SampleIsOfSession' /\ SampleStep
  <2>1. Alive /\ session \in Sessions /\ sample' = sample /\ adds' = adds
    BY <1>8 DEF SetImageQuality, Called, SampleIsOfSession
  <2>2. session' = [session EXCEPT !.quality = normalize_quality_name(name)]
    BY <1>8 DEF SetImageQuality
  <2>3. normalize_quality_name(name) \in {"low", "balanced", "best", "custom"}
    BY DEF normalize_quality_name
  <2>4. /\ session' \in Sessions /\ session'.gen = session.gen
        /\ session'.elapsed = session.elapsed
        /\ session'.fps = session.fps /\ session'.revision = session.revision
    BY <2>1, <2>2, <2>3 DEF Sessions
  <2> QED
    BY <2>1, <2>4, KeptSessionAgrees
<1>9. ASSUME NEW custom \in Customs, SetCustomImageQuality(custom)
      PROVE  SampleIsOfSession' /\ SampleStep
  <2>1. Alive /\ session \in Sessions /\ sample' = sample /\ adds' = adds /\ custom \in Nat
    BY <1>9, SettingsConstants DEF SetCustomImageQuality, Called, SampleIsOfSession
  <2>2. session' = [session EXCEPT !.custom = custom]
    BY <1>9 DEF SetCustomImageQuality
  <2>3. /\ session' \in Sessions /\ session'.gen = session.gen
        /\ session'.elapsed = session.elapsed
        /\ session'.fps = session.fps /\ session'.revision = session.revision
    BY <2>1, <2>2 DEF Sessions
  <2> QED
    BY <2>1, <2>3, KeptSessionAgrees
<1>10. CASE FrameRateSnapshot
  <2>1. Alive /\ session \in Sessions /\ adds' = adds /\ session.elapsed \in Nat
    BY <1>10 DEF FrameRateSnapshot, SampleIsOfSession, Sessions
  <2>2. PICK e \in {session.elapsed, session.elapsed + 1} :
           session' = [session EXCEPT !.elapsed = e]
    BY <1>10 DEF FrameRateSnapshot, advance_telemetry_clock
  <2>3. e \in Nat /\ e >= session.elapsed
    BY <2>1, <2>2
  <2>4. /\ session' \in Sessions /\ session'.gen = session.gen /\ session'.elapsed = e
        /\ session'.fps = session.fps /\ session'.revision = session.revision
    BY <2>1, <2>2, <2>3 DEF Sessions
  <2> DEFINE r == [gen |-> session.gen, revision |-> session.revision,
                   fps |-> session.fps, elapsed |-> e]
  <2>5. r \in Readings /\ session.gen = adds
    BY <2>1, <2>3 DEF Readings, Sessions, SampleIsOfSession
  <2>6. \A a \in sample : a.gen = session.gen =>
             /\ a.revision <= session.revision /\ a.elapsed <= e
             /\ a.revision = session.revision => a.fps = session.fps
    <3> SUFFICES ASSUME NEW a \in sample, a.gen = session.gen
                 PROVE  /\ a.revision <= session.revision /\ a.elapsed <= e
                        /\ a.revision = session.revision => a.fps = session.fps
      OBVIOUS
    <3>1. /\ a.revision <= session.revision /\ a.elapsed <= session.elapsed
          /\ a.revision = session.revision => a.fps = session.fps /\ a \in Readings
      BY <2>1 DEF SampleIsOfSession
    <3>2. a.elapsed \in Nat
      BY DEF SampleIsOfSession, Readings
    <3> QED
      BY <2>1, <2>3, <3>1, <3>2
  <2>7. CASE session.installed
    <3>1. sample' = {r}
      BY <1>10, <2>4, <2>7 DEF FrameRateSnapshot
    <3>2. /\ r.gen = session.gen /\ r.revision = session.revision
          /\ r.fps = session.fps /\ r.elapsed = e
      OBVIOUS
    <3> HIDE DEF r
    <3>3. SampleStep
      BY <2>6, <3>1, <3>2 DEF SampleStep
    <3>4. /\ session.revision \in Nat /\ adds \in Nat
      BY <2>1 DEF Sessions, SampleIsOfSession
    <3>5. SampleIsOfSession'
      BY <2>1, <2>3, <2>4, <2>5, <3>1, <3>2, <3>4 DEF SampleIsOfSession
    <3> QED
      BY <3>3, <3>5
  <2>8. CASE ~session.installed
    <3>1. sample' = sample
      BY <1>10, <2>8 DEF FrameRateSnapshot
    <3>2. SampleIsOfSession'
      BY <2>1, <2>4, <2>6, <3>1 DEF SampleIsOfSession
    <3> QED
      BY <3>1, <3>2, SameSampleAgrees
  <2> QED
    BY <2>7, <2>8
<1>11. CASE \/ SettingsStartBegins \/ SettingsStartDials
            \/ SendClipboard \/ ChangeResolution \/ RefreshVideo \/ SwitchDisplay
            \/ LoginSends \/ LoginAccepted \/ ChannelPublished \/ WriterSends \/ PeerReports
  <2>1. UNCHANGED <<session, sample, adds>>
    BY <1>11 DEF SettingsStartBegins, SettingsStartDials, SendClipboard, ChangeResolution,
       RefreshVideo, SwitchDisplay, LoginSends, LoginAccepted, ChannelPublished, WriterSends,
       PeerReports, Called, Queues, ViewerStep, tallies
  <2> QED
    BY <1>2, <2>1
<1> QED
  BY <1>1, <1>3, <1>4, <1>5, <1>6, <1>7, <1>8, <1>9, <1>10, <1>11 DEF SettingsNext

-----------------------------------------------------------------------------
(* Queues.  A set of messages About is about one thing, and some of these  *)
(* are Bad.  EndsBad: the last message of the queue about it is bad;       *)
(* Silent: there is none.                                                  *)
EndsBad(q, About, Bad) ==
    \E i \in 1..Len(q) : /\ q[i] \in Bad
                         /\ \A j \in 1..Len(q) : j > i => q[j] \notin About
Silent(q, About) == \A i \in 1..Len(q) : q[i] \notin About

(* A message that is put at the end decides, when it is about the thing.   *)
LEMMA AppendDecides ==
    ASSUME NEW S, NEW q \in Seq(S), NEW m \in S, NEW About_, NEW Bad, m \in About_
    PROVE  /\ ~Silent(Append(q, m), About_)
           /\ EndsBad(Append(q, m), About_, Bad) => m \in Bad
<1> DEFINE w == Append(q, m)
           n == Len(q)
<1>1. /\ n \in Nat /\ Len(w) = n + 1 /\ w[n + 1] = m
      /\ \A i \in 1..n : w[i] = q[i]
  OBVIOUS
<1> HIDE DEF w, n
<1>2. ~Silent(w, About_)
  BY <1>1 DEF Silent
<1>3. ASSUME EndsBad(w, About_, Bad) PROVE m \in Bad
  <2>1. PICK i \in 1..Len(w) : w[i] \in Bad /\ \A j \in 1..Len(w) : j > i => w[j] \notin About_
    BY <1>3 DEF EndsBad
  <2>2. i = n + 1
    BY <1>1, <2>1
  <2> QED
    BY <1>1, <2>1, <2>2
<1> QED
  BY <1>2, <1>3 DEF w

(* One that is not about it changes nothing.                               *)
LEMMA AppendIsSilent ==
    ASSUME NEW S, NEW q \in Seq(S), NEW m \in S, NEW About_, NEW Bad,
           m \notin About_, Bad \subseteq About_
    PROVE  /\ Silent(Append(q, m), About_) => Silent(q, About_)
           /\ EndsBad(Append(q, m), About_, Bad) => EndsBad(q, About_, Bad)
<1> DEFINE w == Append(q, m)
           n == Len(q)
<1>1. /\ n \in Nat /\ Len(w) = n + 1 /\ w[n + 1] = m /\ n = Len(q)
      /\ \A i \in 1..n : w[i] = q[i]
  OBVIOUS
<1> HIDE DEF w, n
<1>2. ASSUME Silent(w, About_) PROVE Silent(q, About_)
  BY <1>1, <1>2 DEF Silent
<1>3. ASSUME EndsBad(w, About_, Bad) PROVE EndsBad(q, About_, Bad)
  <2>1. PICK i \in 1..Len(w) : w[i] \in Bad /\ \A j \in 1..Len(w) : j > i => w[j] \notin About_
    BY <1>3 DEF EndsBad
  <2>2. i \in 1..n
    BY <1>1, <2>1
  <2>3. q[i] \in Bad /\ \A j \in 1..n : j > i => q[j] \notin About_
    BY <1>1, <2>1, <2>2
  <2> QED
    BY <1>1, <2>2, <2>3 DEF EndsBad
<1> QED
  BY <1>2, <1>3 DEF w

(* Taking the head: what is bad behind it was bad before; and when nothing *)
(* about the thing is left, the head, if about it, was the last.           *)
LEMMA TailKeeps ==
    ASSUME NEW S, NEW q \in Seq(S), q # <<>>, NEW About_, NEW Bad
    PROVE  /\ EndsBad(Tail(q), About_, Bad) => EndsBad(q, About_, Bad)
           /\ (Silent(Tail(q), About_) /\ Head(q) \in Bad) => EndsBad(q, About_, Bad)
           /\ (Silent(Tail(q), About_) /\ Head(q) \notin About_) => Silent(q, About_)
<1> DEFINE t == Tail(q)
           n == Len(q)
<1>1. /\ n \in Nat /\ n >= 1 /\ Len(t) = n - 1 /\ n = Len(q)
      /\ \A i \in 1..(n - 1) : t[i] = q[i + 1]
      /\ Head(q) = q[1]
  OBVIOUS
<1> HIDE DEF t, n
<1>2. ASSUME EndsBad(t, About_, Bad) PROVE EndsBad(q, About_, Bad)
  <2>1. PICK i \in 1..Len(t) : t[i] \in Bad /\ \A j \in 1..Len(t) : j > i => t[j] \notin About_
    BY <1>2 DEF EndsBad
  <2>2. i + 1 \in 1..Len(q) /\ q[i + 1] \in Bad
    BY <1>1, <2>1
  <2>3. ASSUME NEW j \in 1..Len(q), j > i + 1 PROVE q[j] \notin About_
    <3>1. j - 1 \in 1..Len(t) /\ j - 1 > i /\ t[j - 1] = q[(j - 1) + 1] /\ (j - 1) + 1 = j
      BY <1>1, <2>1, <2>3
    <3> QED
      BY <2>1, <3>1
  <2> QED
    BY <2>2, <2>3 DEF EndsBad
<1>3. ASSUME Silent(t, About_)
      PROVE  \A j \in 1..Len(q) : j > 1 => q[j] \notin About_
  <2> SUFFICES ASSUME NEW j \in 1..Len(q), j > 1 PROVE q[j] \notin About_
    OBVIOUS
  <2>1. j - 1 \in 1..Len(t) /\ t[j - 1] = q[(j - 1) + 1] /\ (j - 1) + 1 = j
    BY <1>1
  <2> QED
    BY <1>3, <2>1 DEF Silent
<1>4. 1 \in 1..Len(q)
  BY <1>1
<1>5. Silent(t, About_) /\ Head(q) \in Bad => EndsBad(q, About_, Bad)
  BY <1>1, <1>3, <1>4 DEF EndsBad
<1>6. Silent(t, About_) /\ Head(q) \notin About_ => Silent(q, About_)
  <2> SUFFICES ASSUME Silent(t, About_), Head(q) \notin About_, NEW i \in 1..Len(q)
               PROVE  q[i] \notin About_
    BY DEF Silent
  <2>1. i = 1 \/ i > 1
    BY <1>1
  <2> QED
    BY <1>1, <1>3, <2>1
<1> QED
  BY <1>2, <1>5, <1>6 DEF t

LEMMA EmptyIsSilent ==
    ASSUME NEW About_, NEW Bad
    PROVE  Silent(<<>>, About_) /\ ~EndsBad(<<>>, About_, Bad)
BY DEF Silent, EndsBad

LEMMA AtMostOne ==
    ASSUME NEW S, S = {} \/ \E x \in S : S = {x}
    PROVE  Cardinality(S) <= 1
<1>1. CASE S = {}
  BY <1>1, FS_EmptySet
<1>2. CASE \E x \in S : S = {x}
  <2>1. PICK x \in S : S = {x}
    BY <1>2
  <2>2. Cardinality({x}) = 1
    BY FS_Singleton
  <2> QED
    BY <2>1, <2>2
<1> QED
  BY <1>1, <1>2

-----------------------------------------------------------------------------
(* Colours.                                                                *)

(* The stream was opened for some desktop, and says what that one meant.   *)
StreamIsOf(s, d, codec) ==
    /\ Captures(d) /\ Encodable(source_color(d))
    /\ s.info = capture_info(d)
    /\ s.config = native_config(codec, capture_info(d))
    /\ validate_unit(s)

UnitIsTrue(u) ==
    /\ u.width = u.shows.width
    /\ u.depth = component_bits(u.shows.format)
    /\ u.shows.bits >= u.depth
    /\ u.says.primaries = IF u.shows.space = "G2084_P2020" THEN 9 ELSE 1
    /\ u.says.transfer = IF u.shows.space = "G2084_P2020" THEN 16 ELSE 4
    /\ u.says.transfer = 16 => u.metadata # {}

ColourInv ==
    /\ desktop \in Desktops /\ announced \subseteq Codecs /\ steps \in 0..MaxSteps
    /\ stream = {} \/ \E s \in stream : stream = {s}
    /\ unit = {} \/ \E u \in unit : unit = {u}
    /\ \A s \in stream : \E d \in Desktops, codec \in Codecs : StreamIsOf(s, d, codec)
    /\ \A u \in unit : UnitIsTrue(u)

(* Capture hands out no mastering metadata, so no stream in PQ is opened.  *)
LEMMA NoStreamInPq ==
    ASSUME NEW s, NEW d, NEW codec, StreamIsOf(s, d, codec)
    PROVE  d.space # "G2084_P2020"
<1> DEFINE e == encoded_color(source_color(d))
<1>1. s.config.encoded = e /\ Captures(d)
  BY DEF StreamIsOf, native_config, capture_info
<1>2. SUFFICES ASSUME d.space = "G2084_P2020" PROVE FALSE
  OBVIOUS
<1>3. d.format = "RGB10A2"
  BY <1>1, <1>2 DEF Captures, KnownColor
<1>4. e.hdr = {} /\ e.colorimetry.transfer = "pq"
  BY <1>2, <1>3 DEF encoded_color, source_color, Colorimetry
<1> HIDE DEF e
<1>5. classify_negotiated(e, e) = {}
  BY <1>4 DEF classify_negotiated
<1> QED
  BY <1>1, <1>5 DEF StreamIsOf, validate_unit

(* So a unit of a stream, taken of a desktop that passed the checks, says  *)
(* what that desktop means.                                                *)
LEMMA TakenUnitIsTrue ==
    ASSUME NEW s, NEW d, NEW codec, StreamIsOf(s, d, codec),
           from_raw(s, desktop), validate_texture(s, desktop)
    PROVE  UnitIsTrue([shows |-> desktop, says |-> vui(s.config.encoded),
                       depth |-> s.config.encoded.storage.depth,
                       metadata |-> s.config.encoded.hdr, width |-> s.config.width])
<1> DEFINE e == encoded_color(source_color(d))
<1>1. /\ s.config.encoded = e /\ s.config.width = d.width
      /\ capture_info(desktop) = capture_info(d) /\ Captures(d)
  BY DEF StreamIsOf, native_config, capture_info, from_raw
<1>2. /\ desktop.width = d.width /\ desktop.format = d.format
      /\ desktop.space = d.space /\ desktop.bits = d.bits
  BY <1>1 DEF capture_info
<1>3. d.space # "G2084_P2020"
  BY NoStreamInPq
<1>4. /\ d.space = "G22_P709"
      /\ \/ d.format = "BGRA8" /\ d.bits >= 8
         \/ d.format = "RGB10A2" /\ d.bits >= 10
  BY <1>1, <1>3 DEF Captures, KnownColor
<1>5. /\ e.storage.depth = component_bits(d.format)
      /\ e.colorimetry.primaries = "bt709" /\ e.colorimetry.transfer = "gamma22"
      /\ d.bits >= component_bits(d.format)
  BY <1>4 DEF encoded_color, source_color, Colorimetry, storage, EncodedFormat, component_bits
<1> HIDE DEF e
<1>6. vui(e).primaries = 1 /\ vui(e).transfer = 4
  BY <1>5 DEF vui
<1> QED
  BY <1>1, <1>2, <1>4, <1>5, <1>6 DEF UnitIsTrue

LEMMA ColourStep ==
    ASSUME ColourInv, [ColorNext]_colorVars
    PROVE  ColourInv'
<1>1. /\ desktop \in Desktops /\ announced \subseteq Codecs /\ steps \in 0..MaxSteps
      /\ stream = {} \/ \E s \in stream : stream = {s}
      /\ unit = {} \/ \E u \in unit : unit = {u}
      /\ \A s \in stream : \E d \in Desktops, codec \in Codecs : StreamIsOf(s, d, codec)
      /\ \A u \in unit : UnitIsTrue(u)
      /\ MaxSteps \in Nat
  BY ColorConstants DEF ColourInv
<1>2. CASE Probe
  <2>1. announced' \subseteq Codecs /\ UNCHANGED <<desktop, stream, unit, steps>>
    BY <1>2 DEF Probe
  <2> QED
    BY <1>1, <2>1 DEF ColourInv
<1>3. CASE EndSession
  <2>1. announced' = {} /\ stream' = {} /\ unit' = {} /\ UNCHANGED <<desktop, steps>>
    BY <1>3 DEF EndSession
  <2> QED
    BY <1>1, <2>1 DEF ColourInv
<1>4. ASSUME NEW codec \in Codecs, OpenStream(codec) PROVE ColourInv'
  <2>1. /\ announced' \subseteq Codecs /\ UNCHANGED <<desktop, unit, steps>>
        /\ stream = {}
    BY <1>1, <1>4 DEF OpenStream
  <2>2. CASE OpensFor(codec, desktop)
    <3> DEFINE s == [info |-> capture_info(desktop),
                     config |-> native_config(codec, capture_info(desktop))]
    <3>1. stream' = {s}
      BY <1>4, <2>2 DEF OpenStream
    <3>2. s.info = capture_info(desktop) /\ s.config = native_config(codec, capture_info(desktop))
      OBVIOUS
    <3> HIDE DEF s
    <3>3. /\ Captures(desktop) /\ Encodable(source_color(desktop))
          /\ validate_encoded_transport(s.config.encoded)
      BY <2>2, <3>2 DEF OpensFor, Configures, NewEncoder, capture_info
    <3>4. StreamIsOf(s, desktop, codec)
      BY <3>2, <3>3 DEF StreamIsOf, validate_unit, validate_encoded_transport
    <3> QED
      BY <1>1, <2>1, <3>1, <3>4 DEF ColourInv
  <2>3. CASE ~OpensFor(codec, desktop)
    <3>1. stream' = {}
      BY <1>4, <2>1, <2>3 DEF OpenStream
    <3> QED
      BY <1>1, <2>1, <3>1 DEF ColourInv
  <2> QED
    BY <2>2, <2>3
<1>5. ASSUME NEW s \in stream, NextUnit(s) PROVE ColourInv'
  <2>1. /\ desktop' = desktop /\ steps' \in 0..MaxSteps
    BY <1>1, <1>5 DEF NextUnit
  <2>2. CASE from_raw(s, desktop) /\ validate_texture(s, desktop) /\ validate_unit(s)
    <3> DEFINE u == [shows |-> desktop, says |-> vui(s.config.encoded),
                     depth |-> s.config.encoded.storage.depth,
                     metadata |-> s.config.encoded.hdr, width |-> s.config.width]
    <3>1. unit' = {u} /\ UNCHANGED <<announced, stream>>
      BY <1>5, <2>2 DEF NextUnit
    <3>2. PICK d \in Desktops, codec \in Codecs : StreamIsOf(s, d, codec)
      BY <1>1
    <3>3. UnitIsTrue(u)
      BY <2>2, <3>2, TakenUnitIsTrue
    <3> HIDE DEF u
    <3> QED
      BY <1>1, <2>1, <3>1, <3>3 DEF ColourInv
  <2>3. CASE ~(from_raw(s, desktop) /\ validate_texture(s, desktop) /\ validate_unit(s))
    <3>1. stream' = {} /\ announced' = {} /\ unit' = unit
      BY <1>5, <2>3 DEF NextUnit
    <3> QED
      BY <1>1, <2>1, <3>1 DEF ColourInv
  <2> QED
    BY <2>2, <2>3
<1>6. ASSUME NEW d \in Desktops, ChangeDesktop(d) PROVE ColourInv'
  <2>1. /\ desktop' \in Desktops /\ steps' \in 0..MaxSteps
        /\ UNCHANGED <<announced, stream, unit>>
    BY <1>1, <1>6 DEF ChangeDesktop
  <2> QED
    BY <1>1, <2>1 DEF ColourInv
<1>7. CASE UNCHANGED colorVars
  BY <1>1, <1>7 DEF colorVars, ColourInv
<1> QED
  BY <1>2, <1>3, <1>4, <1>5, <1>6, <1>7 DEF ColorNext

LEMMA ColourIsEnough == ColourInv => ColorTypeOK /\ ColourIsKept
<1> SUFFICES ASSUME ColourInv PROVE ColorTypeOK /\ ColourIsKept
  OBVIOUS
<1>1. Cardinality(stream) <= 1 /\ Cardinality(unit) <= 1
  BY AtMostOne DEF ColourInv
<1> QED
  BY <1>1 DEF ColourInv, ColorTypeOK, ColourIsKept, UnitIsTrue

LEMMA ColourInitially == ColorInit => ColourInv
BY ColorConstants DEF ColorInit, ColourInv

-----------------------------------------------------------------------------
(* Settings.                                                               *)

Qualities == [label : {"low", "balanced", "best", "custom"}, custom : Nat]
WireQualities == [preset : {"low", "balanced", "best"}, custom : Nat]
ToldQualities == WireQualities \cup {NothingTold.quality}

RustDeskViewers ==
    [kind : {"rustdesk", "vnc"}, fps : Nat, stage : {"login", "sent", "accepted", "running"},
     options : [fps : Nat, quality : Qualities], quality : Qualities,
     clipboard : BOOLEAN, granted : BOOLEAN]

StartStates == {NoStart} \cup
    [step : {"dial", "install"}, fps : Nat, quality : Qualities, clipboard : BOOLEAN]

RateMessages == [kind : {"fps"}, fps : Nat]
QualityMessages == [kind : {"quality"}, quality : WireQualities]
PlainKinds == {"clipboard", "resolution", "refresh", "switch", "query"}
Messages == RateMessages \cup QualityMessages \cup [kind : PlainKinds]

SettingTypes ==
    /\ Alive => session \in Sessions
    /\ start \in StartStates
    /\ viewer \in {NoBackend} \cup RustDeskViewers
    /\ channel \in Seq(Messages) /\ Len(channel) <= Room
    /\ told \in [fps : Nat, quality : ToldQualities]
    /\ strayed \in BOOLEAN /\ adds \in Nat

(* The backend is installed once, and only an installed one, whose channel *)
(* is published, has messages waiting.                                     *)
StartKeeps ==
    /\ Alive => session.fps \in 1..240
    /\ Installed => viewer # NoBackend /\ start = NoStart
    /\ start.step = "install" => viewer # NoBackend
    /\ channel # <<>> => RustDesk /\ viewer.stage = "running"

(* What was asked of the peer last is what the viewer keeps: with the      *)
(* login, or with the last message of the channel about it.                *)
WrongRates(v) == {m \in RateMessages : m.fps # v.fps}
WrongQualities(v) == {m \in QualityMessages : m.quality # wire_quality(v.quality)}

ChannelTells(c, v, t) ==
    /\ v.stage # "login" =>
          /\ Silent(c, RateMessages) => t.fps = v.fps
          /\ Silent(c, QualityMessages) => t.quality = wire_quality(v.quality)
    /\ ~EndsBad(c, RateMessages, WrongRates(v))
    /\ ~EndsBad(c, QualityMessages, WrongQualities(v))

ToldKeeps ==
    (viewer.kind = "rustdesk" /\ ~strayed) =>
        /\ viewer.stage = "login" => /\ viewer.options.fps = viewer.fps
                                     /\ viewer.options.quality = viewer.quality
        /\ ChannelTells(channel, viewer, told)

NothingOfTheUser(c) == \A i \in 1..Len(c) : c[i].kind \notin {"clipboard", "resolution"}
ViewOnlyKeeps == Installed /\ session.viewOnly => NothingOfTheUser(channel)

SettingsInv == SettingTypes /\ StartKeeps /\ ToldKeeps /\ ViewOnlyKeeps

LEMMA QualityTypes ==
    /\ \A s \in Sessions : engine_quality(s) \in Qualities
    /\ \A q \in Qualities : wire_quality(q) \in WireQualities
    /\ \A name : normalize_quality_name(name) \in {"low", "balanced", "best", "custom"}
BY DEF engine_quality, wire_quality, normalize_quality_name, Qualities, WireQualities, Sessions,
   ValidCustom

(* A message about no setting disturbs none.                               *)
LEMMA PlainTells ==
    ASSUME NEW c \in Seq(Messages), NEW v, NEW t, ChannelTells(c, v, t), NEW kind \in PlainKinds
    PROVE  /\ Append(c, [kind |-> kind]) \in Seq(Messages)
           /\ ChannelTells(Append(c, [kind |-> kind]), v, t)
<1> DEFINE m == [kind |-> kind]
           w == Append(c, m)
           R == WrongRates(v)
           Q == WrongQualities(v)
<1>1. m \in Messages /\ m \notin RateMessages /\ m \notin QualityMessages
  BY DEF Messages, PlainKinds, RateMessages, QualityMessages
<1>2. R \subseteq RateMessages /\ Q \subseteq QualityMessages
  BY DEF WrongRates, WrongQualities
<1> HIDE DEF m, R, Q
<1>3. /\ Silent(w, RateMessages) => Silent(c, RateMessages)
      /\ EndsBad(w, RateMessages, R) => EndsBad(c, RateMessages, R)
  BY <1>1, <1>2, AppendIsSilent
<1>4. /\ Silent(w, QualityMessages) => Silent(c, QualityMessages)
      /\ EndsBad(w, QualityMessages, Q) => EndsBad(c, QualityMessages, Q)
  BY <1>1, <1>2, AppendIsSilent
<1>5. w \in Seq(Messages)
  BY <1>1
<1> HIDE DEF w
<1>6. /\ v.stage # "login" =>
            /\ Silent(c, RateMessages) => t.fps = v.fps
            /\ Silent(c, QualityMessages) => t.quality = wire_quality(v.quality)
      /\ ~EndsBad(c, RateMessages, R) /\ ~EndsBad(c, QualityMessages, Q)
  BY DEF ChannelTells, R, Q
<1>7. /\ v.stage # "login" =>
            /\ Silent(w, RateMessages) => t.fps = v.fps
            /\ Silent(w, QualityMessages) => t.quality = wire_quality(v.quality)
      /\ ~EndsBad(w, RateMessages, R) /\ ~EndsBad(w, QualityMessages, Q)
  BY <1>3, <1>4, <1>6
<1>8. ChannelTells(w, v, t)
  BY <1>7 DEF ChannelTells, R, Q
<1> QED
  BY <1>5, <1>8 DEF w, m

LEMMA PlainIsOfNobody ==
    ASSUME NEW c \in Seq(Messages), NothingOfTheUser(c), NEW m,
           m.kind \notin {"clipboard", "resolution"}
    PROVE  NothingOfTheUser(Append(c, m))
<1> DEFINE w == Append(c, m)
           n == Len(c)
<1>1. /\ n \in Nat /\ Len(w) = n + 1 /\ w[n + 1] = m /\ n = Len(c)
      /\ \A i \in 1..n : w[i] = c[i]
  OBVIOUS
<1> HIDE DEF w, n
<1>2. NothingOfTheUser(w)
  BY <1>1 DEF NothingOfTheUser
<1> QED
  BY <1>2 DEF w

(* Nothing waits while no backend of a session runs.                       *)
LEMMA ChannelOfNone ==
    ASSUME SettingsInv, ~Installed \/ viewer.kind # "rustdesk" \/ viewer.stage # "running"
    PROVE  channel = <<>>
BY DEF SettingsInv, StartKeeps, RustDesk

LEMMA EmptyTells == Silent(<<>>, RateMessages) /\ Silent(<<>>, QualityMessages)
                    /\ NothingOfTheUser(<<>>) /\ <<>> \in Seq(Messages) /\ Len(<<>>) = 0
                    /\ \A B : ~EndsBad(<<>>, RateMessages, B) /\ ~EndsBad(<<>>, QualityMessages, B)
BY DEF Silent, EndsBad, NothingOfTheUser

(* A call that changes nothing but the session, and neither its backend    *)
(* nor its policy.                                                         *)
LEMMA SessionOnlyKeeps ==
    ASSUME SettingsInv, Alive, session' \in Sessions, session'.fps \in 1..240,
           session'.installed = session.installed,
           session'.viewOnly = session.viewOnly \/ ~session.installed,
           UNCHANGED <<start, viewer, channel, told, strayed, adds>>
    PROVE  SettingsInv'
<1>1. Alive' /\ (Installed' <=> Installed) /\ (RustDesk' <=> RustDesk)
  BY DEF Alive, Installed, RustDesk, Sessions, NoSettings
<1>2. SettingTypes' /\ StartKeeps'
  BY <1>1 DEF SettingsInv, SettingTypes, StartKeeps
<1>3. ToldKeeps'
  BY DEF SettingsInv, ToldKeeps, ChannelTells
<1>4. ViewOnlyKeeps'
  BY <1>1 DEF SettingsInv, ViewOnlyKeeps, NothingOfTheUser, Installed
<1> QED
  BY <1>2, <1>3, <1>4 DEF SettingsInv

LEMMA SessionIsSession == SettingsInv /\ Alive => session \in Sessions /\ session.fps \in 1..240
BY DEF SettingsInv, SettingTypes, StartKeeps

(* A rate or quality request, whatever became of it.                       *)
LEMMA RateKeeps ==
    ASSUME SettingsInv, Alive, session' \in Sessions, session'.fps \in 1..240,
           session'.installed = session.installed, session'.viewOnly = session.viewOnly,
           NEW fps \in Nat, RequestRate(fps), UNCHANGED <<start, told, adds>>
    PROVE  SettingsInv'
<1>1. CASE UNCHANGED <<viewer, channel, strayed>>
  BY <1>1, SessionOnlyKeeps
<1> SUFFICES ASSUME RustDesk, viewer' = [viewer EXCEPT !.fps = fps],
                    \/ /\ Authenticated /\ CanSend /\ strayed' = strayed
                       /\ channel' = Append(channel, [kind |-> "fps", fps |-> fps])
                    \/ ~Authenticated /\ strayed' = TRUE /\ channel' = channel
             PROVE  SettingsInv'
  BY <1>1 DEF RequestRate, Setting
<1> DEFINE m == [kind |-> "fps", fps |-> fps]
           w == Append(channel, m)
           Q == WrongQualities(viewer)
<1>2. Alive' /\ Installed /\ Installed'
  BY DEF Alive, Installed, RustDesk, Sessions, NoSettings
<1>3. viewer \in RustDeskViewers /\ viewer.kind = "rustdesk"
  BY DEF SettingsInv, SettingTypes, RustDesk, NoBackend
<1>4. /\ viewer' \in RustDeskViewers /\ viewer'.fps = fps /\ viewer'.kind = "rustdesk"
      /\ viewer'.quality = viewer.quality /\ viewer'.stage = viewer.stage
      /\ viewer' # NoBackend
  BY <1>3 DEF RustDeskViewers, NoBackend
<1>5. m \in Messages /\ m \in RateMessages /\ m \notin QualityMessages /\ m.fps = fps /\ m.kind = "fps"
  BY DEF Messages, RateMessages, QualityMessages
<1>6. /\ channel \in Seq(Messages) /\ Len(channel) \in Nat
      /\ w \in Seq(Messages) /\ Len(w) = Len(channel) + 1 /\ w # <<>>
  BY <1>5 DEF SettingsInv, SettingTypes
<1>7. Room \in Nat /\ Len(channel) <= Room
  BY SettingsConstants DEF SettingsInv, SettingTypes
<1>8. CASE Authenticated
  <2>1. channel' = w /\ strayed' = strayed /\ CanSend
    BY <1>8
  <2>2. /\ ~Silent(w, RateMessages)
        /\ \A B : EndsBad(w, RateMessages, B) => m \in B
    <3> HIDE DEF m
    <3>1. ~Silent(w, RateMessages)
      BY <1>5, <1>6, AppendDecides
    <3>2. ASSUME NEW B, EndsBad(w, RateMessages, B) PROVE m \in B
      BY <1>5, <1>6, <3>2, AppendDecides
    <3> QED
      BY <3>1, <3>2
  <2>3. Q \subseteq QualityMessages
    BY DEF WrongQualities
  <2>4. /\ Silent(w, QualityMessages) => Silent(channel, QualityMessages)
        /\ EndsBad(w, QualityMessages, Q) => EndsBad(channel, QualityMessages, Q)
    <3> HIDE DEF Q, m
    <3> QED
      BY <1>5, <1>6, <2>3, AppendIsSilent
  <2>5. NothingOfTheUser(channel) => NothingOfTheUser(w)
    BY <1>5, <1>6, PlainIsOfNobody
  <2> HIDE DEF w, m
  <2>6. SettingTypes' /\ StartKeeps'
    BY <1>2, <1>4, <1>6, <1>7, <2>1 DEF SettingsInv, SettingTypes, StartKeeps, RustDesk, CanSend
  <2>7. ToldKeeps'
    <3> SUFFICES ASSUME ~strayed PROVE ChannelTells(w, viewer', told)
      BY <1>4, <1>8, <2>1 DEF ToldKeeps, Authenticated
    <3>1. ChannelTells(channel, viewer, told) /\ viewer.stage # "login"
      BY <1>3, <1>8 DEF SettingsInv, ToldKeeps, Authenticated
    <3>2. m \notin WrongRates(viewer')
      BY <1>4, <1>5 DEF WrongRates
    <3>4. ~EndsBad(w, RateMessages, WrongRates(viewer'))
      BY <2>2, <3>2
    <3>5. Silent(w, QualityMessages) => told.quality = wire_quality(viewer.quality)
      BY <2>4, <3>1 DEF ChannelTells
    <3>6. ~EndsBad(w, QualityMessages, Q)
      BY <2>4, <3>1 DEF ChannelTells
    <3>7. Q = WrongQualities(viewer')
      BY <1>4 DEF WrongQualities
    <3> HIDE DEF Q
    <3> QED
      BY <1>4, <2>2, <3>4, <3>5, <3>6, <3>7 DEF ChannelTells
  <2>8. ViewOnlyKeeps'
    BY <1>2, <2>1, <2>5 DEF SettingsInv, ViewOnlyKeeps
  <2> QED
    BY <2>6, <2>7, <2>8 DEF SettingsInv
<1>9. CASE ~Authenticated
  <2>1. strayed' = TRUE /\ channel' = channel
    BY <1>9
  <2>2. channel = <<>>
    BY <1>9, ChannelOfNone DEF Authenticated
  <2>3. SettingTypes' /\ StartKeeps' /\ ToldKeeps' /\ ViewOnlyKeeps'
    BY <1>2, <1>4, <2>1, <2>2, EmptyTells DEF SettingsInv, SettingTypes, StartKeeps, ToldKeeps, ViewOnlyKeeps
  <2> QED
    BY <2>3 DEF SettingsInv
<1> QED
  BY <1>8, <1>9

LEMMA QualityKeeps ==
    ASSUME SettingsInv, Alive, session' \in Sessions, session'.fps \in 1..240,
           session'.installed = session.installed, session'.viewOnly = session.viewOnly,
           NEW q \in Qualities, RequestQuality(q), UNCHANGED <<start, told, adds>>
    PROVE  SettingsInv'
<1>1. CASE UNCHANGED <<viewer, channel, strayed>>
  BY <1>1, SessionOnlyKeeps
<1> SUFFICES ASSUME RustDesk, viewer' = [viewer EXCEPT !.quality = q],
                    \/ /\ Authenticated /\ CanSend /\ strayed' = strayed
                       /\ channel' = Append(channel, [kind |-> "quality", quality |-> wire_quality(q)])
                    \/ ~Authenticated /\ strayed' = TRUE /\ channel' = channel
             PROVE  SettingsInv'
  BY <1>1 DEF RequestQuality, Setting
<1> DEFINE m == [kind |-> "quality", quality |-> wire_quality(q)]
           w == Append(channel, m)
           Q == WrongRates(viewer)
<1>2. Alive' /\ Installed /\ Installed'
  BY DEF Alive, Installed, RustDesk, Sessions, NoSettings
<1>3. viewer \in RustDeskViewers /\ viewer.kind = "rustdesk"
  BY DEF SettingsInv, SettingTypes, RustDesk, NoBackend
<1>4. /\ viewer' \in RustDeskViewers /\ viewer'.quality = q /\ viewer'.kind = "rustdesk"
      /\ viewer'.fps = viewer.fps /\ viewer'.stage = viewer.stage
      /\ viewer' # NoBackend
  BY <1>3 DEF RustDeskViewers, NoBackend
<1>5. /\ m \in Messages /\ m \in QualityMessages /\ m \notin RateMessages
      /\ m.quality = wire_quality(q) /\ m.kind = "quality"
  BY QualityTypes DEF Messages, RateMessages, QualityMessages
<1>6. /\ channel \in Seq(Messages) /\ Len(channel) \in Nat
      /\ w \in Seq(Messages) /\ Len(w) = Len(channel) + 1 /\ w # <<>>
  BY <1>5 DEF SettingsInv, SettingTypes
<1>7. Room \in Nat /\ Len(channel) <= Room
  BY SettingsConstants DEF SettingsInv, SettingTypes
<1>8. CASE Authenticated
  <2>1. channel' = w /\ strayed' = strayed /\ CanSend
    BY <1>8
  <2>2. /\ ~Silent(w, QualityMessages)
        /\ \A B : EndsBad(w, QualityMessages, B) => m \in B
    <3> HIDE DEF m
    <3>1. ~Silent(w, QualityMessages)
      BY <1>5, <1>6, AppendDecides
    <3>2. ASSUME NEW B, EndsBad(w, QualityMessages, B) PROVE m \in B
      BY <1>5, <1>6, <3>2, AppendDecides
    <3> QED
      BY <3>1, <3>2
  <2>3. Q \subseteq RateMessages
    BY DEF WrongRates
  <2>4. /\ Silent(w, RateMessages) => Silent(channel, RateMessages)
        /\ EndsBad(w, RateMessages, Q) => EndsBad(channel, RateMessages, Q)
    <3> HIDE DEF Q, m
    <3> QED
      BY <1>5, <1>6, <2>3, AppendIsSilent
  <2>5. NothingOfTheUser(channel) => NothingOfTheUser(w)
    BY <1>5, <1>6, PlainIsOfNobody
  <2> HIDE DEF w, m
  <2>6. SettingTypes' /\ StartKeeps'
    BY <1>2, <1>4, <1>6, <1>7, <2>1 DEF SettingsInv, SettingTypes, StartKeeps, RustDesk, CanSend
  <2>7. ToldKeeps'
    <3> SUFFICES ASSUME ~strayed PROVE ChannelTells(w, viewer', told)
      BY <1>4, <1>8, <2>1 DEF ToldKeeps, Authenticated
    <3>1. ChannelTells(channel, viewer, told) /\ viewer.stage # "login"
      BY <1>3, <1>8 DEF SettingsInv, ToldKeeps, Authenticated
    <3>2. m \notin WrongQualities(viewer')
      BY <1>4, <1>5 DEF WrongQualities
    <3>4. ~EndsBad(w, QualityMessages, WrongQualities(viewer'))
      BY <2>2, <3>2
    <3>5. Silent(w, RateMessages) => told.fps = viewer.fps
      BY <2>4, <3>1 DEF ChannelTells
    <3>6. ~EndsBad(w, RateMessages, Q)
      BY <2>4, <3>1 DEF ChannelTells
    <3>7. Q = WrongRates(viewer')
      BY <1>4 DEF WrongRates
    <3> HIDE DEF Q
    <3> QED
      BY <1>4, <2>2, <3>4, <3>5, <3>6, <3>7 DEF ChannelTells
  <2>8. ViewOnlyKeeps'
    BY <1>2, <2>1, <2>5 DEF SettingsInv, ViewOnlyKeeps
  <2> QED
    BY <2>6, <2>7, <2>8 DEF SettingsInv
<1>9. CASE ~Authenticated
  <2>1. strayed' = TRUE /\ channel' = channel
    BY <1>9
  <2>2. channel = <<>>
    BY <1>9, ChannelOfNone DEF Authenticated
  <2>3. SettingTypes' /\ StartKeeps' /\ ToldKeeps' /\ ViewOnlyKeeps'
    BY <1>2, <1>4, <2>1, <2>2, EmptyTells DEF SettingsInv, SettingTypes, StartKeeps, ToldKeeps, ViewOnlyKeeps
  <2> QED
    BY <2>3 DEF SettingsInv
<1> QED
  BY <1>8, <1>9

(* A message about no setting joins the channel.                           *)
LEMMA QueuesKeep ==
    ASSUME SettingsInv, Installed, NEW kind \in PlainKinds, Queues(kind), Called,
           session.viewOnly => kind \notin {"clipboard", "resolution"}
    PROVE  SettingsInv'
<1> DEFINE w == Append(channel, [kind |-> kind])
<1>1. /\ channel' = w /\ CanSend /\ viewer.kind = "rustdesk"
      /\ UNCHANGED <<session, viewer, strayed, start, told, sample, adds>>
  BY DEF Queues, Called
<1>2. /\ channel \in Seq(Messages) /\ Len(channel) \in Nat /\ Len(channel) < Room
      /\ [kind |-> kind].kind = kind /\ [kind |-> kind] \in Messages
  BY <1>1 DEF SettingsInv, SettingTypes, CanSend, Messages
<1>3. w \in Seq(Messages) /\ Len(w) = Len(channel) + 1 /\ w # <<>>
  BY <1>2
<1>4. Len(w) <= Room
  BY <1>2, <1>3, SettingsConstants
<1>5. ChannelTells(channel, viewer, told) => ChannelTells(w, viewer, told)
  BY <1>2, PlainTells
<1>6. session.viewOnly /\ NothingOfTheUser(channel) => NothingOfTheUser(w)
  BY <1>2, PlainIsOfNobody
<1> HIDE DEF w
<1>7. SettingTypes' /\ StartKeeps'
  BY <1>1, <1>3, <1>4
     DEF SettingsInv, SettingTypes, StartKeeps, Alive, Installed, RustDesk, CanSend
<1>8. ToldKeeps'
  BY <1>1, <1>5 DEF SettingsInv, ToldKeeps
<1>9. ViewOnlyKeeps'
  BY <1>1, <1>6 DEF SettingsInv, ViewOnlyKeeps, Installed, Alive
<1> QED
  BY <1>7, <1>8, <1>9 DEF SettingsInv

LEMMA SwitchKeeps ==
    ASSUME SettingsInv, SwitchDisplay
    PROVE  SettingsInv'
<1> DEFINE w == Append(channel, [kind |-> "switch"])
           v == Append(w, [kind |-> "query"])
<1>1. /\ Installed /\ CanSend /\ viewer.kind = "rustdesk"
      /\ UNCHANGED <<session, viewer, strayed, start, told, sample, adds>>
  BY DEF SwitchDisplay, Called
<1>2. /\ channel \in Seq(Messages) /\ Len(channel) \in Nat /\ Len(channel) < Room /\ Room \in Nat
      /\ [kind |-> "switch"].kind = "switch" /\ [kind |-> "switch"] \in Messages
      /\ [kind |-> "query"].kind = "query" /\ [kind |-> "query"] \in Messages
      /\ "switch" \in PlainKinds /\ "query" \in PlainKinds
  BY <1>1, SettingsConstants DEF SettingsInv, SettingTypes, CanSend, Messages, PlainKinds
<1>3. w \in Seq(Messages) /\ Len(w) = Len(channel) + 1 /\ w # <<>>
  BY <1>2
<1>4. channel \o <<[kind |-> "switch"], [kind |-> "query"]>> = v
  BY <1>2
<1>5. ChannelTells(channel, viewer, told) => ChannelTells(w, viewer, told)
  BY <1>2, PlainTells
<1>6. NothingOfTheUser(channel) => NothingOfTheUser(w)
  BY <1>2, PlainIsOfNobody
<1>7. channel' = w \/ (channel' = v /\ Len(channel) + 1 < Room)
  BY <1>4 DEF SwitchDisplay
<1> HIDE DEF w
<1>8. v \in Seq(Messages) /\ Len(v) = Len(w) + 1 /\ v # <<>>
  BY <1>2, <1>3
<1>9. ChannelTells(w, viewer, told) => ChannelTells(v, viewer, told)
  BY <1>2, <1>3, PlainTells
<1>10. NothingOfTheUser(w) => NothingOfTheUser(v)
  BY <1>2, <1>3, PlainIsOfNobody
<1> HIDE DEF v
<1>11. /\ channel' \in Seq(Messages) /\ Len(channel') <= Room
  BY <1>2, <1>3, <1>7, <1>8
<1>12. SettingTypes' /\ StartKeeps'
  BY <1>1, <1>11
     DEF SettingsInv, SettingTypes, StartKeeps, Alive, Installed, RustDesk, CanSend
<1>13. ToldKeeps'
  BY <1>1, <1>5, <1>7, <1>9 DEF SettingsInv, ToldKeeps
<1>14. ViewOnlyKeeps'
  BY <1>1, <1>6, <1>7, <1>10 DEF SettingsInv, ViewOnlyKeeps, Installed, Alive
<1> QED
  BY <1>12, <1>13, <1>14 DEF SettingsInv

(* The writer takes the head of the channel.                               *)
LEMMA WriterKeeps ==
    ASSUME SettingsInv, WriterSends
    PROVE  SettingsInv'
<1> DEFINE m == Head(channel)
<1>1. /\ channel # <<>> /\ channel' = Tail(channel)
      /\ UNCHANGED <<session, viewer, strayed, start, adds>>
  BY DEF WriterSends, ViewerStep, tallies
<1>2. /\ channel \in Seq(Messages) /\ Len(channel) \in Nat /\ Len(channel) <= Room
      /\ Installed /\ viewer.kind = "rustdesk" /\ viewer.stage = "running"
  BY <1>1 DEF SettingsInv, SettingTypes, StartKeeps, RustDesk
<1>3. m \in Messages
  BY <1>1, <1>2
<1>4. /\ Tail(channel) \in Seq(Messages) /\ Len(Tail(channel)) = Len(channel) - 1
  BY <1>1, <1>2
<1>5. /\ told \in [fps : Nat, quality : ToldQualities]
      /\ told' = CASE m.kind = "fps" -> [told EXCEPT !.fps = m.fps]
                   [] m.kind = "quality" -> [told EXCEPT !.quality = m.quality]
                   [] OTHER -> told
  BY DEF SettingsInv, SettingTypes, WriterSends
<1>6. NothingOfTheUser(channel) => NothingOfTheUser(Tail(channel))
  <2> SUFFICES ASSUME NothingOfTheUser(channel), NEW i \in 1..Len(Tail(channel))
               PROVE  Tail(channel)[i].kind \notin {"clipboard", "resolution"}
    BY DEF NothingOfTheUser
  <2>1. i + 1 \in 1..Len(channel) /\ Tail(channel)[i] = channel[i + 1]
    BY <1>1, <1>2, <1>4
  <2> QED
    BY <2>1 DEF NothingOfTheUser
<1>7. \A B : EndsBad(Tail(channel), RateMessages, B) => EndsBad(channel, RateMessages, B)
  BY <1>1, <1>2, TailKeeps
<1>8. \A B : EndsBad(Tail(channel), QualityMessages, B) => EndsBad(channel, QualityMessages, B)
  BY <1>1, <1>2, TailKeeps
<1>9. Silent(Tail(channel), RateMessages) =>
        /\ m \in WrongRates(viewer) => EndsBad(channel, RateMessages, WrongRates(viewer))
        /\ m \notin RateMessages => Silent(channel, RateMessages)
  BY <1>1, <1>2, TailKeeps
<1>10. Silent(Tail(channel), QualityMessages) =>
        /\ m \in WrongQualities(viewer) =>
              EndsBad(channel, QualityMessages, WrongQualities(viewer))
        /\ m \notin QualityMessages => Silent(channel, QualityMessages)
  BY <1>1, <1>2, TailKeeps
<1> HIDE DEF m
<1>11. /\ told' \in [fps : Nat, quality : ToldQualities]
       /\ told'.fps = IF m \in RateMessages THEN m.fps ELSE told.fps
       /\ told'.quality = IF m \in QualityMessages THEN m.quality ELSE told.quality
  <2>1. CASE m \in RateMessages
    <3>1. m.kind = "fps" /\ m.fps \in Nat /\ m \notin QualityMessages
      BY <2>1 DEF RateMessages, QualityMessages
    <3>2. told' = [told EXCEPT !.fps = m.fps]
      BY <1>5, <3>1
    <3> QED
      BY <1>5, <2>1, <3>1, <3>2
  <2>2. CASE m \in QualityMessages
    <3>1. m.kind = "quality" /\ m.quality \in ToldQualities /\ m \notin RateMessages
      BY <2>2 DEF RateMessages, QualityMessages, ToldQualities
    <3>2. told' = [told EXCEPT !.quality = m.quality]
      BY <1>5, <3>1
    <3> QED
      BY <1>5, <2>2, <3>1, <3>2
  <2>3. CASE m \notin RateMessages /\ m \notin QualityMessages
    <3>1. m.kind \in PlainKinds
      BY <1>3, <2>3 DEF Messages
    <3>2. told' = told
      BY <1>5, <3>1 DEF PlainKinds
    <3> QED
      BY <1>5, <2>3, <3>2
  <2> QED
    BY <2>1, <2>2, <2>3
<1>12. Len(channel') <= Room
  BY <1>1, <1>2, <1>4, SettingsConstants
<1>13. SettingTypes' /\ StartKeeps'
  BY <1>1, <1>2, <1>4, <1>11, <1>12
     DEF SettingsInv, SettingTypes, StartKeeps, Alive, Installed, RustDesk
<1>14. ToldKeeps'
  <2> SUFFICES ASSUME ~strayed PROVE ChannelTells(Tail(channel), viewer, told')
    BY <1>1, <1>2 DEF ToldKeeps
  <2>1. ChannelTells(channel, viewer, told)
    BY <1>2 DEF SettingsInv, ToldKeeps
  <2>2. /\ ~EndsBad(Tail(channel), RateMessages, WrongRates(viewer))
        /\ ~EndsBad(Tail(channel), QualityMessages, WrongQualities(viewer))
    BY <1>7, <1>8, <2>1 DEF ChannelTells
  <2>3. Silent(Tail(channel), RateMessages) => told'.fps = viewer.fps
    BY <1>2, <1>9, <1>11, <2>1 DEF ChannelTells, WrongRates
  <2>4. Silent(Tail(channel), QualityMessages) => told'.quality = wire_quality(viewer.quality)
    BY <1>2, <1>10, <1>11, <2>1 DEF ChannelTells, WrongQualities
  <2> QED
    BY <2>2, <2>3, <2>4 DEF ChannelTells
<1>15. ViewOnlyKeeps'
  BY <1>1, <1>6 DEF SettingsInv, ViewOnlyKeeps, Installed, Alive
<1> QED
  BY <1>13, <1>14, <1>15 DEF SettingsInv

(* The steps before a backend is installed find the channel empty.         *)
LEMMA BackendKeeps ==
    ASSUME SettingsInv, ~Installed \/ viewer.kind # "rustdesk" \/ viewer.stage # "running",
           viewer' \in {NoBackend} \cup RustDeskViewers, start' \in StartStates,
           told' \in [fps : Nat, quality : ToldQualities], strayed' \in BOOLEAN,
           channel' = <<>>, adds' = adds,
           Alive' => session' \in Sessions /\ session'.fps \in 1..240,
           Installed' => viewer' # NoBackend /\ start' = NoStart,
           start'.step = "install" => viewer' # NoBackend,
           (viewer'.kind = "rustdesk" /\ ~strayed') =>
              /\ viewer'.stage = "login" => /\ viewer'.options.fps = viewer'.fps
                                            /\ viewer'.options.quality = viewer'.quality
              /\ viewer'.stage # "login" => /\ told'.fps = viewer'.fps
                                            /\ told'.quality = wire_quality(viewer'.quality)
    PROVE  SettingsInv'
<1>1. SettingTypes'
  BY EmptyTells, SettingsConstants DEF SettingsInv, SettingTypes
<1>2. StartKeeps'
  BY DEF StartKeeps
<1>3. ToldKeeps'
  BY EmptyTells DEF ToldKeeps, ChannelTells
<1>4. ViewOnlyKeeps'
  BY EmptyTells DEF ViewOnlyKeeps
<1> QED
  BY <1>1, <1>2, <1>3, <1>4 DEF SettingsInv

LEMMA OpeningSettingsKeep ==
    ASSUME SettingsInv,
           \/ SettingsStartBegins \/ SettingsStartDials \/ SettingsStartInstalls \/ SettingsClose
    PROVE  SettingsInv'
<1>1. /\ Alive => session \in Sessions /\ session.fps \in 1..240
      /\ start \in StartStates /\ viewer \in {NoBackend} \cup RustDeskViewers
      /\ told \in [fps : Nat, quality : ToldQualities] /\ strayed \in BOOLEAN
  BY DEF SettingsInv, SettingTypes, StartKeeps
<1>2. /\ Installed => viewer # NoBackend /\ start = NoStart
      /\ start.step = "install" => viewer # NoBackend
  BY DEF SettingsInv, StartKeeps
<1>3. ~Installed => channel = <<>>
  BY ChannelOfNone
<1>4. (viewer.kind = "rustdesk" /\ ~strayed) =>
        /\ viewer.stage = "login" => /\ viewer.options.fps = viewer.fps
                                     /\ viewer.options.quality = viewer.quality
        /\ channel = <<>> /\ viewer.stage # "login" =>
              /\ told.fps = viewer.fps /\ told.quality = wire_quality(viewer.quality)
  BY EmptyTells DEF SettingsInv, ToldKeeps, ChannelTells
<1>5. CASE SettingsStartBegins
  <2>1. /\ Alive /\ ~Installed /\ UNCHANGED <<session, viewer, channel, told, strayed, adds>>
        /\ start' = [step |-> "dial", fps |-> session.fps,
                     quality |-> engine_quality(session), clipboard |-> session.clipboard]
    BY <1>5 DEF SettingsStartBegins, Installed, tallies
  <2>2. engine_quality(session) \in Qualities /\ session.fps \in Nat /\ session.clipboard \in BOOLEAN
    BY <1>1, <2>1, QualityTypes DEF Sessions
  <2>3. start' \in StartStates /\ start'.step = "dial"
    BY <2>1, <2>2 DEF StartStates
  <2>4. ~Installed' /\ (Alive' <=> Alive)
    BY <2>1 DEF Installed, Alive
  <2> QED
    BY <1>1, <1>3, <1>4, <2>1, <2>3, <2>4, BackendKeeps
<1>6. CASE SettingsStartDials
  <2>1. start.step = "dial" /\ UNCHANGED <<session, channel, adds>>
    BY <1>6 DEF SettingsStartDials, tallies
  <2>2. ~Installed /\ ~Installed' /\ (Alive' <=> Alive)
    BY <1>2, <2>1 DEF NoStart, Installed, Alive
  <2>3. /\ start \in [step : {"dial", "install"}, fps : Nat, quality : Qualities,
                      clipboard : BOOLEAN]
    BY <1>1, <2>1 DEF StartStates, NoStart
  <2>4. CASE start' = NoStart /\ UNCHANGED <<viewer, strayed, told>>
    <3>1. start' \in StartStates /\ start'.step = "none"
      BY <2>4 DEF StartStates, NoStart
    <3> QED
      BY <1>1, <1>3, <1>4, <2>1, <2>2, <2>4, <3>1, BackendKeeps
  <2>5. CASE ~(start' = NoStart /\ UNCHANGED <<viewer, strayed, told>>)
    <3>1. PICK kind \in {"rustdesk", "vnc"} :
             viewer' = [kind |-> kind, fps |-> start.fps,
                        stage |-> IF kind = "vnc" THEN "running" ELSE "login",
                        options |-> [fps |-> start.fps, quality |-> start.quality],
                        quality |-> start.quality,
                        clipboard |-> start.clipboard, granted |-> FALSE]
      BY <1>6, <2>5 DEF SettingsStartDials
    <3>2. /\ start' = [start EXCEPT !.step = "install"]
          /\ strayed' = FALSE /\ told' = NothingTold
      BY <1>6, <2>5 DEF SettingsStartDials
    <3>3. viewer' \in RustDeskViewers /\ viewer' # NoBackend
      BY <2>3, <3>1 DEF RustDeskViewers, NoBackend
    <3>4. start' \in StartStates
      BY <2>3, <3>2 DEF StartStates
    <3>5. told' \in [fps : Nat, quality : ToldQualities]
      BY <3>2 DEF NothingTold, ToldQualities
    <3>6. viewer'.kind = "rustdesk" =>
             /\ viewer'.stage = "login" /\ viewer'.options.fps = viewer'.fps
             /\ viewer'.options.quality = viewer'.quality
      BY <3>1
    <3> QED
      BY <1>1, <1>3, <2>1, <2>2, <3>2, <3>3, <3>4, <3>5, <3>6, BackendKeeps
  <2> QED
    BY <2>4, <2>5
<1>7. CASE SettingsStartInstalls
  <2>1. /\ start.step = "install" /\ start' = NoStart
        /\ UNCHANGED <<channel, told, strayed, adds>>
    BY <1>7 DEF SettingsStartInstalls, tallies
  <2>2. ~Installed /\ viewer # NoBackend
    BY <1>2, <2>1 DEF NoStart
  <2>3. start' \in StartStates /\ start'.step = "none"
    BY <2>1 DEF StartStates, NoStart
  <2>4. CASE Alive
    <3>1. session' = [session EXCEPT !.installed = TRUE] /\ viewer' = viewer
      BY <1>7, <2>4 DEF SettingsStartInstalls
    <3>2. session' \in Sessions /\ session'.fps \in 1..240
      BY <1>1, <2>4, <3>1 DEF Sessions
    <3> QED
      BY <1>1, <1>3, <1>4, <2>1, <2>2, <2>3, <3>1, <3>2, BackendKeeps
  <2>5. CASE ~Alive
    <3>1. session' = session /\ viewer' = NoBackend
      BY <1>7, <2>5 DEF SettingsStartInstalls
    <3>2. ~Alive' /\ ~Installed' /\ viewer'.kind = "none"
      BY <2>5, <3>1 DEF Alive, Installed, NoBackend
    <3> QED
      BY <1>1, <1>3, <2>1, <2>2, <2>3, <3>1, <3>2, BackendKeeps
  <2> QED
    BY <2>4, <2>5
<1>8. CASE SettingsClose
  <2>1. /\ session' = NoSettings /\ UNCHANGED <<start, told, strayed, adds>>
        /\ viewer' = IF session.installed THEN NoBackend ELSE viewer
        /\ channel' = IF session.installed THEN <<>> ELSE channel
        /\ Alive
    BY <1>8 DEF SettingsClose, tallies
  <2>2. ~Alive' /\ ~Installed' /\ (Installed <=> session.installed)
    BY <2>1 DEF Alive, Installed
  <2>3. channel' = <<>>
    BY <1>3, <2>1, <2>2
  <2>4. SettingTypes'
    BY <1>1, <2>1, <2>2, <2>3, EmptyTells, SettingsConstants DEF SettingsInv, SettingTypes
  <2>5. StartKeeps'
    BY <1>2, <2>1, <2>2, <2>3 DEF StartKeeps, NoStart
  <2>6. ToldKeeps'
    BY <1>3, <1>4, <2>1, <2>2, <2>3, EmptyTells DEF ToldKeeps, ChannelTells, NoBackend
  <2>7. ViewOnlyKeeps'
    BY <2>2 DEF ViewOnlyKeeps
  <2> QED
    BY <2>4, <2>5, <2>6, <2>7 DEF SettingsInv
<1> QED
  BY <1>5, <1>6, <1>7, <1>8

LEMMA LoginKeeps ==
    ASSUME SettingsInv, LoginSends \/ LoginAccepted \/ ChannelPublished
    PROVE  SettingsInv'
<1>1. /\ viewer.kind = "rustdesk" /\ viewer.stage \in {"login", "sent", "accepted"}
      /\ UNCHANGED <<session, start, strayed, channel, adds>>
  BY DEF LoginSends, LoginAccepted, ChannelPublished, ViewerStep, tallies
<1>2. viewer \in RustDeskViewers /\ channel = <<>>
  BY <1>1, ChannelOfNone DEF SettingsInv, SettingTypes, NoBackend
<1>3. /\ viewer' \in RustDeskViewers /\ viewer'.kind = "rustdesk" /\ viewer'.fps = viewer.fps
      /\ viewer'.quality = viewer.quality /\ viewer'.stage # "login"
  <2>1. CASE LoginSends
    <3>1. viewer' = [viewer EXCEPT !.stage = "sent"]
      BY <2>1 DEF LoginSends
    <3> QED
      BY <1>2, <1>1, <3>1 DEF RustDeskViewers
  <2>2. CASE LoginAccepted
    <3>1. PICK granted \in BOOLEAN :
             viewer' = [viewer EXCEPT !.stage = "accepted", !.granted = granted]
      BY <2>2 DEF LoginAccepted
    <3> QED
      BY <1>2, <1>1, <3>1 DEF RustDeskViewers
  <2>3. CASE ChannelPublished
    <3>1. viewer' = [viewer EXCEPT !.stage = "running"]
      BY <2>3 DEF ChannelPublished
    <3> QED
      BY <1>2, <1>1, <3>1 DEF RustDeskViewers
  <2> QED
    BY <2>1, <2>2, <2>3
<1>4. /\ Alive => session \in Sessions /\ session.fps \in 1..240
      /\ start \in StartStates /\ strayed \in BOOLEAN
      /\ told \in [fps : Nat, quality : ToldQualities]
      /\ Installed => start = NoStart
  BY DEF SettingsInv, SettingTypes, StartKeeps
<1>5. /\ told' \in [fps : Nat, quality : ToldQualities]
      /\ ~strayed => /\ told'.fps = viewer.fps
                     /\ told'.quality = wire_quality(viewer.quality)
  <2>1. CASE viewer.stage = "login"
    <3>1. /\ told' = [fps |-> viewer.options.fps, quality |-> wire_quality(viewer.options.quality)]
          /\ ~strayed => /\ viewer.options.fps = viewer.fps
                         /\ viewer.options.quality = viewer.quality
      BY <1>1, <2>1 DEF LoginSends, LoginAccepted, ChannelPublished, SettingsInv, ToldKeeps
    <3>2. viewer.options.fps \in Nat /\ wire_quality(viewer.options.quality) \in ToldQualities
      BY <1>2, QualityTypes DEF RustDeskViewers, ToldQualities
    <3> QED
      BY <3>1, <3>2
  <2>2. CASE viewer.stage # "login"
    <3>1. told' = told
      BY <2>2 DEF LoginSends, LoginAccepted, ChannelPublished
    <3>2. ~strayed => ChannelTells(<<>>, viewer, told)
      BY <1>1, <1>2 DEF SettingsInv, ToldKeeps
    <3> QED
      BY <1>4, <2>2, <3>1, <3>2, EmptyTells DEF ChannelTells
  <2> QED
    BY <2>1, <2>2
<1>6. (Alive' <=> Alive) /\ (Installed' <=> Installed) /\ viewer' # NoBackend
  BY <1>1, <1>3 DEF Alive, Installed, NoBackend
<1> QED
  BY <1>1, <1>2, <1>3, <1>4, <1>5, <1>6, BackendKeeps

LEMMA SettingsStep ==
    ASSUME SettingsInv, [SettingsNext]_settingsVars
    PROVE  SettingsInv'
<1>1. CASE UNCHANGED settingsVars
  <2>1. UNCHANGED <<session, start, viewer, channel, told, strayed, adds>>
    BY <1>1 DEF settingsVars
  <2> QED
    BY <2>1 DEF SettingsInv, SettingTypes, StartKeeps, ToldKeeps, ViewOnlyKeeps, NothingOfTheUser,
       ChannelTells, Alive, Installed, RustDesk
<1>2. CASE SettingsAdd
  <2>1. PICK fps \in Rates, name \in Names, custom \in Customs,
             viewOnly \in BOOLEAN, clipboard \in BOOLEAN :
          session' = [gen |-> adds + 1, viewOnly |-> viewOnly,
                      clipboard |-> clipboard, installed |-> FALSE,
                      fps |-> IF ValidRate(fps) THEN fps ELSE 60,
                      quality |-> normalize_quality_name(name),
                      custom |-> IF ValidCustom(custom) THEN custom ELSE 0,
                      revision |-> 1, elapsed |-> 0]
    BY <1>2 DEF SettingsAdd
  <2>2. /\ ~Alive /\ adds' = adds + 1 /\ UNCHANGED <<start, viewer, channel, told, strayed>>
        /\ adds \in Nat
    BY <1>2 DEF SettingsAdd, SettingsInv, SettingTypes
  <2>3. /\ adds + 1 \in Nat \ {0}
        /\ (IF ValidRate(fps) THEN fps ELSE 60) \in 1..240
        /\ (IF ValidCustom(custom) THEN custom ELSE 0) \in Nat
        /\ normalize_quality_name(name) \in {"low", "balanced", "best", "custom"}
    BY <2>2, QualityTypes, SettingsConstants DEF ValidRate, ValidCustom
  <2>4. /\ session' \in Sessions /\ session'.fps \in 1..240 /\ session'.installed = FALSE
    BY <2>1, <2>3 DEF Sessions
  <2>5. ~Installed /\ ~Installed' /\ channel = <<>>
    BY <2>2, <2>4, ChannelOfNone DEF Installed
  <2>6. SettingTypes' /\ StartKeeps'
    BY <2>2, <2>4, <2>5 DEF SettingsInv, SettingTypes, StartKeeps, RustDesk
  <2>7. ToldKeeps' /\ ViewOnlyKeeps'
    BY <2>2, <2>5 DEF SettingsInv, ToldKeeps, ChannelTells, ViewOnlyKeeps
  <2> QED
    BY <2>6, <2>7 DEF SettingsInv
<1>3. ASSUME NEW enabled \in BOOLEAN, SetViewOnly(enabled) PROVE SettingsInv'
  <2>1. /\ Alive /\ ~session.installed /\ session' = [session EXCEPT !.viewOnly = enabled]
        /\ UNCHANGED <<start, viewer, channel, told, strayed, adds>>
    BY <1>3 DEF SetViewOnly
  <2>2. /\ session' \in Sessions /\ session'.fps \in 1..240
        /\ session'.installed = session.installed
    BY <2>1, SessionIsSession DEF Sessions
  <2> QED
    BY <2>1, <2>2, SessionOnlyKeeps
<1>4. ASSUME NEW fps \in Rates, SetCustomFps(fps) PROVE SettingsInv'
  <2>1. /\ Alive /\ fps \in 1..240 /\ RequestRate(fps) /\ UNCHANGED <<start, told, adds>>
        /\ session' = [session EXCEPT !.fps = fps, !.revision = session.revision + 1]
    BY <1>4 DEF SetCustomFps, Called, Intended, ValidRate
  <2>2. session \in Sessions /\ fps \in Nat /\ session.revision + 1 \in Nat
    BY <2>1, SessionIsSession DEF Sessions
  <2>3. /\ session' \in Sessions /\ session'.fps = fps
        /\ session'.installed = session.installed /\ session'.viewOnly = session.viewOnly
    BY <2>1, <2>2 DEF Sessions
  <2> QED
    BY <2>1, <2>2, <2>3, RateKeeps
<1>5. ASSUME NEW name \in Names, SetImageQuality(name) PROVE SettingsInv'
  <2>1. /\ Alive /\ RequestQuality(engine_quality(session')) /\ UNCHANGED <<start, told, adds>>
        /\ session' = [session EXCEPT !.quality = normalize_quality_name(name)]
    BY <1>5 DEF SetImageQuality, Called
  <2>2. normalize_quality_name(name) \in {"low", "balanced", "best", "custom"}
    BY QualityTypes
  <2>3. /\ session' \in Sessions /\ session'.fps \in 1..240
        /\ session'.installed = session.installed /\ session'.viewOnly = session.viewOnly
    BY <2>1, <2>2, SessionIsSession DEF Sessions
  <2>4. engine_quality(session') \in Qualities
    BY <2>3, QualityTypes
  <2> QED
    BY <2>1, <2>3, <2>4, QualityKeeps
<1>6. ASSUME NEW custom \in Customs, SetCustomImageQuality(custom) PROVE SettingsInv'
  <2>1. /\ Alive /\ UNCHANGED <<start, told, adds>> /\ custom \in Nat
        /\ session' = [session EXCEPT !.custom = custom]
        /\ \/ RequestQuality(engine_quality(session'))
           \/ UNCHANGED <<viewer, channel, strayed>>
    BY <1>6, SettingsConstants DEF SetCustomImageQuality, Called
  <2>2. /\ session' \in Sessions /\ session'.fps \in 1..240
        /\ session'.installed = session.installed /\ session'.viewOnly = session.viewOnly
    BY <2>1, SessionIsSession DEF Sessions
  <2>3. engine_quality(session') \in Qualities
    BY <2>2, QualityTypes
  <2> QED
    BY <2>1, <2>2, <2>3, QualityKeeps, SessionOnlyKeeps
<1>7. CASE SendClipboard
  <2>1. /\ Installed /\ Called /\ Queues("clipboard") /\ ~session.viewOnly
    BY <1>7 DEF SendClipboard
  <2> QED
    BY <2>1, QueuesKeep DEF PlainKinds
<1>8. CASE ChangeResolution
  <2>1. /\ Installed /\ Called /\ Queues("resolution") /\ ~session.viewOnly
    BY <1>8 DEF ChangeResolution
  <2> QED
    BY <2>1, QueuesKeep DEF PlainKinds
<1>9. CASE RefreshVideo
  <2>1. /\ Installed /\ Called /\ Queues("refresh")
    BY <1>9 DEF RefreshVideo
  <2> QED
    BY <2>1, QueuesKeep DEF PlainKinds
<1>10. CASE PeerReports
  <2>1. /\ viewer.kind = "rustdesk" /\ viewer.stage = "running" /\ strayed' = TRUE
        /\ UNCHANGED <<session, channel, start, told, adds>>
    BY <1>10 DEF PeerReports, Called
  <2>2. PICK fps \in Rates : viewer' = [viewer EXCEPT !.fps = fps]
    BY <1>10 DEF PeerReports
  <2>3. viewer \in RustDeskViewers /\ fps \in Nat
    BY <2>1, SettingsConstants DEF SettingsInv, SettingTypes, NoBackend
  <2>4. /\ viewer' \in RustDeskViewers /\ viewer'.kind = "rustdesk" /\ viewer'.stage = "running"
        /\ viewer' # NoBackend
    BY <2>1, <2>2, <2>3 DEF RustDeskViewers, NoBackend
  <2>5. SettingTypes' /\ StartKeeps'
    BY <2>1, <2>4 DEF SettingsInv, SettingTypes, StartKeeps, Alive, Installed, RustDesk
  <2>6. ToldKeeps' /\ ViewOnlyKeeps'
    BY <2>1 DEF SettingsInv, ToldKeeps, ViewOnlyKeeps, Installed, Alive
  <2> QED
    BY <2>5, <2>6 DEF SettingsInv
<1>11. CASE FrameRateSnapshot
  <2>1. /\ Alive /\ session.elapsed \in Nat
        /\ UNCHANGED <<start, viewer, channel, told, strayed, adds>>
    BY <1>11, SessionIsSession DEF FrameRateSnapshot, Sessions
  <2>2. PICK e \in {session.elapsed, session.elapsed + 1} :
           session' = [session EXCEPT !.elapsed = e]
    BY <1>11 DEF FrameRateSnapshot, advance_telemetry_clock
  <2>3. e \in Nat
    BY <2>1, <2>2
  <2>4. /\ session' \in Sessions /\ session'.fps \in 1..240
        /\ session'.installed = session.installed /\ session'.viewOnly = session.viewOnly
    BY <2>1, <2>2, <2>3, SessionIsSession DEF Sessions
  <2> QED
    BY <2>1, <2>4, SessionOnlyKeeps
<1> QED
  BY <1>1, <1>2, <1>3, <1>4, <1>5, <1>6, <1>7, <1>8, <1>9, <1>10, <1>11,
     SwitchKeeps, WriterKeeps, LoginKeeps, OpeningSettingsKeep DEF SettingsNext

LEMMA SettingsInitially == SettingsInit => SettingsInv
<1> SUFFICES ASSUME SettingsInit PROVE SettingsInv
  OBVIOUS
<1>1. ~Alive /\ ~Installed /\ viewer.kind = "none" /\ start.step = "none"
  BY DEF SettingsInit, Alive, Installed, NoBackend, NoStart
<1>2. told \in [fps : Nat, quality : ToldQualities]
  BY DEF SettingsInit, NothingTold, ToldQualities
<1>3. channel \in Seq(Messages) /\ Len(channel) <= Room
  BY EmptyTells, SettingsConstants DEF SettingsInit
<1>4. SettingTypes
  BY <1>1, <1>2, <1>3 DEF SettingsInit, SettingTypes, StartStates
<1> QED
  BY <1>1, <1>4 DEF SettingsInv, StartKeeps, ToldKeeps, ViewOnlyKeeps, SettingsInit

LEMMA SettingsAreEnough == SettingsInv => SettingsTypeOK /\ ReportedIsTold /\ ViewOnlyQueuesNothing
<1> SUFFICES ASSUME SettingsInv PROVE SettingsTypeOK /\ ReportedIsTold /\ ViewOnlyQueuesNothing
  OBVIOUS
<1>1. SettingsTypeOK
  BY DEF SettingsInv, SettingTypes, StartKeeps, SettingsTypeOK, Installed, Sessions, StartStates,
     NoStart, NoBackend, RustDeskViewers
<1>2. ReportedIsTold
  <2> SUFFICES ASSUME RustDesk, Authenticated, channel = <<>>, ~strayed PROVE Reported = told
    BY DEF ReportedIsTold
  <2>1. ChannelTells(<<>>, viewer, told) /\ viewer.stage # "login"
    BY DEF SettingsInv, ToldKeeps, RustDesk, Authenticated
  <2>2. told.fps = viewer.fps /\ told.quality = wire_quality(viewer.quality)
    BY <2>1, EmptyTells DEF ChannelTells
  <2>3. told = [fps |-> told.fps, quality |-> told.quality]
    BY DEF SettingsInv, SettingTypes
  <2> QED
    BY <2>2, <2>3 DEF Reported
<1>3. ViewOnlyQueuesNothing
  <2>1. DOMAIN channel = 1..Len(channel)
    BY DEF SettingsInv, SettingTypes
  <2> QED
    BY <2>1 DEF ViewOnlyQueuesNothing, SettingsInv, ViewOnlyKeeps, NothingOfTheUser
<1> QED
  BY <1>1, <1>2, <1>3

-----------------------------------------------------------------------------
(* Input.                                                                  *)

AllKeys == Keys \cup Characters
RemoteKeys == (AllKeys \cup Modifiers) \ {"emoji"}
Spots == Places \cup {"corner"}
PointerKinds == {"move", "down", "up", "wheel"}
KeyMessages == [kind : {"key"}, key : AllKeys, down : BOOLEAN, press : BOOLEAN]
TextMessages == [kind : {"text"}, text : Texts]
ControlMessages == KeyMessages \cup TextMessages
MouseMessages == [kind : {"mouse"}, type : PointerKinds, button : Buttons, place : Spots, after : Nat]

Users == [keys : SUBSET (Keys \X Tables), buttons : SUBSET Buttons]
Remotes ==
    [keys : SUBSET RemoteKeys, buttons : SUBSET (Buttons \cup {"wheel_up"}),
     typed : SUBSET (AllKeys \cup {"large"}), place : Spots \cup {"start"},
     seen : Nat, owed : Nat]
Seats == [front : {"ohos", "flutter"}, route : {"rustdesk", "vnc"}, viewOnly : BOOLEAN]

(* A character outside the BMP is typed and never held.                    *)
InputTypes ==
    /\ seat \in Seats /\ user \in Users /\ remote \in Remotes
    /\ control \in Seq(ControlMessages) /\ Len(control) <= Commands
    /\ pointer \in Seq(MouseMessages) /\ Len(pointer) <= Commands
    /\ sent \in [control : Nat, events : Nat]
    /\ sent.control + Len(control) <= sent.events /\ sent.events <= MaxEvents
    /\ lost \in BOOLEAN /\ clicked \in BOOLEAN

NeverOvertakes ==
    /\ remote.owed <= remote.seen
    /\ \A i \in 1..Len(pointer) : pointer[i].after <= sent.control + Len(control)

QueuesAreOfRustDesk == seat.route = "vnc" => control = <<>> /\ pointer = <<>>

(* What the remote desktop holds, or will once the queues are written, the *)
(* user holds.                                                             *)
About(k) == [kind : {"key"}, key : {k}, down : BOOLEAN, press : BOOLEAN]
KeyDown(k) == {m \in About(k) : decode_down(m)}
Held(u) == {Named(h[1], h[2]) : h \in u.keys}
Refuses(k) == windows_virtual_key(k) = None

KeysAgree(r, c, u) ==
    \A k \in AllKeys \cup Modifiers :
        /\ k \in r.keys /\ Silent(c, About(k)) => k \in Held(u)
        /\ EndsBad(c, About(k), KeyDown(k)) => k \in Held(u) \/ Refuses(k)

ButtonMoves(b) ==
    [kind : {"mouse"}, type : {"down", "up"}, button : {b}, place : Spots, after : Nat]
ButtonDown(b) ==
    [kind : {"mouse"}, type : {"down"}, button : {b}, place : Spots, after : Nat]

ButtonsAgree(r, p, u) ==
    /\ r.buttons \subseteq Buttons
    /\ \A b \in Buttons :
          /\ b \in r.buttons /\ Silent(p, ButtonMoves(b)) => b \in u.buttons
          /\ EndsBad(p, ButtonMoves(b), ButtonDown(b)) => b \in u.buttons

Follows ==
    (~lost /\ ~clicked) =>
        /\ KeysAgree(remote, control, user)
        /\ seat.route = "rustdesk" => ButtonsAgree(remote, pointer, user)

InputInv == InputTypes /\ NeverOvertakes /\ QueuesAreOfRustDesk /\ Follows

LEMMA QueuesHaveLengths ==
    ASSUME InputTypes
    PROVE  /\ Len(control) \in Nat /\ Len(pointer) \in Nat /\ Commands \in Nat /\ MaxEvents \in Nat
           /\ sent.control \in Nat /\ sent.events \in Nat
BY InputConstants DEF InputTypes

LEMMA AfterIsCount ==
    ASSUME InputTypes, NEW i \in 1..Len(pointer)
    PROVE  pointer[i].after \in Nat
<1>1. pointer[i] \in MouseMessages
  BY DEF InputTypes
<1> QED
  BY <1>1 DEF MouseMessages

(* A call that was answered with an error: all that is told apart later is *)
(* that something was lost.                                                *)
LEMMA RefusedKeeps ==
    ASSUME InputInv, Refused, seat' = seat, user' \in Users, clicked' \in BOOLEAN,
           sent.events < MaxEvents, sent' = [sent EXCEPT !.events = sent.events + 1]
    PROVE  InputInv'
<1>1. InputTypes /\ NeverOvertakes /\ QueuesAreOfRustDesk
  BY DEF InputInv
<1>2. lost' = TRUE /\ UNCHANGED <<control, pointer, remote>>
  BY DEF Refused
<1>3. /\ sent' \in [control : Nat, events : Nat] /\ sent'.control = sent.control
      /\ sent'.events = sent.events + 1
  BY <1>1 DEF InputTypes
<1>4. InputTypes'
  BY <1>1, <1>2, <1>3, QueuesHaveLengths DEF InputTypes
<1>5. NeverOvertakes' /\ QueuesAreOfRustDesk' /\ Follows'
  BY <1>1, <1>2, <1>3 DEF NeverOvertakes, QueuesAreOfRustDesk, Follows
<1> QED
  BY <1>4, <1>5 DEF InputInv

(* A key or a text joins the control queue.                                *)
LEMMA ControlKeeps ==
    ASSUME InputInv, NEW m \in ControlMessages, Enqueue(m), seat.route = "rustdesk", seat' = seat,
           user' \in Users, user'.buttons = user.buttons,
           clicked' \in BOOLEAN, clicked => clicked',
           sent.events < MaxEvents, sent' = [sent EXCEPT !.events = sent.events + 1],
           ~clicked' => \A k \in AllKeys \cup Modifiers :
                           /\ m \notin About(k) /\ k \in Held(user) => k \in Held(user')
                           /\ m \in KeyDown(k) => k \in Held(user') \/ Refuses(k)
    PROVE  InputInv'
<1>1. InputTypes /\ NeverOvertakes /\ QueuesAreOfRustDesk /\ Follows
  BY DEF InputInv
<1>2. m.kind # "mouse"
  BY DEF ControlMessages, KeyMessages, TextMessages
<1>3. CASE Len(control) = Commands
  BY <1>2, <1>3, RefusedKeeps DEF Enqueue
<1>4. CASE Len(control) # Commands
  <2> DEFINE w == Append(control, m)
  <2>1. control' = w /\ UNCHANGED <<pointer, remote, lost>>
    BY <1>2, <1>4 DEF Enqueue
  <2>2. /\ control \in Seq(ControlMessages) /\ w \in Seq(ControlMessages)
        /\ Len(w) = Len(control) + 1
    BY <1>1 DEF InputTypes
  <2>3. /\ sent' \in [control : Nat, events : Nat] /\ sent'.control = sent.control
        /\ sent'.events = sent.events + 1
    BY <1>1 DEF InputTypes
  <2>4. \A k : KeyDown(k) \subseteq About(k)
    BY DEF KeyDown
  <2>5. ASSUME NEW k, m \in About(k)
        PROVE  ~Silent(w, About(k)) /\ (EndsBad(w, About(k), KeyDown(k)) => m \in KeyDown(k))
    BY <2>2, <2>5, AppendDecides
  <2>6. ASSUME NEW k, m \notin About(k)
        PROVE  /\ Silent(w, About(k)) => Silent(control, About(k))
               /\ EndsBad(w, About(k), KeyDown(k)) => EndsBad(control, About(k), KeyDown(k))
    BY <2>2, <2>4, <2>6, AppendIsSilent
  <2> HIDE DEF w
  <2>7. InputTypes'
    BY <1>1, <1>4, <2>1, <2>2, <2>3, QueuesHaveLengths DEF InputTypes
  <2>8. NeverOvertakes' /\ QueuesAreOfRustDesk'
    <3>1. \A i \in 1..Len(pointer) : pointer[i].after \in Nat
      BY <1>1, AfterIsCount
    <3> QED
      BY <1>1, <2>1, <2>2, <2>3, <3>1, QueuesHaveLengths DEF NeverOvertakes, QueuesAreOfRustDesk
  <2>9. Follows'
    <3> SUFFICES ASSUME ~lost, ~clicked'
                 PROVE  KeysAgree(remote, w, user') /\ ButtonsAgree(remote, pointer, user')
      BY <2>1 DEF Follows
    <3>1. KeysAgree(remote, control, user) /\ ButtonsAgree(remote, pointer, user)
      BY <1>1 DEF Follows
    <3>2. ButtonsAgree(remote, pointer, user')
      BY <3>1 DEF ButtonsAgree
    <3>3. KeysAgree(remote, w, user')
      <4> SUFFICES ASSUME NEW k \in AllKeys \cup Modifiers
                   PROVE  /\ k \in remote.keys /\ Silent(w, About(k)) => k \in Held(user')
                          /\ EndsBad(w, About(k), KeyDown(k)) => k \in Held(user') \/ Refuses(k)
        BY DEF KeysAgree
      <4>1. CASE m \in About(k)
        BY <2>5, <4>1
      <4>2. CASE m \notin About(k)
        BY <2>6, <3>1, <4>2 DEF KeysAgree
      <4> QED
        BY <4>1, <4>2
    <3> QED
      BY <3>2, <3>3
  <2> QED
    BY <2>7, <2>8, <2>9 DEF InputInv
<1> QED
  BY <1>3, <1>4

(* A mouse event joins the mouse queue, behind the keys accepted so far.   *)
LEMMA PointerKeeps ==
    ASSUME InputInv, NEW m \in MouseMessages, Enqueue(m), m.after = sent.control + Len(control),
           seat.route = "rustdesk", seat' = seat,
           user' \in Users, user'.keys = user.keys, clicked' = clicked,
           sent.events < MaxEvents, sent' = [sent EXCEPT !.events = sent.events + 1],
           \A b \in Buttons : /\ m \notin ButtonMoves(b) /\ b \in user.buttons => b \in user'.buttons
                              /\ m \in ButtonDown(b) => b \in user'.buttons
    PROVE  InputInv'
<1>1. InputTypes /\ NeverOvertakes /\ QueuesAreOfRustDesk /\ Follows /\ clicked \in BOOLEAN
  BY DEF InputInv, InputTypes
<1>2. m.kind = "mouse"
  BY DEF MouseMessages
<1>3. CASE Len(pointer) = Commands
  BY <1>1, <1>2, <1>3, RefusedKeeps DEF Enqueue
<1>4. CASE Len(pointer) # Commands
  <2> DEFINE w == Append(pointer, m)
             n == Len(pointer)
  <2>1. pointer' = w /\ UNCHANGED <<control, remote, lost>>
    BY <1>2, <1>4 DEF Enqueue
  <2>2. /\ pointer \in Seq(MouseMessages) /\ w \in Seq(MouseMessages)
        /\ n \in Nat /\ Len(w) = n + 1 /\ n = Len(pointer) /\ w[n + 1] = m
        /\ \A i \in 1..n : w[i] = pointer[i]
    BY <1>1 DEF InputTypes
  <2>3. /\ sent' \in [control : Nat, events : Nat] /\ sent'.control = sent.control
        /\ sent'.events = sent.events + 1
    BY <1>1 DEF InputTypes
  <2>4. \A b : ButtonDown(b) \subseteq ButtonMoves(b)
    BY DEF ButtonDown, ButtonMoves
  <2>5. ASSUME NEW b, m \in ButtonMoves(b)
        PROVE  /\ ~Silent(w, ButtonMoves(b))
               /\ EndsBad(w, ButtonMoves(b), ButtonDown(b)) => m \in ButtonDown(b)
    BY <2>2, <2>5, AppendDecides
  <2>6. ASSUME NEW b, m \notin ButtonMoves(b)
        PROVE  /\ Silent(w, ButtonMoves(b)) => Silent(pointer, ButtonMoves(b))
               /\ EndsBad(w, ButtonMoves(b), ButtonDown(b)) =>
                      EndsBad(pointer, ButtonMoves(b), ButtonDown(b))
    BY <2>2, <2>4, <2>6, AppendIsSilent
  <2> HIDE DEF w, n
  <2>7. InputTypes'
    BY <1>1, <1>4, <2>1, <2>2, <2>3, QueuesHaveLengths DEF InputTypes
  <2>8. NeverOvertakes' /\ QueuesAreOfRustDesk'
    <3>1. QueuesAreOfRustDesk'
      BY <2>1 DEF QueuesAreOfRustDesk
    <3>2. ASSUME NEW i \in 1..Len(w)
          PROVE  w[i].after <= sent.control + Len(control)
      <4>1. CASE i = n + 1
        BY <1>1, <2>2, <4>1, QueuesHaveLengths
      <4>2. CASE i # n + 1
        <5>1. i \in 1..n
          BY <2>2, <4>2
        <5> QED
          BY <1>1, <2>2, <5>1 DEF NeverOvertakes
      <4> QED
        BY <4>1, <4>2
    <3> QED
      BY <1>1, <2>1, <2>3, <3>1, <3>2 DEF NeverOvertakes
  <2>9. Follows'
    <3> SUFFICES ASSUME ~lost, ~clicked
                 PROVE  KeysAgree(remote, control, user') /\ ButtonsAgree(remote, w, user')
      BY <2>1 DEF Follows
    <3>1. KeysAgree(remote, control, user) /\ ButtonsAgree(remote, pointer, user)
      BY <1>1 DEF Follows
    <3>2. Held(user') = Held(user)
      BY DEF Held
    <3>3. KeysAgree(remote, control, user')
      BY <3>1, <3>2 DEF KeysAgree
    <3>4. ButtonsAgree(remote, w, user')
      <4> SUFFICES ASSUME NEW b \in Buttons
                   PROVE  /\ b \in remote.buttons /\ Silent(w, ButtonMoves(b)) => b \in user'.buttons
                          /\ EndsBad(w, ButtonMoves(b), ButtonDown(b)) => b \in user'.buttons
        BY <3>1 DEF ButtonsAgree
      <4>1. CASE m \in ButtonMoves(b)
        BY <2>5, <4>1
      <4>2. CASE m \notin ButtonMoves(b)
        BY <2>6, <3>1, <4>2 DEF ButtonsAgree
      <4> QED
        BY <4>1, <4>2
    <3> QED
      BY <3>3, <3>4
  <2> QED
    BY <2>7, <2>8, <2>9 DEF InputInv
<1> QED
  BY <1>3, <1>4

(* A VNC server is written to at once.                                     *)
LEMMA VncKeeps ==
    ASSUME InputInv, seat.route = "vnc", seat' = seat, UNCHANGED <<control, pointer>>,
           user' \in Users, clicked' \in BOOLEAN, lost' \in BOOLEAN,
           sent.events < MaxEvents, sent' = [sent EXCEPT !.events = sent.events + 1],
           remote' \in Remotes, remote'.seen = remote.seen, remote'.owed = remote.owed,
           (~lost' /\ ~clicked') => \A k \in remote'.keys : k \in Held(user')
    PROVE  InputInv'
<1>1. InputTypes /\ NeverOvertakes /\ control = <<>> /\ pointer = <<>>
  BY DEF InputInv, QueuesAreOfRustDesk
<1>2. /\ sent' \in [control : Nat, events : Nat] /\ sent'.control = sent.control
      /\ sent'.events = sent.events + 1
  BY <1>1 DEF InputTypes
<1>3. InputTypes'
  BY <1>1, <1>2, QueuesHaveLengths DEF InputTypes
<1>4. NeverOvertakes' /\ QueuesAreOfRustDesk'
  BY <1>1, <1>2 DEF NeverOvertakes, QueuesAreOfRustDesk
<1>5. \A k : ~EndsBad(<<>>, About(k), KeyDown(k))
  BY EmptyIsSilent
<1>6. Follows'
  BY <1>1, <1>5 DEF Follows, KeysAgree
<1> QED
  BY <1>3, <1>4, <1>6 DEF InputInv

(* What a key does to what the remote desktop holds.                       *)
LEMMA DownIs ==
    ASSUME NEW r \in Remotes, NEW k \in AllKeys \ {"emoji"}
    PROVE  /\ Down(r, k) \in Remotes /\ Down(r, k).keys = r.keys \cup {k}
           /\ Down(r, k).buttons = r.buttons
           /\ Down(r, k).seen = r.seen /\ Down(r, k).owed = r.owed
<1>1. k \in RemoteKeys
  BY DEF RemoteKeys
<1> QED
  BY <1>1 DEF Down, Remotes

LEMMA UpIs ==
    ASSUME NEW r \in Remotes, NEW k
    PROVE  /\ Up(r, k) \in Remotes /\ Up(r, k).keys = r.keys \ {k}
           /\ Up(r, k).buttons = r.buttons
           /\ Up(r, k).seen = r.seen /\ Up(r, k).owed = r.owed
BY DEF Up, Remotes

LEMMA VncTakesPlainKeys ==
    \A k : vnc_keysym(k) # None => k = None \/ (k # "emoji" /\ ~Refuses(k))
BY DEF vnc_keysym, Refuses, windows_virtual_key, None

(* The user's keys, by the names the remote desktop has for them.          *)
LEMMA MovesHolds ==
    ASSUME user \in Users, NEW k \in Keys, NEW table \in Tables, NEW down \in BOOLEAN,
           Moves(k, table, down)
    PROVE  /\ user' \in Users /\ user'.buttons = user.buttons
           /\ down => Held(user) \subseteq Held(user') /\ Named(k, table) \in Held(user')
           /\ \A n \in Held(user) : n # Named(k, table) => n \in Held(user')
<1> DEFINE e == <<k, table>>
           w == IF down THEN user.keys \cup {e} ELSE user.keys \ {e}
<1>1. user' = [user EXCEPT !.keys = w]
  BY DEF Moves
<1>2. /\ e \in Keys \X Tables /\ e[1] = k /\ e[2] = table
  OBVIOUS
<1>3. w \in SUBSET (Keys \X Tables)
  BY <1>2 DEF Users
<1> HIDE DEF w, e
<1>4. user' \in Users /\ user'.buttons = user.buttons /\ user'.keys = w
  BY <1>1, <1>3 DEF Users
<1>5. down => Named(k, table) \in Held(user') /\ Held(user) \subseteq Held(user')
  <2> SUFFICES ASSUME down PROVE Named(k, table) \in Held(user') /\ Held(user) \subseteq Held(user')
    OBVIOUS
  <2>1. user'.keys = user.keys \cup {e}
    BY <1>4 DEF w
  <2> QED
    BY <1>2, <2>1 DEF Held
<1>6. \A n \in Held(user) : n # Named(k, table) => n \in Held(user')
  <2> SUFFICES ASSUME NEW h \in user.keys, Named(h[1], h[2]) # Named(k, table)
               PROVE  h \in user'.keys
    BY DEF Held
  <2>1. h # e
    BY <1>2
  <2> QED
    BY <1>4, <2>1 DEF w
<1> QED
  BY <1>4, <1>5, <1>6

LEMMA NamesAreKeys ==
    ASSUME NEW k \in Keys
    PROVE  /\ legacy_key_name(k) \in AllKeys \cup {None}
           /\ usb_hid_key(k) \in AllKeys \cup {None}
           /\ Named(k, "name") = legacy_key_name(k) /\ Named(k, "hid") = usb_hid_key(k)
           /\ None \notin AllKeys
BY DEF legacy_key_name, usb_hid_key, AllKeys, Keys, Characters, Named, None

LEMMA SendKeyKeeps ==
    ASSUME InputInv, seat' = seat, user' \in Users, user'.buttons = user.buttons,
           clicked' \in BOOLEAN, clicked => clicked',
           sent.events < MaxEvents, sent' = [sent EXCEPT !.events = sent.events + 1],
           NEW key \in AllKeys \cup {None}, NEW down \in BOOLEAN, NEW press \in BOOLEAN,
           NEW mods \in {{}, Modifiers}, send_key(key, down, press, mods),
           ~clicked' =>
              /\ ~press
              /\ down => Held(user) \subseteq Held(user') /\ (key \in Held(user') \/ Refuses(key))
              /\ \A k \in Held(user) : k # key => k \in Held(user')
    PROVE  InputInv'
<1>1. InputTypes /\ Follows
  BY DEF InputInv
<1>2. CASE Refused
  BY <1>2, RefusedKeeps
<1>3. CASE ~Refused /\ seat.route = "rustdesk"
  <2> DEFINE m == [kind |-> "key", key |-> key, down |-> down, press |-> press]
  <2>1. key # None /\ Enqueue(m)
    BY <1>3 DEF send_key, KeyMessage
  <2>2. m \in ControlMessages /\ m.key = key /\ m.down = down /\ m.press = press
    BY <2>1 DEF ControlMessages, KeyMessages
  <2>3. /\ \A k : m \in About(k) <=> k = key
        /\ \A k : m \in KeyDown(k) <=> k = key /\ (down \/ press)
    <3>1. \A k : m \in About(k) <=> k = key
      BY DEF About
    <3>2. decode_down(m) <=> (down \/ press)
      BY DEF decode_down
    <3> HIDE DEF m
    <3> QED
      BY <3>1, <3>2 DEF KeyDown
  <2> HIDE DEF m
  <2>4. ~clicked' => \A k \in AllKeys \cup Modifiers :
                        /\ m \notin About(k) /\ k \in Held(user) => k \in Held(user')
                        /\ m \in KeyDown(k) => k \in Held(user') \/ Refuses(k)
    BY <2>3
  <2> QED
    BY <1>3, <2>1, <2>2, <2>4, ControlKeeps
<1>4. CASE ~Refused /\ seat.route = "vnc"
  <2>1. /\ key # None /\ vnc_keysym(key) # None
        /\ remote' = VncKeystroke(key, down, press, mods) /\ UNCHANGED <<control, pointer, lost>>
    BY <1>4 DEF send_key
  <2>2. key \in AllKeys \ {"emoji"} /\ ~Refuses(key)
    BY <2>1, VncTakesPlainKeys
  <2>3. /\ remote' \in Remotes /\ remote'.seen = remote.seen /\ remote'.owed = remote.owed
        /\ remote'.keys \subseteq remote.keys \cup (IF down THEN {key} ELSE {})
        /\ ~down \/ press => key \notin remote'.keys
    <3> DEFINE p == [remote EXCEPT !.keys = remote.keys \cup mods]
               s == IF down THEN Down(p, key) ELSE p
               u == IF ~down \/ press THEN Up(s, key) ELSE s
               f == [u EXCEPT !.keys = u.keys \ mods]
    <3>1. mods \subseteq RemoteKeys /\ remote \in Remotes
      BY <1>1 DEF InputTypes, Modifiers, RemoteKeys, AllKeys, Keys, Characters
    <3>2. /\ p \in Remotes /\ p.keys = remote.keys \cup mods
          /\ p.seen = remote.seen /\ p.owed = remote.owed
      BY <3>1 DEF Remotes
    <3>8. remote' = f
      BY <2>1 DEF VncKeystroke
    <3> HIDE DEF p
    <3>3. /\ s \in Remotes /\ s.keys = p.keys \cup (IF down THEN {key} ELSE {})
          /\ s.seen = p.seen /\ s.owed = p.owed
      BY <2>2, <3>2, DownIs
    <3> HIDE DEF s
    <3>4. /\ u \in Remotes /\ u.keys = s.keys \ (IF ~down \/ press THEN {key} ELSE {})
          /\ u.seen = s.seen /\ u.owed = s.owed
      BY <3>3, UpIs
    <3> HIDE DEF u
    <3>5. f \in Remotes /\ f.keys = u.keys \ mods /\ f.seen = u.seen /\ f.owed = u.owed
      BY <3>4 DEF Remotes
    <3> HIDE DEF f
    <3>6. f.keys \subseteq remote.keys \cup (IF down THEN {key} ELSE {})
      BY <3>2, <3>3, <3>4, <3>5
    <3>7. ~down \/ press => key \notin f.keys
      BY <3>4, <3>5
    <3> QED
      BY <3>2, <3>3, <3>4, <3>5, <3>6, <3>7, <3>8
  <2>4. control = <<>> /\ lost' \in BOOLEAN
    BY <1>1, <1>4, <2>1 DEF InputInv, InputTypes, QueuesAreOfRustDesk
  <2>5. (~lost' /\ ~clicked') => \A k \in remote'.keys : k \in Held(user')
    <3> SUFFICES ASSUME ~lost, ~clicked', NEW k \in remote'.keys PROVE k \in Held(user')
      BY <2>1
    <3>1. KeysAgree(remote, <<>>, user)
      BY <1>1, <2>4 DEF Follows
    <3>2. \A x \in remote.keys : x \in Held(user)
      BY <1>1, <3>1, EmptyIsSilent DEF KeysAgree, InputTypes, Remotes, RemoteKeys
    <3>3. CASE down
      BY <2>2, <2>3, <3>2, <3>3
    <3>4. CASE ~down
      BY <2>3, <3>2, <3>4
    <3> QED
      BY <3>3, <3>4
  <2> QED
    BY <1>4, <2>1, <2>3, <2>4, <2>5, VncKeeps
<1> QED
  BY <1>1, <1>2, <1>3, <1>4 DEF InputTypes, Seats

(* A text holds no key.                                                    *)
LEMMA SendTextKeeps ==
    ASSUME InputInv, seat' = seat, user' = user, clicked' = clicked,
           sent.events < MaxEvents, sent' = [sent EXCEPT !.events = sent.events + 1],
           NEW text \in Texts, send_text(text)
    PROVE  InputInv'
<1>1. InputTypes /\ Follows /\ user \in Users /\ remote \in Remotes /\ clicked \in BOOLEAN
  BY DEF InputInv, InputTypes
<1>2. CASE seat.route = "rustdesk"
  <2> DEFINE m == [kind |-> "text", text |-> text]
  <2>1. Enqueue(m) /\ m \in ControlMessages
    BY <1>2 DEF send_text, TextMessage, ControlMessages, TextMessages
  <2>2. \A k : m \notin About(k) /\ m \notin KeyDown(k)
    BY DEF About, KeyDown
  <2> HIDE DEF m
  <2> QED
    BY <1>1, <1>2, <2>1, <2>2, ControlKeeps
<1>3. CASE seat.route = "vnc"
  <2> DEFINE t == {text[i] : i \in {j \in 1..Len(text) : Typeable(SubSeq(text, 1, j))}}
             w == remote.typed \cup t
  <2>1. /\ remote' = [remote EXCEPT !.typed = w]
        /\ lost' = (lost \/ ~Typeable(text))
        /\ UNCHANGED <<control, pointer>>
    BY <1>3 DEF send_text
  <2>2. t \subseteq AllKeys \cup {"large"}
    <3>1. \A i \in 1..Len(text) : text[i] \in AllKeys \cup {"large"}
      BY DEF Texts, AllKeys, Keys, Characters
    <3> QED
      BY <3>1
  <2>3. w \in SUBSET (AllKeys \cup {"large"})
    BY <1>1, <2>2 DEF Remotes
  <2> HIDE DEF w, t
  <2>4. /\ remote' \in Remotes /\ remote'.keys = remote.keys
        /\ remote'.seen = remote.seen /\ remote'.owed = remote.owed
    BY <1>1, <2>1, <2>3 DEF Remotes
  <2>5. lost' \in BOOLEAN /\ control = <<>>
    BY <1>3, <2>1 DEF InputInv, InputTypes, QueuesAreOfRustDesk
  <2>6. (~lost' /\ ~clicked') => \A k \in remote'.keys : k \in Held(user')
    <3> SUFFICES ASSUME ~lost, ~clicked PROVE \A k \in remote.keys : k \in Held(user)
      BY <2>1, <2>4
    <3>1. KeysAgree(remote, <<>>, user)
      BY <1>1, <2>5 DEF Follows
    <3> QED
      BY <1>1, <3>1, EmptyIsSilent DEF KeysAgree, Remotes, RemoteKeys
  <2> QED
    BY <1>1, <1>3, <2>1, <2>4, <2>5, <2>6, VncKeeps
<1> QED
  BY <1>1, <1>2, <1>3 DEF InputInv, InputTypes, Seats

(* What the user's hand on the mouse means for a message about it.         *)
LEMMA PointsIs ==
    ASSUME user \in Users, NEW type \in PointerKinds, NEW b \in Buttons, Points(type, b)
    PROVE  /\ user' \in Users /\ user'.keys = user.keys /\ clicked' = clicked
           /\ \A c \in Buttons : c # b \/ type # "up" => (c \in user.buttons => c \in user'.buttons)
           /\ type = "down" => b \in user'.buttons
<1> DEFINE w == CASE type = "down" -> user.buttons \cup {b}
                  [] type = "up" -> user.buttons \ {b}
                  [] OTHER -> user.buttons
<1>1. user' = [user EXCEPT !.buttons = w] /\ clicked' = clicked
  BY DEF Points
<1>2. /\ w \in SUBSET Buttons
      /\ type = "down" => b \in w
      /\ \A c \in Buttons : c # b \/ type # "up" => (c \in user.buttons => c \in w)
  BY DEF Users
<1> HIDE DEF w
<1> QED
  BY <1>1, <1>2 DEF Users

LEMMA SendMouseKeeps ==
    ASSUME InputInv, seat' = seat,
           sent.events < MaxEvents, sent' = [sent EXCEPT !.events = sent.events + 1],
           NEW type \in PointerKinds, NEW b \in Buttons, NEW place \in Spots,
           Points(type, b), send_mouse(type, b, place)
    PROVE  InputInv'
<1>1. /\ InputTypes /\ Follows /\ user \in Users /\ remote \in Remotes /\ clicked \in BOOLEAN
      /\ lost \in BOOLEAN
  BY DEF InputInv, InputTypes
<1>2. /\ user' \in Users /\ user'.keys = user.keys /\ clicked' = clicked
      /\ \A c \in Buttons : c # b \/ type # "up" => (c \in user.buttons => c \in user'.buttons)
      /\ type = "down" => b \in user'.buttons
  BY <1>1, PointsIs
<1>3. CASE Refused
  BY <1>1, <1>2, <1>3, RefusedKeeps
<1>4. CASE ~Refused /\ seat.route = "rustdesk"
  <2> DEFINE a == sent.control + Len(control)
             m == [kind |-> "mouse", type |-> type, button |-> b, place |-> place, after |-> a]
  <2>1. a \in Nat /\ a = sent.control + Len(control)
    BY <1>1, QueuesHaveLengths
  <2>2. Enqueue(m)
    BY <1>4 DEF send_mouse, MouseMessage
  <2> HIDE DEF a
  <2>3. m \in MouseMessages /\ m.after = a
    BY <2>1 DEF MouseMessages
  <2>4. /\ \A c : m \in ButtonMoves(c) <=> c = b /\ type \in {"down", "up"}
        /\ \A c : m \in ButtonDown(c) <=> c = b /\ type = "down"
    BY <2>1 DEF ButtonMoves, ButtonDown
  <2> HIDE DEF m
  <2>5. \A c \in Buttons : /\ m \notin ButtonMoves(c) /\ c \in user.buttons => c \in user'.buttons
                           /\ m \in ButtonDown(c) => c \in user'.buttons
    BY <1>2, <2>4
  <2> QED
    BY <1>2, <1>4, <2>1, <2>2, <2>3, <2>5, PointerKeeps
<1>5. CASE ~Refused /\ seat.route = "vnc"
  <2> DEFINE mask == IF type = "down" THEN vnc_button(b) ELSE {}
             at == IF type = "wheel" THEN "corner" ELSE place
  <2>1. remote' = [remote EXCEPT !.place = at, !.buttons = mask]
        /\ UNCHANGED <<control, pointer, lost>>
    BY <1>5 DEF send_mouse, vnc_mouse, vnc_send_mouse
  <2>2. mask \in SUBSET (Buttons \cup {"wheel_up"}) /\ at \in Spots
    BY DEF vnc_button, Buttons, Spots
  <2> HIDE DEF mask, at
  <2>3. /\ remote' \in Remotes /\ remote'.keys = remote.keys
        /\ remote'.seen = remote.seen /\ remote'.owed = remote.owed
    BY <1>1, <2>1, <2>2 DEF Remotes
  <2>4. control = <<>>
    BY <1>5 DEF InputInv, QueuesAreOfRustDesk
  <2>5. (~lost' /\ ~clicked') => \A k \in remote'.keys : k \in Held(user')
    <3> SUFFICES ASSUME ~lost, ~clicked PROVE \A k \in remote.keys : k \in Held(user)
      BY <1>2, <2>1, <2>3 DEF Held
    <3>1. KeysAgree(remote, <<>>, user)
      BY <1>1, <2>4 DEF Follows
    <3> QED
      BY <1>1, <3>1, EmptyIsSilent DEF KeysAgree, Remotes, RemoteKeys
  <2> QED
    BY <1>1, <1>2, <1>5, <2>1, <2>3, <2>5, VncKeeps
<1> QED
  BY <1>3, <1>4, <1>5 DEF InputInv, InputTypes, Seats

(* The calls that may press a key.                                         *)
LEMMA NamedKeyKeeps ==
    ASSUME InputInv, seat' = seat,
           sent.events < MaxEvents, sent' = [sent EXCEPT !.events = sent.events + 1],
           NEW k \in Keys, NEW down \in BOOLEAN, NEW press \in BOOLEAN, NEW mods \in {{}, Modifiers},
           Strikes(k, down, press),
           Refused \/ send_key(legacy_key_name(k), down, press, mods)
    PROVE  InputInv'
<1>1. user \in Users /\ clicked \in BOOLEAN
  BY DEF InputInv, InputTypes
<1>2. clicked' \in BOOLEAN /\ (clicked => clicked') /\ (~clicked' => ~press)
  BY <1>1 DEF Strikes
<1>3. CASE press
  <2>1. user' = user /\ clicked'
    BY <1>1, <1>3 DEF Strikes
  <2>2. legacy_key_name(k) \in AllKeys \cup {None} /\ user' \in Users /\ user'.buttons = user.buttons
    BY <1>1, <2>1, NamesAreKeys
  <2>3. CASE Refused
    BY <1>2, <2>2, <2>3, RefusedKeeps
  <2>4. CASE send_key(legacy_key_name(k), down, press, mods)
    BY <1>2, <2>1, <2>2, <2>4, SendKeyKeeps
  <2> QED
    BY <2>3, <2>4
<1>4. CASE ~press
  <2>1. Moves(k, "name", down) /\ "name" \in Tables
    BY <1>4 DEF Strikes, Tables
  <2>2. /\ user' \in Users /\ user'.buttons = user.buttons
        /\ down => Held(user) \subseteq Held(user') /\ Named(k, "name") \in Held(user')
        /\ \A n \in Held(user) : n # Named(k, "name") => n \in Held(user')
    BY <1>1, <2>1, MovesHolds
  <2>3. Named(k, "name") = legacy_key_name(k) /\ legacy_key_name(k) \in AllKeys \cup {None}
    BY NamesAreKeys
  <2>4. CASE Refused
    BY <1>2, <2>2, <2>4, RefusedKeeps
  <2>5. CASE send_key(legacy_key_name(k), down, press, mods)
    BY <1>2, <1>4, <2>2, <2>3, <2>5, SendKeyKeeps
  <2> QED
    BY <2>4, <2>5
<1> QED
  BY <1>3, <1>4

LEMMA UsageKeyKeeps ==
    ASSUME InputInv, seat' = seat, clicked' = clicked,
           sent.events < MaxEvents, sent' = [sent EXCEPT !.events = sent.events + 1],
           NEW k \in Keys, NEW down \in BOOLEAN, Moves(k, "hid", down),
           Refused \/ send_key(usb_hid_key(k), down, FALSE, {})
    PROVE  InputInv'
<1>1. user \in Users /\ clicked \in BOOLEAN /\ "hid" \in Tables
  BY DEF InputInv, InputTypes, Tables
<1>2. /\ user' \in Users /\ user'.buttons = user.buttons
      /\ down => Held(user) \subseteq Held(user') /\ Named(k, "hid") \in Held(user')
      /\ \A n \in Held(user) : n # Named(k, "hid") => n \in Held(user')
  BY <1>1, MovesHolds
<1>3. Named(k, "hid") = usb_hid_key(k) /\ usb_hid_key(k) \in AllKeys \cup {None}
  BY NamesAreKeys
<1>4. {} \in {{}, Modifiers} /\ FALSE \in BOOLEAN
  OBVIOUS
<1>5. CASE Refused
  BY <1>1, <1>2, <1>5, RefusedKeeps
<1>6. CASE send_key(usb_hid_key(k), down, FALSE, {})
  BY <1>1, <1>2, <1>3, <1>4, <1>6, SendKeyKeeps
<1> QED
  BY <1>5, <1>6

LEMMA RawKeyKeeps ==
    ASSUME InputInv, seat' = seat, clicked' = clicked,
           sent.events < MaxEvents, sent' = [sent EXCEPT !.events = sent.events + 1],
           NEW k \in Keys, NEW down \in BOOLEAN, Moves(k, "name", down),
           send_key(legacy_key_name(k), down, FALSE, {})
    PROVE  InputInv'
<1>1. user \in Users /\ clicked \in BOOLEAN /\ "name" \in Tables
  BY DEF InputInv, InputTypes, Tables
<1>2. /\ user' \in Users /\ user'.buttons = user.buttons
      /\ down => Held(user) \subseteq Held(user') /\ Named(k, "name") \in Held(user')
      /\ \A n \in Held(user) : n # Named(k, "name") => n \in Held(user')
  BY <1>1, MovesHolds
<1>3. Named(k, "name") = legacy_key_name(k) /\ legacy_key_name(k) \in AllKeys \cup {None}
  BY NamesAreKeys
<1>4. {} \in {{}, Modifiers} /\ FALSE \in BOOLEAN
  OBVIOUS
<1> QED
  BY <1>1, <1>2, <1>3, <1>4, SendKeyKeeps

LEMMA LockScreenKeeps ==
    ASSUME InputInv, session_lock_screen
    PROVE  InputInv'
<1>1. /\ seat' = seat /\ user' = user /\ clicked' = clicked /\ sent.events < MaxEvents
      /\ sent' = [sent EXCEPT !.events = sent.events + 1]
      /\ send_key("LockScreen", TRUE, FALSE, {})
  BY DEF session_lock_screen, Call
<1>2. user \in Users /\ clicked \in BOOLEAN
  BY DEF InputInv, InputTypes
<1>3. /\ {} \in {{}, Modifiers} /\ FALSE \in BOOLEAN /\ TRUE \in BOOLEAN
      /\ "LockScreen" \in AllKeys \cup {None} /\ Refuses("LockScreen")
  BY DEF AllKeys, Keys, Refuses, windows_virtual_key
<1> QED
  BY <1>1, <1>2, <1>3, SendKeyKeeps

-----------------------------------------------------------------------------
(* The writer and the host behind it.                                      *)

LEMMA InjectKeyIs ==
    ASSUME remote \in Remotes, NEW key \in AllKeys, NEW down \in BOOLEAN,
           NEW r, r = inject_key(remote, key, down)
    PROVE  /\ r \in Remotes /\ r.buttons = remote.buttons
           /\ r.seen = remote.seen /\ r.owed = remote.owed
           /\ r.keys \subseteq remote.keys \cup (IF down THEN {key} ELSE {})
           /\ ~down /\ ~Refuses(key) => key \notin r.keys
<1>1. CASE Refuses(key)
  <2>1. r = remote
    BY <1>1 DEF inject_key, Refuses, windows_virtual_key, None
  <2> QED
    BY <1>1, <2>1
<1>2. CASE ~Refuses(key) /\ key = "emoji"
  <2>1. r = IF down THEN [remote EXCEPT !.typed = remote.typed \cup {key}] ELSE remote
    BY <1>2 DEF inject_key, Refuses
  <2>2. key \notin remote.keys
    BY <1>2 DEF Remotes, RemoteKeys
  <2> QED
    BY <2>1, <2>2 DEF Remotes
<1>3. CASE ~Refuses(key) /\ key # "emoji"
  <2>1. r = IF down THEN Down(remote, key) ELSE Up(remote, key)
    BY <1>3 DEF inject_key, Refuses
  <2>2. CASE down
    BY <1>3, <2>1, <2>2, DownIs
  <2>3. CASE ~down
    BY <1>3, <2>1, <2>3, UpIs
  <2> QED
    BY <2>2, <2>3
<1> QED
  BY <1>1, <1>2, <1>3

LEMMA InjectTextIs ==
    ASSUME remote \in Remotes, NEW text \in Texts, NEW r, r = inject_text(remote, text)
    PROVE  /\ r \in Remotes /\ r.buttons = remote.buttons /\ r.keys = remote.keys
           /\ r.seen = remote.seen /\ r.owed = remote.owed
<1> DEFINE w == remote.typed \cup {text[i] : i \in 1..Len(text)}
<1>1. r = remote \/ r = [remote EXCEPT !.typed = w]
  BY DEF inject_text
<1>2. w \in SUBSET (AllKeys \cup {"large"})
  <2>1. \A i \in 1..Len(text) : text[i] \in AllKeys \cup {"large"}
    BY DEF Texts, AllKeys, Keys, Characters
  <2> QED
    BY <2>1 DEF Remotes
<1> HIDE DEF w
<1> QED
  BY <1>1, <1>2 DEF Remotes

(* The head of the control queue reaches the host, or is refused there.    *)
LEMMA WriteControlKeeps ==
    ASSUME InputInv, WriteControl
    PROVE  InputInv'
<1> DEFINE h == Head(control)
           t == Tail(control)
           n == Len(control)
<1>1. /\ InputTypes /\ NeverOvertakes /\ QueuesAreOfRustDesk /\ Follows
      /\ remote \in Remotes /\ user \in Users /\ lost \in BOOLEAN /\ clicked \in BOOLEAN
  BY DEF InputInv, InputTypes
<1>2. /\ control # <<>> /\ Arrives(h) /\ control' = t
      /\ sent' = [sent EXCEPT !.control = sent.control + 1]
      /\ UNCHANGED <<seat, user, pointer, clicked>>
  BY DEF WriteControl
<1>3. control \in Seq(ControlMessages)
  BY <1>1 DEF InputTypes
<1>4. /\ h \in ControlMessages /\ t \in Seq(ControlMessages)
      /\ n \in Nat /\ n >= 1 /\ Len(t) = n - 1 /\ n = Len(control)
  BY <1>2, <1>3
<1>5. /\ sent' \in [control : Nat, events : Nat] /\ sent'.control = sent.control + 1
      /\ sent'.events = sent.events
  BY <1>1, <1>2 DEF InputTypes
<1>6. \A k : /\ EndsBad(t, About(k), KeyDown(k)) => EndsBad(control, About(k), KeyDown(k))
             /\ (Silent(t, About(k)) /\ h \in KeyDown(k)) => EndsBad(control, About(k), KeyDown(k))
             /\ (Silent(t, About(k)) /\ h \notin About(k)) => Silent(control, About(k))
  BY <1>2, <1>3, TailKeeps
<1>7. Arrives(h) /\ h \in ControlMessages
  BY <1>2, <1>4
<1> HIDE DEF h, t, n
<1>8. ASSUME remote' \in Remotes, lost' \in BOOLEAN, remote'.owed <= remote'.seen
      PROVE  InputTypes' /\ NeverOvertakes' /\ QueuesAreOfRustDesk'
  <2>1. InputTypes'
    BY <1>1, <1>2, <1>4, <1>5, <1>8, QueuesHaveLengths DEF InputTypes
  <2>2. \A i \in 1..Len(pointer) : pointer[i].after \in Nat
    BY <1>1, AfterIsCount
  <2>3. sent'.control + Len(control') = sent.control + Len(control)
    BY <1>1, <1>2, <1>4, <1>5, QueuesHaveLengths
  <2>4. NeverOvertakes'
    BY <1>1, <1>2, <1>8, <2>3 DEF NeverOvertakes
  <2>5. QueuesAreOfRustDesk'
    BY <1>1, <1>2 DEF QueuesAreOfRustDesk
  <2> QED
    BY <2>1, <2>4, <2>5
<1>9. CASE /\ remote' = [remote EXCEPT !.seen = sent.control,
                                       !.owed = IF h.kind = "mouse" THEN h.after ELSE 0]
           /\ lost' = TRUE
  <2>1. h.kind # "mouse"
    BY <1>7 DEF ControlMessages, KeyMessages, TextMessages
  <2>2. remote' = [remote EXCEPT !.seen = sent.control, !.owed = 0]
    BY <1>9, <2>1
  <2>3. remote' \in Remotes /\ remote'.owed = 0 /\ remote'.seen = sent.control /\ sent.control \in Nat
    BY <1>1, <2>2, QueuesHaveLengths DEF Remotes
  <2>4. Follows'
    BY <1>9 DEF Follows
  <2> QED
    BY <1>8, <1>9, <2>3, <2>4 DEF InputInv
<1>10. CASE h \in KeyMessages /\ remote' = Injected(h) /\ lost' = (lost \/ Unsupported(h))
  <2> DEFINE key == h.key
             down == decode_down(h)
  <2>1. /\ key \in AllKeys /\ down \in BOOLEAN /\ h.kind = "key"
        /\ h \in About(key) /\ (down => h \in KeyDown(key))
        /\ \A k : h \in About(k) => k = key
    BY <1>10 DEF KeyMessages, decode_down, About, KeyDown
  <2>2. /\ remote' = inject_key(remote, key, down)
        /\ lost' = (lost \/ Refuses(key))
    BY <1>10, <2>1 DEF Injected, Unsupported, Refuses
  <2> HIDE DEF key, down
  <2>3. /\ remote' \in Remotes /\ remote'.buttons = remote.buttons
        /\ remote'.seen = remote.seen /\ remote'.owed = remote.owed
        /\ remote'.keys \subseteq remote.keys \cup (IF down THEN {key} ELSE {})
        /\ ~down /\ ~Refuses(key) => key \notin remote'.keys
    BY <1>1, <2>1, <2>2, InjectKeyIs
  <2>4. Follows'
    <3> SUFFICES ASSUME ~lost, ~Refuses(key), ~clicked
                 PROVE  /\ KeysAgree(remote', t, user)
                        /\ seat.route = "rustdesk" => ButtonsAgree(remote', pointer, user)
      BY <1>2, <2>2 DEF Follows
    <3>1. /\ KeysAgree(remote, control, user)
          /\ seat.route = "rustdesk" => ButtonsAgree(remote, pointer, user)
      BY <1>1 DEF Follows
    <3>2. seat.route = "rustdesk" => ButtonsAgree(remote', pointer, user)
      BY <2>3, <3>1 DEF ButtonsAgree
    <3>3. ASSUME NEW k \in AllKeys \cup Modifiers, k \in remote'.keys, Silent(t, About(k))
          PROVE  k \in Held(user)
      <4>1. CASE k = key
        <5>1. down /\ h \in KeyDown(k)
          BY <2>1, <2>3, <3>3, <4>1
        <5>2. EndsBad(control, About(k), KeyDown(k))
          BY <1>6, <3>3, <5>1
        <5> QED
          BY <3>1, <4>1, <5>2 DEF KeysAgree
      <4>2. CASE k # key
        <5>1. k \in remote.keys /\ h \notin About(k)
          BY <2>1, <2>3, <3>3, <4>2
        <5>2. Silent(control, About(k))
          BY <1>6, <3>3, <5>1
        <5> QED
          BY <3>1, <5>1, <5>2 DEF KeysAgree
      <4> QED
        BY <4>1, <4>2
    <3>4. ASSUME NEW k \in AllKeys \cup Modifiers, EndsBad(t, About(k), KeyDown(k))
          PROVE  k \in Held(user) \/ Refuses(k)
      BY <1>6, <3>1, <3>4 DEF KeysAgree
    <3> QED
      BY <3>2, <3>3, <3>4 DEF KeysAgree
  <2>5. lost' \in BOOLEAN /\ remote'.owed <= remote'.seen
    BY <1>1, <2>2, <2>3 DEF NeverOvertakes, Refuses
  <2> QED
    BY <1>8, <2>3, <2>4, <2>5 DEF InputInv
<1>11. CASE h \in TextMessages /\ remote' = Injected(h) /\ lost' = (lost \/ Unsupported(h))
  <2>1. h.text \in Texts /\ remote' = inject_text(remote, h.text) /\ \A k : h \notin About(k)
    BY <1>11 DEF TextMessages, Injected, About
  <2>2. /\ remote' \in Remotes /\ remote'.buttons = remote.buttons /\ remote'.keys = remote.keys
        /\ remote'.seen = remote.seen /\ remote'.owed = remote.owed
    BY <1>1, <2>1, InjectTextIs
  <2>3. lost' \in BOOLEAN /\ (lost => lost') /\ remote'.owed <= remote'.seen
    BY <1>1, <1>11, <2>2 DEF NeverOvertakes, Unsupported
  <2>4. Follows'
    <3> SUFFICES ASSUME ~lost, ~clicked
                 PROVE  /\ KeysAgree(remote', t, user)
                        /\ seat.route = "rustdesk" => ButtonsAgree(remote', pointer, user)
      BY <1>2, <2>3 DEF Follows
    <3>1. /\ KeysAgree(remote, control, user)
          /\ seat.route = "rustdesk" => ButtonsAgree(remote, pointer, user)
      BY <1>1 DEF Follows
    <3>2. seat.route = "rustdesk" => ButtonsAgree(remote', pointer, user)
      BY <2>2, <3>1 DEF ButtonsAgree
    <3>3. KeysAgree(remote', t, user)
      BY <1>6, <2>1, <2>2, <3>1 DEF KeysAgree
    <3> QED
      BY <3>2, <3>3
  <2> QED
    BY <1>8, <2>2, <2>3, <2>4 DEF InputInv
<1> QED
  BY <1>7, <1>9, <1>10, <1>11 DEF Arrives, ControlMessages

(* The head of the mouse queue follows once the control queue is empty.    *)
LEMMA WriteMouseKeeps ==
    ASSUME InputInv, WriteMouse
    PROVE  InputInv'
<1> DEFINE h == Head(pointer)
           t == Tail(pointer)
           n == Len(pointer)
<1>1. /\ InputTypes /\ NeverOvertakes /\ QueuesAreOfRustDesk /\ Follows
      /\ remote \in Remotes /\ user \in Users /\ lost \in BOOLEAN /\ clicked \in BOOLEAN
  BY DEF InputInv, InputTypes
<1>2. /\ pointer # <<>> /\ control = <<>> /\ Arrives(h) /\ pointer' = t
      /\ UNCHANGED <<seat, user, control, sent, clicked>>
  BY DEF WriteMouse, MouseTurn
<1>3. pointer \in Seq(MouseMessages)
  BY <1>1 DEF InputTypes
<1>4. /\ h \in MouseMessages /\ t \in Seq(MouseMessages) /\ n = Len(pointer)
      /\ n \in Nat /\ n >= 1 /\ Len(t) = n - 1
      /\ h = pointer[1] /\ \A i \in 1..(n - 1) : t[i] = pointer[i + 1]
  BY <1>2, <1>3
<1>5. \A b : /\ EndsBad(t, ButtonMoves(b), ButtonDown(b)) => EndsBad(pointer, ButtonMoves(b), ButtonDown(b))
             /\ (Silent(t, ButtonMoves(b)) /\ h \in ButtonDown(b)) =>
                    EndsBad(pointer, ButtonMoves(b), ButtonDown(b))
             /\ (Silent(t, ButtonMoves(b)) /\ h \notin ButtonMoves(b)) => Silent(pointer, ButtonMoves(b))
  BY <1>2, <1>3, TailKeeps
<1>6. Arrives(h) /\ h \in MouseMessages
  BY <1>2, <1>4
<1> HIDE DEF h, t, n
<1>7. /\ h.kind = "mouse" /\ h.type \in PointerKinds /\ h.button \in Buttons
      /\ h.place \in Spots /\ h.after \in Nat
  BY <1>6 DEF MouseMessages
<1>8. Len(control) = 0 /\ sent.control \in Nat
  BY <1>1, <1>2, QueuesHaveLengths
<1>9. 1 \in 1..Len(pointer) /\ h.after <= sent.control
  <2>1. 1 \in 1..Len(pointer)
    BY <1>4
  <2> QED
    BY <1>1, <1>4, <1>8, <2>1 DEF NeverOvertakes
<1>10. ASSUME remote' \in Remotes, lost' \in BOOLEAN, remote'.seen = sent.control, remote'.owed = h.after
       PROVE  InputTypes' /\ NeverOvertakes' /\ QueuesAreOfRustDesk'
  <2>1. Len(pointer') = n - 1 /\ n - 1 <= Commands
    BY <1>1, <1>2, <1>4, QueuesHaveLengths DEF InputTypes
  <2>2. InputTypes'
    BY <1>1, <1>2, <1>4, <1>10, <2>1 DEF InputTypes
  <2>3. ASSUME NEW i \in 1..Len(t) PROVE t[i].after <= sent.control + Len(control)
    <3>1. i \in 1..(n - 1) /\ i + 1 \in 1..Len(pointer)
      BY <1>4
    <3> QED
      BY <1>1, <1>4, <3>1 DEF NeverOvertakes
  <2>4. NeverOvertakes'
    BY <1>2, <1>9, <1>10, <2>3 DEF NeverOvertakes
  <2>5. QueuesAreOfRustDesk'
    BY <1>1, <1>2 DEF QueuesAreOfRustDesk
  <2> QED
    BY <2>2, <2>4, <2>5
<1>11. CASE /\ remote' = [remote EXCEPT !.seen = sent.control,
                                        !.owed = IF h.kind = "mouse" THEN h.after ELSE 0]
            /\ lost' = TRUE
  <2>1. remote' = [remote EXCEPT !.seen = sent.control, !.owed = h.after]
    BY <1>7, <1>11
  <2>2. remote' \in Remotes /\ remote'.owed = h.after /\ remote'.seen = sent.control
    BY <1>1, <1>7, <1>8, <2>1 DEF Remotes
  <2>3. Follows'
    BY <1>11 DEF Follows
  <2> QED
    BY <1>10, <1>11, <2>2, <2>3 DEF InputInv
<1>12. CASE remote' = Injected(h) /\ lost' = (lost \/ Unsupported(h))
  <2> DEFINE e == [h EXCEPT !.place = IF h.type = "move" THEN h.place ELSE remote.place]
             p == inject_mouse(remote, e)
             f == [p EXCEPT !.seen = sent.control, !.owed = h.after]
  <2>1. remote' = f /\ lost' = lost
    BY <1>1, <1>7, <1>12 DEF Injected, decode_mouse, Unsupported
  <2>2. /\ e.type = h.type /\ e.button = h.button /\ e.place \in Spots \cup {"start"}
    BY <1>1, <1>6, <1>7 DEF MouseMessages, Remotes
  <2>3. p = CASE e.type = "down" -> [remote EXCEPT !.buttons = remote.buttons \cup {e.button}]
              [] e.type = "up" -> [remote EXCEPT !.buttons = remote.buttons \ {e.button}]
              [] OTHER -> [remote EXCEPT !.place = e.place]
    BY DEF inject_mouse
  <2> HIDE DEF e, p
  <2>4. /\ p \in Remotes /\ p.keys = remote.keys
        /\ h.type = "down" => p.buttons = remote.buttons \cup {h.button}
        /\ h.type = "up" => p.buttons = remote.buttons \ {h.button}
        /\ h.type \notin {"down", "up"} => p.buttons = remote.buttons
    <3>1. CASE h.type = "down"
      BY <1>1, <1>7, <2>2, <2>3, <3>1 DEF Remotes
    <3>2. CASE h.type = "up"
      BY <1>1, <1>7, <2>2, <2>3, <3>2 DEF Remotes
    <3>3. CASE h.type \notin {"down", "up"}
      BY <1>1, <1>7, <2>2, <2>3, <3>3 DEF Remotes
    <3> QED
      BY <3>1, <3>2, <3>3
  <2>5. /\ remote' \in Remotes /\ remote'.keys = p.keys /\ remote'.buttons = p.buttons
        /\ remote'.seen = sent.control /\ remote'.owed = h.after
    BY <1>7, <1>8, <2>1, <2>4 DEF Remotes
  <2> HIDE DEF f
  <2>6. Follows'
    <3> SUFFICES ASSUME ~lost, ~clicked
                 PROVE  /\ KeysAgree(remote', control, user)
                        /\ seat.route = "rustdesk" => ButtonsAgree(remote', t, user)
      BY <1>2, <2>1 DEF Follows
    <3>1. /\ KeysAgree(remote, control, user)
          /\ seat.route = "rustdesk" => ButtonsAgree(remote, pointer, user)
      BY <1>1 DEF Follows
    <3>2. KeysAgree(remote', control, user)
      BY <2>4, <2>5, <3>1 DEF KeysAgree
    <3>3. ASSUME seat.route = "rustdesk", NEW b \in Buttons
          PROVE  /\ b \in remote'.buttons /\ Silent(t, ButtonMoves(b)) => b \in user.buttons
                 /\ EndsBad(t, ButtonMoves(b), ButtonDown(b)) => b \in user.buttons
      <4>1. ButtonsAgree(remote, pointer, user)
        BY <3>1, <3>3
      <4>2. EndsBad(t, ButtonMoves(b), ButtonDown(b)) => b \in user.buttons
        BY <1>5, <4>1 DEF ButtonsAgree
      <4>3. ASSUME b \in remote'.buttons, Silent(t, ButtonMoves(b)) PROVE b \in user.buttons
        <5>1. CASE h \in ButtonDown(b)
          BY <1>5, <4>1, <4>3, <5>1 DEF ButtonsAgree
        <5>2. CASE h \notin ButtonMoves(b)
          <6>1. h.type \notin {"down", "up"} \/ h.button # b
            BY <1>6, <5>2 DEF ButtonMoves, MouseMessages
          <6>2. b \in remote.buttons
            BY <1>7, <2>4, <2>5, <4>3, <6>1 DEF PointerKinds
          <6> QED
            BY <1>5, <4>1, <4>3, <5>2, <6>2 DEF ButtonsAgree
        <5>3. CASE h \in ButtonMoves(b) /\ h \notin ButtonDown(b)
          <6>1. h.type = "up" /\ h.button = b
            BY <1>6, <5>3 DEF ButtonMoves, ButtonDown, MouseMessages
          <6> QED
            BY <2>4, <2>5, <4>3, <6>1
        <5> QED
          BY <5>1, <5>2, <5>3
      <4> QED
        BY <4>2, <4>3
    <3>4. seat.route = "rustdesk" => remote'.buttons \subseteq Buttons
      BY <1>7, <2>4, <2>5, <3>1 DEF ButtonsAgree, PointerKinds
    <3> QED
      BY <3>2, <3>3, <3>4 DEF ButtonsAgree
  <2> QED
    BY <1>1, <1>10, <2>1, <2>5, <2>6 DEF InputInv
<1> QED
  BY <1>6, <1>11, <1>12 DEF Arrives

LEMMA InputInitially == InputInit => InputInv
<1> SUFFICES ASSUME InputInit PROVE InputInv
  OBVIOUS
<1>1. /\ control = <<>> /\ pointer = <<>> /\ sent = [control |-> 0, events |-> 0]
      /\ lost = FALSE /\ clicked = FALSE /\ user = [keys |-> {}, buttons |-> {}] /\ seat \in Seats
      /\ remote = [keys |-> {}, buttons |-> {}, typed |-> {}, place |-> "start",
                   seen |-> 0, owed |-> 0]
  BY DEF InputInit, Seats
<1>2. user \in Users /\ remote \in Remotes
  BY <1>1 DEF Users, Remotes
<1>3. /\ control \in Seq(ControlMessages) /\ Len(control) = 0
      /\ pointer \in Seq(MouseMessages) /\ Len(pointer) = 0
  BY <1>1
<1>4. InputTypes
  <2>1. /\ sent \in [control : Nat, events : Nat] /\ sent.control = 0 /\ sent.events = 0
        /\ Commands \in Nat /\ MaxEvents \in Nat
    BY <1>1, InputConstants
  <2>2. /\ Len(control) <= Commands /\ Len(pointer) <= Commands
        /\ sent.control + Len(control) <= sent.events /\ sent.events <= MaxEvents
    BY <1>3, <2>1
  <2>3. lost \in BOOLEAN /\ clicked \in BOOLEAN /\ seat \in Seats
    BY <1>1
  <2> QED
    BY <1>2, <1>3, <2>1, <2>2, <2>3 DEF InputTypes
<1>5. NeverOvertakes /\ QueuesAreOfRustDesk
  BY <1>1 DEF NeverOvertakes, QueuesAreOfRustDesk
<1>6. Follows
  BY <1>1, EmptyIsSilent DEF Follows, KeysAgree, ButtonsAgree
<1> QED
  BY <1>4, <1>5, <1>6 DEF InputInv

LEMMA InputStep ==
    ASSUME InputInv, [InputNext]_inputVars
    PROVE  InputInv'
<1>1. CASE UNCHANGED inputVars
  BY <1>1 DEF inputVars, InputInv, InputTypes, NeverOvertakes, QueuesAreOfRustDesk, Follows
<1>2. ASSUME NEW front, Call(front)
      PROVE  /\ seat' = seat /\ sent.events < MaxEvents
             /\ sent' = [sent EXCEPT !.events = sent.events + 1]
  BY <1>2 DEF Call
<1>3. CASE ohos_session_input_key
  <2>1. PICK k \in Keys, down \in BOOLEAN, press \in BOOLEAN, mods \in {{}, Modifiers} :
            /\ Strikes(k, down, press)
            /\ Refused \/ send_key(legacy_key_name(k), down, press, mods)
    BY <1>3 DEF ohos_session_input_key, Unless
  <2> QED
    BY <1>2, <1>3, <2>1, NamedKeyKeeps DEF ohos_session_input_key
<1>4. CASE ohos_session_handle_flutter_key_event
  <2>1. PICK k \in Keys, down \in BOOLEAN :
            Moves(k, "hid", down) /\ (Refused \/ send_key(usb_hid_key(k), down, FALSE, {}))
    BY <1>4 DEF ohos_session_handle_flutter_key_event, Unless
  <2> QED
    BY <1>2, <1>4, <2>1, UsageKeyKeeps DEF ohos_session_handle_flutter_key_event
<1>5. CASE ohos_session_input_string
  <2>1. PICK text \in Texts : Refused \/ send_text(text)
    BY <1>5 DEF ohos_session_input_string, Unless
  <2>2. user' = user /\ clicked' = clicked /\ user \in Users /\ clicked \in BOOLEAN
    BY <1>5 DEF ohos_session_input_string, InputInv, InputTypes
  <2>3. /\ seat' = seat /\ sent.events < MaxEvents
        /\ sent' = [sent EXCEPT !.events = sent.events + 1]
    BY <1>2, <1>5 DEF ohos_session_input_string
  <2>4. CASE Refused
    BY <2>2, <2>3, <2>4, RefusedKeeps
  <2>5. CASE send_text(text)
    BY <2>2, <2>3, <2>5, SendTextKeeps
  <2> QED
    BY <2>1, <2>4, <2>5
<1>6. CASE ohos_session_send_mouse_event
  <2>1. PICK type \in PointerKinds, b \in Buttons, place \in Spots :
            Points(type, b) /\ (Refused \/ send_mouse(type, b, place))
    BY <1>6 DEF ohos_session_send_mouse_event, Unless, PointerKinds, Spots, Places
  <2>2. /\ seat' = seat /\ sent.events < MaxEvents
        /\ sent' = [sent EXCEPT !.events = sent.events + 1]
    BY <1>2, <1>6 DEF ohos_session_send_mouse_event
  <2>3. user' \in Users /\ clicked' \in BOOLEAN
    BY <2>1, PointsIs DEF InputInv, InputTypes
  <2>4. CASE Refused
    BY <2>2, <2>3, <2>4, RefusedKeeps
  <2>5. CASE send_mouse(type, b, place)
    BY <2>1, <2>2, <2>5, SendMouseKeeps
  <2> QED
    BY <2>1, <2>4, <2>5
<1>7. CASE session_input_key
  <2>1. PICK k \in Keys, down \in BOOLEAN, press \in BOOLEAN, mods \in {{}, Modifiers} :
            /\ Strikes(k, down, press)
            /\ Refused \/ send_key(legacy_key_name(k), down, press, mods)
    BY <1>7 DEF session_input_key
  <2> QED
    BY <1>2, <1>7, <2>1, NamedKeyKeeps DEF session_input_key
<1>8. CASE session_handle_flutter_key_event
  <2>1. PICK k \in Keys, down \in BOOLEAN :
            Moves(k, "hid", down) /\ (Refused \/ send_key(usb_hid_key(k), down, FALSE, {}))
    BY <1>8 DEF session_handle_flutter_key_event
  <2> QED
    BY <1>2, <1>8, <2>1, UsageKeyKeeps DEF session_handle_flutter_key_event
<1>9. CASE session_handle_flutter_raw_key_event
  <2>1. PICK k \in Keys, down \in BOOLEAN :
            Moves(k, "name", down) /\ send_key(legacy_key_name(k), down, FALSE, {})
    BY <1>9 DEF session_handle_flutter_raw_key_event
  <2> QED
    BY <1>2, <1>9, <2>1, RawKeyKeeps DEF session_handle_flutter_raw_key_event
<1>10. CASE session_input_string
  <2>1. PICK text \in Texts : send_text(text)
    BY <1>10 DEF session_input_string
  <2>2. user' = user /\ clicked' = clicked
    BY <1>10 DEF session_input_string
  <2> QED
    BY <1>2, <1>10, <2>1, <2>2, SendTextKeeps DEF session_input_string
<1>11. CASE session_send_mouse
  <2>1. PICK type \in PointerKinds, b \in Buttons, place \in Places :
            Points(type, b) /\ send_mouse(type, b, PlaceOf(place))
    BY <1>11 DEF session_send_mouse, PointerKinds
  <2>2. PlaceOf(place) \in Spots
    BY DEF PlaceOf, coordinate, Spots, Places, None
  <2> QED
    BY <1>2, <1>11, <2>1, <2>2, SendMouseKeeps DEF session_send_mouse
<1>12. CASE session_lock_screen
  BY <1>12, LockScreenKeeps
<1>13. CASE WriteControl
  BY <1>13, WriteControlKeeps
<1>14. CASE WriteMouse
  BY <1>14, WriteMouseKeeps
<1> QED
  BY <1>1, <1>3, <1>4, <1>5, <1>6, <1>7, <1>8, <1>9, <1>10, <1>11, <1>12, <1>13, <1>14 DEF InputNext

LEMMA InputIsEnough == InputInv => InputTypeOK /\ NoStuckInput /\ ClickSeesModifiers
<1> SUFFICES ASSUME InputInv PROVE InputTypeOK /\ NoStuckInput /\ ClickSeesModifiers
  OBVIOUS
<1>1. /\ InputTypes /\ NeverOvertakes /\ Follows /\ remote \in Remotes /\ user \in Users
  BY DEF InputInv, InputTypes
<1>2. sent.control <= sent.events /\ sent.events <= MaxEvents /\ sent.events \in Nat /\ sent.control \in Nat
  BY <1>1, QueuesHaveLengths DEF InputTypes
<1>3. sent.control \in 0..MaxEvents /\ sent.events \in 0..MaxEvents
  BY <1>1, <1>2, QueuesHaveLengths
<1>4. InputTypeOK
  BY <1>1, <1>3 DEF InputTypeOK, InputTypes, Seats, Users, Remotes, RemoteKeys, AllKeys
<1>5. ClickSeesModifiers
  BY <1>1 DEF NeverOvertakes, ClickSeesModifiers
<1>6. NoStuckInput
  <2> SUFFICES ASSUME control = <<>>, pointer = <<>>, ~lost, ~clicked
               PROVE  /\ remote.keys \subseteq Held(user)
                      /\ seat.route = "rustdesk" => remote.buttons \subseteq user.buttons
    BY DEF NoStuckInput, Delivered, Held
  <2>1. /\ KeysAgree(remote, <<>>, user)
        /\ seat.route = "rustdesk" => ButtonsAgree(remote, <<>>, user)
    BY <1>1 DEF Follows
  <2>2. remote.keys \subseteq Held(user)
    BY <1>1, <2>1, EmptyIsSilent DEF KeysAgree, Remotes, RemoteKeys
  <2>3. seat.route = "rustdesk" => remote.buttons \subseteq user.buttons
    BY <1>1, <2>1, EmptyIsSilent DEF ButtonsAgree, Remotes
  <2> QED
    BY <2>2, <2>3
<1> QED
  BY <1>4, <1>5, <1>6

-----------------------------------------------------------------------------
(* Files.                                                                  *)

PeerFiles == [password : {"none", "clear", "sealed"}, options : [Options -> Values]]
BridgeCalls ==
    [does : {"nothing", "set", "get", "forget", "remove"},
     option : Options \cup {NoBridgeCall.option}, value : Values, loaded : BOOLEAN, copy : PeerFiles]

Active(c) == call[c].does # "nothing"

StoreTypes ==
    /\ realm \in {"peer", "options", "identity"}
    /\ peer \in PeerFiles /\ call \in [Calls -> BridgeCalls]
    /\ \A c \in Calls :
          /\ call[c].does = "set" => call[c].option \in Options
          /\ call[c].does = "remove" => ~call[c].loaded
    /\ wrote \in [Options -> Values] /\ forgot \in BOOLEAN /\ overlap \in BOOLEAN
    /\ DOMAIN userOptions \subseteq Options
    /\ \A o \in DOMAIN userOptions : userOptions[o] \in Values
    /\ userOptions \in [DOMAIN userOptions -> Values]
    /\ askedOptions \in [Options -> Values]
    /\ callsMade \in 0..MaxLocalCalls /\ boots \in 0..MaxBoots
    /\ identity \in [up : BOOLEAN, file : {"none", "cut", "whole"}, stored : Nat, key : Nat]

OneCallKeeps ==
    ~overlap =>
        /\ PeerIsAsWritten
        /\ \A c, d \in Calls : Active(c) /\ Active(d) => c = d
        /\ \A c \in Calls : Active(c) /\ call[c].loaded => call[c].copy = Opened(peer)

OptionsAnswer ==
    \A o \in Options \ DOMAIN layers.overwrite :
        askedOptions[o] # 0 =>
            IF o \in DOMAIN userOptions THEN userOptions[o] = askedOptions[o]
            ELSE o \in DOMAIN layers.default /\ layers.default[o] = askedOptions[o]

IdentityKeeps ==
    IF identity.file = "whole" THEN announcedKeys \subseteq {identity.stored}
    ELSE announcedKeys = {}

StoreInv == StoreTypes /\ OneCallKeeps /\ OptionsAnswer /\ IdentityKeeps

LEMMA NoCallIsCall ==
    /\ NoOptions \in [Options -> Values]
    /\ NoBridgeCall \in BridgeCalls /\ NoBridgeCall.does = "nothing"
    /\ ~NoBridgeCall.loaded
BY LocalConstants DEF NoOptions, NoBridgeCall, BridgeCalls, PeerFiles

LEMMA OpenedIsFile ==
    ASSUME NEW f \in PeerFiles
    PROVE  /\ Opened(f) \in PeerFiles /\ Opened(f).options = f.options
           /\ f.password = "none" => Opened(f).password = "none"
           /\ Closed(f) \in PeerFiles /\ Closed(f).options = f.options
           /\ f.password = "none" => Closed(f).password = "none"
BY DEF Opened, Closed, PeerFiles, decrypt_vec_or_original, encrypt_vec_or_original

(* What a call does to its copy, before the copy is written.               *)
LEMMA ModifiedIsFile ==
    ASSUME NEW x \in BridgeCalls, x.does \in {"set", "get", "forget"},
           x.does = "set" => x.option \in Options
    PROVE  /\ Modified(x) \in PeerFiles
           /\ Modified(x).options = IF x.does = "set"
                                    THEN [x.copy.options EXCEPT ![x.option] = x.value]
                                    ELSE x.copy.options
           /\ (x.does = "forget" \/ x.copy.password = "none") => Modified(x).password = "none"
<1>1. x.copy \in PeerFiles /\ x.value \in Values
  BY DEF BridgeCalls
<1>2. CASE x.does = "set"
  <2>1. Modified(x) = [x.copy EXCEPT !.options[x.option] = x.value]
    BY <1>2 DEF Modified
  <2> DEFINE w == [x.copy.options EXCEPT ![x.option] = x.value]
  <2>2. w \in [Options -> Values]
    BY <1>1, <1>2 DEF PeerFiles
  <2>3. Modified(x) = [x.copy EXCEPT !.options = w]
    BY <2>1
  <2> HIDE DEF w
  <2>4. /\ Modified(x) \in PeerFiles /\ Modified(x).options = w
        /\ Modified(x).password = x.copy.password
    BY <1>1, <2>2, <2>3 DEF PeerFiles
  <2> QED
    BY <1>2, <2>4 DEF w
<1>3. CASE x.does = "forget"
  <2>1. Modified(x) = [x.copy EXCEPT !.password = "none"]
    BY <1>3 DEF Modified
  <2> QED
    BY <1>1, <1>3, <2>1 DEF PeerFiles
<1>4. CASE x.does = "get"
  <2>1. Modified(x) = x.copy
    BY <1>4 DEF Modified
  <2> QED
    BY <1>1, <1>4, <2>1
<1> QED
  BY <1>2, <1>3, <1>4

(* A call begins.                                                          *)
LEMMA BeginKeeps ==
    ASSUME StoreTypes, OneCallKeeps, NEW c \in Calls,
           NEW does \in {"set", "get", "forget", "remove"},
           NEW o \in Options \cup {NoBridgeCall.option}, NEW v \in Values,
           does = "set" => o \in Options, Begin(c, does, o, v),
           UNCHANGED <<realm, layers, userOptions, askedOptions, identity, announcedKeys, boots>>
    PROVE  StoreTypes' /\ OneCallKeeps'
<1> DEFINE x == [NoBridgeCall EXCEPT !.does = does, !.option = o, !.value = v]
<1>1. /\ x \in BridgeCalls /\ x.does = does /\ x.option = o /\ ~x.loaded
  BY NoCallIsCall DEF BridgeCalls
<1>2. /\ call' = [call EXCEPT ![c] = x] /\ call[c].does = "nothing"
      /\ callsMade < MaxLocalCalls /\ callsMade' = callsMade + 1
      /\ overlap' = (overlap \/ \E other \in Calls : call[other].does # "nothing")
      /\ UNCHANGED <<peer, wrote, forgot>>
  BY DEF Begin
<1> HIDE DEF x
<1>3. /\ call' \in [Calls -> BridgeCalls] /\ call'[c] = x
      /\ \A d \in Calls : d # c => call'[d] = call[d]
  BY <1>1, <1>2 DEF StoreTypes
<1>4. callsMade' \in 0..MaxLocalCalls /\ overlap' \in BOOLEAN
  BY <1>2, LocalConstants DEF StoreTypes
<1>5. StoreTypes'
  BY <1>1, <1>2, <1>3, <1>4 DEF StoreTypes
<1>6. OneCallKeeps'
  <2> SUFFICES ASSUME ~overlap'
               PROVE  /\ PeerIsAsWritten'
                      /\ \A d, e \in Calls : Active(d)' /\ Active(e)' => d = e
                      /\ \A d \in Calls : Active(d)' /\ call'[d].loaded => call'[d].copy = Opened(peer)'
    BY DEF OneCallKeeps
  <2>1. ~overlap /\ \A d \in Calls : call[d].does = "nothing"
    BY <1>2
  <2>2. \A d \in Calls : Active(d)' => d = c
    BY <1>3, <2>1 DEF Active
  <2>3. PeerIsAsWritten'
    BY <1>2, <2>1 DEF OneCallKeeps, PeerIsAsWritten
  <2> QED
    BY <1>1, <1>3, <2>2, <2>3
<1> QED
  BY <1>5, <1>6

(* It loads the file.                                                      *)
LEMMA LoadKeeps ==
    ASSUME StoreTypes, OneCallKeeps, NEW c \in Calls, Load(c),
           UNCHANGED <<realm, layers, userOptions, askedOptions, identity, announcedKeys, boots>>
    PROVE  StoreTypes' /\ OneCallKeeps'
<1> DEFINE y == call[c]
           does == IF y.does = "get" /\ ~StoreOnLoad(peer.password) THEN "nothing" ELSE y.does
           x == [y EXCEPT !.loaded = TRUE, !.copy = Opened(peer), !.does = does]
<1>1. y \in BridgeCalls /\ y.does \in {"set", "get", "forget"} /\ Opened(peer) \in PeerFiles
  BY OpenedIsFile DEF Load, StoreTypes
<1>2. does \in {"nothing", "set", "get", "forget"} /\ (does = "set" => y.does = "set")
  BY <1>1
<1>3. call' = [call EXCEPT ![c] = x] /\ UNCHANGED <<peer, callsMade, wrote, forgot, overlap>>
  BY DEF Load
<1> HIDE DEF does
<1>4. /\ x \in BridgeCalls /\ x.does = does /\ x.option = y.option /\ x.copy = Opened(peer)
  BY <1>1, <1>2 DEF BridgeCalls
<1> HIDE DEF x
<1>5. /\ call' \in [Calls -> BridgeCalls] /\ call'[c] = x
      /\ \A d \in Calls : d # c => call'[d] = call[d]
  BY <1>3, <1>4 DEF StoreTypes
<1>6. StoreTypes'
  BY <1>2, <1>3, <1>4, <1>5 DEF StoreTypes
<1>7. OneCallKeeps'
  <2>1. \A d \in Calls : Active(d)' => Active(d)
    BY <1>1, <1>5 DEF Active
  <2>2. Opened(peer)' = Opened(peer)
    BY <1>3 DEF Opened
  <2>3. PeerIsAsWritten => PeerIsAsWritten'
    BY <1>3 DEF PeerIsAsWritten
  <2>4. overlap' = overlap
    BY <1>3
  <2>5. \A d \in Calls : call'[d].copy = Opened(peer) \/ call'[d] = call[d]
    BY <1>4, <1>5
  <2> QED
    BY <2>1, <2>2, <2>3, <2>4, <2>5 DEF OneCallKeeps
<1> QED
  BY <1>6, <1>7

(* It writes its copy, and is over.                                        *)
LEMMA StoreKeeps ==
    ASSUME StoreTypes, OneCallKeeps, NEW c \in Calls, Store(c),
           call[c].does \in {"set", "get", "forget"},
           UNCHANGED <<realm, layers, userOptions, askedOptions, identity, announcedKeys, boots>>
    PROVE  StoreTypes' /\ OneCallKeeps'
<1> DEFINE x == call[c]
           m == Modified(x)
<1>0. /\ x \in BridgeCalls /\ x.does \in {"set", "get", "forget"}
      /\ x.does = "set" => x.option \in Options
  BY DEF StoreTypes
<1>1. /\ x.loaded /\ peer' = Closed(m)
      /\ wrote' = IF x.does = "set" THEN [wrote EXCEPT ![x.option] = x.value] ELSE wrote
      /\ forgot' = (forgot \/ x.does = "forget")
      /\ call' = [call EXCEPT ![c] = NoBridgeCall] /\ UNCHANGED <<callsMade, overlap>>
  BY DEF Store
<1>2. /\ m \in PeerFiles
      /\ m.options = IF x.does = "set" THEN [x.copy.options EXCEPT ![x.option] = x.value]
                     ELSE x.copy.options
      /\ (x.does = "forget" \/ x.copy.password = "none") => m.password = "none"
      /\ x.value \in Values
  BY <1>0, ModifiedIsFile DEF BridgeCalls
<1> HIDE DEF m
<1>3. /\ peer' \in PeerFiles /\ peer'.options = m.options
      /\ m.password = "none" => peer'.password = "none"
  BY <1>1, <1>2, OpenedIsFile
<1>4. /\ call' \in [Calls -> BridgeCalls] /\ call'[c] = NoBridgeCall
      /\ \A d \in Calls : d # c => call'[d] = call[d]
  BY <1>1, NoCallIsCall DEF StoreTypes
<1>5. wrote' \in [Options -> Values] /\ forgot' \in BOOLEAN
  BY <1>0, <1>1, <1>2 DEF StoreTypes
<1>6. StoreTypes'
  BY <1>1, <1>3, <1>4, <1>5, NoCallIsCall DEF StoreTypes
<1>7. OneCallKeeps'
  <2> SUFFICES ASSUME ~overlap
               PROVE  /\ PeerIsAsWritten'
                      /\ \A d \in Calls : ~Active(d)'
    BY <1>1 DEF OneCallKeeps
  <2>1. /\ x.copy = Opened(peer) /\ \A d \in Calls : Active(d) => d = c
    BY <1>0, <1>1 DEF OneCallKeeps, Active
  <2>2. PeerIsAsWritten /\ peer \in PeerFiles
    BY DEF OneCallKeeps, StoreTypes
  <2>3. /\ x.copy.options = wrote
        /\ forgot => x.copy.password = "none"
    BY <2>1, <2>2, OpenedIsFile DEF PeerIsAsWritten
  <2>4. PeerIsAsWritten'
    BY <1>0, <1>1, <1>2, <1>3, <2>3 DEF PeerIsAsWritten
  <2>5. \A d \in Calls : ~Active(d)'
    BY <1>4, <2>1, NoCallIsCall DEF Active
  <2> QED
    BY <2>4, <2>5
<1> QED
  BY <1>6, <1>7

LEMMA RemoveKeeps ==
    ASSUME StoreTypes, OneCallKeeps, NEW c \in Calls, Remove(c),
           UNCHANGED <<realm, layers, userOptions, askedOptions, identity, announcedKeys, boots>>
    PROVE  StoreTypes' /\ OneCallKeeps'
<1>1. /\ call[c].does = "remove"
      /\ peer' = [password |-> "none", options |-> NoOptions]
      /\ wrote' = NoOptions /\ forgot' = TRUE
      /\ call' = [call EXCEPT ![c] = NoBridgeCall] /\ UNCHANGED <<callsMade, overlap>>
  BY DEF Remove
<1>2. /\ call' \in [Calls -> BridgeCalls] /\ call'[c] = NoBridgeCall
      /\ \A d \in Calls : d # c => call'[d] = call[d]
  BY <1>1, NoCallIsCall DEF StoreTypes
<1>3. peer' \in PeerFiles /\ wrote' \in [Options -> Values] /\ PeerIsAsWritten'
  BY <1>1, NoCallIsCall DEF PeerFiles, PeerIsAsWritten
<1>4. StoreTypes'
  BY <1>1, <1>2, <1>3, NoCallIsCall DEF StoreTypes
<1>5. ~overlap => \A d \in Calls : Active(d) => d = c
  BY <1>1 DEF OneCallKeeps, Active
<1>6. ~overlap => \A d \in Calls : ~Active(d)'
  BY <1>2, <1>5, NoCallIsCall DEF Active
<1>7. OneCallKeeps'
  BY <1>1, <1>3, <1>6 DEF OneCallKeeps
<1> QED
  BY <1>4, <1>7

LEMMA PeerKeeps ==
    ASSUME StoreTypes, OneCallKeeps, PeerStep
    PROVE  StoreTypes' /\ OneCallKeeps'
<1>1. UNCHANGED <<realm, layers, userOptions, askedOptions, identity, announcedKeys, boots>>
  BY DEF PeerStep
<1>2. PICK c \in Calls :
          \/ \E o \in Options, v \in Values : SetPeerOption(c, o, v)
          \/ \E o \in Options : GetPeerOption(c, o)
          \/ forget_password(c) \/ remove_peer(c)
          \/ Load(c) \/ Store(c) \/ Remove(c)
  BY DEF PeerStep
<1>3. 0 \in Values
  BY LocalConstants
<1>4. ASSUME NEW o \in Options, NEW v \in Values, SetPeerOption(c, o, v)
      PROVE  StoreTypes' /\ OneCallKeeps'
  BY <1>1, <1>4, BeginKeeps DEF SetPeerOption
<1>5. ASSUME NEW o \in Options, GetPeerOption(c, o)
      PROVE  StoreTypes' /\ OneCallKeeps'
  BY <1>1, <1>3, <1>5, BeginKeeps DEF GetPeerOption
<1>6. CASE forget_password(c) \/ remove_peer(c)
  BY <1>1, <1>3, <1>6, BeginKeeps DEF forget_password, remove_peer
<1>7. CASE Store(c)
  <2>1. call[c].does # "nothing" /\ call[c].does # "remove"
    <3>1. call[c].does # "nothing" /\ call[c].loaded
      BY <1>7 DEF Store
    <3>2. call[c].does = "remove" => ~call[c].loaded
      BY DEF StoreTypes
    <3> QED
      BY <3>1, <3>2
  <2>2. call[c].does \in {"set", "get", "forget"}
    BY <2>1 DEF StoreTypes, BridgeCalls
  <2> QED
    BY <1>1, <1>7, <2>2, StoreKeeps
<1> QED
  BY <1>1, <1>2, <1>4, <1>5, <1>6, <1>7, LoadKeeps, RemoveKeeps

LEMMA OptionKeeps ==
    ASSUME StoreTypes, OptionsAnswer, NEW o \in Options, NEW v \in Values, SetOption(o, v)
    PROVE  StoreTypes' /\ OptionsAnswer'
<1>1. /\ callsMade < MaxLocalCalls /\ callsMade' = callsMade + 1
      /\ userOptions' = OptionSet(o, v) /\ askedOptions' = [askedOptions EXCEPT ![o] = v]
      /\ UNCHANGED <<realm, peer, call, wrote, forgot, overlap, layers, identity, boots>>
  BY DEF SetOption
<1>2. /\ DOMAIN userOptions \subseteq Options /\ askedOptions \in [Options -> Values]
      /\ \A x \in DOMAIN userOptions : userOptions[x] \in Values
      /\ callsMade' \in 0..MaxLocalCalls
  BY <1>1, LocalConstants DEF StoreTypes
<1>3. /\ askedOptions' \in [Options -> Values] /\ askedOptions'[o] = v
      /\ \A x \in Options : x # o => askedOptions'[x] = askedOptions[x]
  BY <1>1, <1>2
<1>4. CASE is_option_can_save(o, v) /\ v # 0
  <2>1. userOptions' = [x \in DOMAIN userOptions \cup {o} |-> IF x = o THEN v ELSE userOptions[x]]
    BY <1>1, <1>4 DEF OptionSet, With
  <2>2. /\ DOMAIN userOptions' = DOMAIN userOptions \cup {o} /\ userOptions'[o] = v
        /\ \A x \in DOMAIN userOptions' : x # o => userOptions'[x] = userOptions[x]
    BY <2>1
  <2>3. userOptions' \in [DOMAIN userOptions' -> Values]
    BY <1>2, <2>1, <2>2
  <2>4. StoreTypes'
    BY <1>1, <1>2, <1>3, <2>2, <2>3 DEF StoreTypes
  <2>5. OptionsAnswer'
    BY <1>1, <1>2, <1>3, <2>2 DEF OptionsAnswer
  <2> QED
    BY <2>4, <2>5
<1>5. CASE ~(is_option_can_save(o, v) /\ v # 0)
  <2>1. userOptions' = [x \in DOMAIN userOptions \ {o} |-> userOptions[x]]
    BY <1>1, <1>5 DEF OptionSet
  <2>2. /\ DOMAIN userOptions' = DOMAIN userOptions \ {o}
        /\ \A x \in DOMAIN userOptions' : userOptions'[x] = userOptions[x]
    BY <2>1
  <2>3. userOptions' \in [DOMAIN userOptions' -> Values]
    BY <1>2, <2>1, <2>2
  <2>4. StoreTypes'
    BY <1>1, <1>2, <1>3, <2>2, <2>3 DEF StoreTypes
  <2>5. OptionsAnswer'
    BY <1>1, <1>2, <1>3, <1>5, <2>2 DEF OptionsAnswer, is_option_can_save
  <2> QED
    BY <2>4, <2>5
<1> QED
  BY <1>4, <1>5

LEMMA OptionMapKeeps ==
    ASSUME StoreTypes, OptionsAnswer, NEW S \in SUBSET Options, NEW m \in [S -> Values],
           SetOptions(m)
    PROVE  StoreTypes' /\ OptionsAnswer'
<1>1. /\ callsMade < MaxLocalCalls /\ callsMade' = callsMade + 1
      /\ userOptions' = [o \in {x \in DOMAIN m : is_option_can_save(x, m[x])} |-> m[o]]
      /\ askedOptions' = [o \in Options |-> IF o \in DOMAIN m THEN m[o] ELSE 0]
      /\ UNCHANGED <<realm, peer, call, wrote, forgot, overlap, layers, identity, boots>>
  BY DEF SetOptions, purify_options
<1>2. callsMade' \in 0..MaxLocalCalls
  BY <1>1, LocalConstants DEF StoreTypes
<1>3. /\ askedOptions' \in [Options -> Values]
      /\ \A x \in Options : askedOptions'[x] = IF x \in S THEN m[x] ELSE 0
  BY <1>1, LocalConstants
<1>4. /\ DOMAIN userOptions' = {x \in S : is_option_can_save(x, m[x])}
      /\ \A x \in DOMAIN userOptions' : userOptions'[x] = m[x]
  BY <1>1
<1>5. userOptions' \in [DOMAIN userOptions' -> Values]
  BY <1>1, <1>4
<1>6. StoreTypes'
  BY <1>1, <1>2, <1>3, <1>4, <1>5 DEF StoreTypes
<1>7. OptionsAnswer'
  <2> SUFFICES ASSUME NEW x \in Options \ DOMAIN layers.overwrite, askedOptions'[x] # 0
               PROVE  IF x \in DOMAIN userOptions' THEN userOptions'[x] = askedOptions'[x]
                      ELSE x \in DOMAIN layers.default /\ layers.default[x] = askedOptions'[x]
    BY <1>1 DEF OptionsAnswer
  <2>1. x \in S /\ askedOptions'[x] = m[x]
    BY <1>3
  <2>2. CASE is_option_can_save(x, m[x])
    BY <1>4, <2>1, <2>2
  <2>3. CASE ~is_option_can_save(x, m[x])
    BY <1>4, <2>1, <2>3 DEF is_option_can_save
  <2> QED
    BY <2>2, <2>3
<1> QED
  BY <1>6, <1>7

LEMMA IdentityStepKeeps ==
    ASSUME StoreTypes, IdentityKeeps, IdentityStep
    PROVE  StoreTypes' /\ IdentityKeeps'
<1>1. /\ identity \in [up : BOOLEAN, file : {"none", "cut", "whole"}, stored : Nat, key : Nat]
      /\ boots \in 0..MaxBoots /\ MaxBoots \in Nat
      /\ UNCHANGED <<realm, peer, call, callsMade, wrote, forgot, overlap, layers,
                     userOptions, askedOptions>>
  BY LocalConstants DEF IdentityStep, StoreTypes
<1>2. SUFFICES /\ identity' \in [up : BOOLEAN, file : {"none", "cut", "whole"}, stored : Nat, key : Nat]
               /\ boots' \in 0..MaxBoots /\ IdentityKeeps'
  BY <1>1 DEF StoreTypes
<1>3. CASE LoadIdentity
  <2>1. /\ identity' = [identity EXCEPT !.up = TRUE, !.key = identity.stored]
        /\ announcedKeys' = announcedKeys \cup {identity.stored} /\ boots' = boots + 1
        /\ identity.file = "whole" /\ boots < MaxBoots
    BY <1>3 DEF LoadIdentity
  <2>2. /\ identity' \in [up : BOOLEAN, file : {"none", "cut", "whole"}, stored : Nat, key : Nat]
        /\ identity'.file = "whole" /\ identity'.stored = identity.stored
    BY <1>1, <2>1
  <2> QED
    BY <1>1, <2>1, <2>2 DEF IdentityKeeps
<1>4. CASE CreateIdentity
  <2>1. /\ identity' = [identity EXCEPT !.up = TRUE, !.file = "cut", !.key = boots + 1]
        /\ announcedKeys' = announcedKeys /\ boots' = boots + 1
        /\ identity.file = "none" /\ boots < MaxBoots
    BY <1>4 DEF CreateIdentity
  <2>2. boots + 1 \in Nat /\ boots' \in 0..MaxBoots
    BY <1>1, <2>1
  <2>3. /\ identity' \in [up : BOOLEAN, file : {"none", "cut", "whole"}, stored : Nat, key : Nat]
        /\ identity'.file = "cut"
    BY <1>1, <2>1, <2>2
  <2> QED
    BY <2>1, <2>2, <2>3 DEF IdentityKeeps
<1>5. CASE WriteIdentity
  <2>1. /\ identity' = [identity EXCEPT !.file = "whole", !.stored = identity.key]
        /\ announcedKeys' = announcedKeys \cup {identity.key} /\ boots' = boots
        /\ identity.file = "cut"
    BY <1>5 DEF WriteIdentity
  <2>2. /\ identity' \in [up : BOOLEAN, file : {"none", "cut", "whole"}, stored : Nat, key : Nat]
        /\ identity'.file = "whole" /\ identity'.stored = identity.key
    BY <1>1, <2>1
  <2> QED
    BY <1>1, <2>1, <2>2 DEF IdentityKeeps
<1>6. CASE PowerFails
  <2>1. PICK left \in IF identity.file = "cut" THEN {"cut", "none"} ELSE {"whole"} :
           identity' = [identity EXCEPT !.up = FALSE, !.file = left, !.key = 0]
    BY <1>6 DEF PowerFails
  <2>2. UNCHANGED <<announcedKeys, boots>>
    BY <1>6 DEF PowerFails
  <2>3. /\ identity' \in [up : BOOLEAN, file : {"none", "cut", "whole"}, stored : Nat, key : Nat]
        /\ identity'.file = left /\ identity'.stored = identity.stored
    BY <1>1, <2>1
  <2> QED
    BY <1>1, <2>1, <2>2, <2>3 DEF IdentityKeeps
<1> QED
  BY <1>3, <1>4, <1>5, <1>6 DEF IdentityStep

LEMMA StoreStep ==
    ASSUME StoreInv, [LocalNext]_localVars
    PROVE  StoreInv'
<1>1. StoreTypes /\ OneCallKeeps /\ OptionsAnswer /\ IdentityKeeps
  BY DEF StoreInv
<1>2. UNCHANGED <<layers, userOptions, askedOptions>> => OptionsAnswer'
  BY <1>1 DEF OptionsAnswer
<1>3. UNCHANGED <<identity, announcedKeys>> => IdentityKeeps'
  BY <1>1 DEF IdentityKeeps
<1>4. UNCHANGED <<peer, call, wrote, forgot, overlap>> => OneCallKeeps'
  BY <1>1 DEF OneCallKeeps, PeerIsAsWritten, Active, Opened
<1>5. CASE PeerStep
  BY <1>1, <1>2, <1>3, <1>5, PeerKeeps DEF StoreInv, PeerStep
<1>6. ASSUME NEW o \in Options, NEW v \in Values, SetOption(o, v) PROVE StoreInv'
  BY <1>1, <1>3, <1>4, <1>6, OptionKeeps DEF StoreInv, SetOption
<1>7. ASSUME NEW S \in SUBSET Options, NEW m \in [S -> Values], SetOptions(m) PROVE StoreInv'
  BY <1>1, <1>3, <1>4, <1>7, OptionMapKeeps DEF StoreInv, SetOptions
<1>8. CASE IdentityStep
  BY <1>1, <1>2, <1>4, <1>8, IdentityStepKeeps DEF StoreInv, IdentityStep
<1>9. CASE UNCHANGED localVars
  <2>1. StoreTypes'
    BY <1>1, <1>9 DEF StoreTypes, localVars
  <2> QED
    BY <1>2, <1>3, <1>4, <1>9, <2>1 DEF StoreInv, localVars
<1> QED
  BY <1>5, <1>6, <1>7, <1>8, <1>9 DEF LocalNext

LEMMA StoreInitially == LocalInit => StoreInv
<1> SUFFICES ASSUME LocalInit PROVE StoreInv
  OBVIOUS
<1>1. PICK password \in {"none", "clear", "sealed"} :
         peer = [password |-> password, options |-> NoOptions]
  BY DEF LocalInit
<1>2. peer \in PeerFiles
  BY <1>1, NoCallIsCall DEF PeerFiles
<1>3. call \in [Calls -> BridgeCalls] /\ \A c \in Calls : call[c] = NoBridgeCall
  BY NoCallIsCall DEF LocalInit
<1>4. /\ DOMAIN userOptions = {} /\ userOptions \in [DOMAIN userOptions -> Values]
      /\ askedOptions = NoOptions /\ DOMAIN NoOptions = Options
      /\ \A o \in Options : NoOptions[o] = 0
  BY DEF LocalInit, NoOptions
<1>5. /\ identity \in [up : BOOLEAN, file : {"none", "cut", "whole"}, stored : Nat, key : Nat]
      /\ identity.file = "none" /\ announcedKeys = {}
      /\ wrote = NoOptions /\ ~forgot /\ ~overlap /\ forgot \in BOOLEAN /\ overlap \in BOOLEAN
      /\ realm \in {"peer", "options", "identity"}
  BY DEF LocalInit
<1>6. callsMade \in 0..MaxLocalCalls /\ boots \in 0..MaxBoots
  BY LocalConstants DEF LocalInit
<1>7. StoreTypes
  BY <1>2, <1>3, <1>4, <1>5, <1>6, NoCallIsCall DEF StoreTypes
<1>8. OneCallKeeps
  BY <1>1, <1>3, <1>5, NoCallIsCall DEF OneCallKeeps, PeerIsAsWritten, Active
<1>9. OptionsAnswer /\ IdentityKeeps
  BY <1>4, <1>5 DEF OptionsAnswer, IdentityKeeps
<1> QED
  BY <1>7, <1>8, <1>9 DEF StoreInv

LEMMA StoreIsEnough == StoreInv => LocalTypeOK /\ SettingsAreKept /\ OneIdentity
<1> SUFFICES ASSUME StoreInv PROVE LocalTypeOK /\ SettingsAreKept /\ OneIdentity
  OBVIOUS
<1>1. LocalTypeOK
  BY DEF StoreInv, StoreTypes, LocalTypeOK, PeerFiles
<1>2. SettingsAreKept
  BY DEF StoreInv, OneCallKeeps, OptionsAnswer, SettingsAreKept, get_or
<1>3. announcedKeys = {} \/ \E x \in announcedKeys : announcedKeys = {x}
  BY DEF StoreInv, IdentityKeeps
<1>4. OneIdentity
  BY <1>3, AtMostOne DEF OneIdentity
<1> QED
  BY <1>1, <1>2, <1>4

-----------------------------------------------------------------------------
DeviceVars ==
    <<part, winVars, rateVars, colorVars, inputVars, settingsVars, bridgeVars, localVars>>

(* A step of the device is a step of one part, and of no other.            *)
LEMMA DeviceStep ==
    [Next]_DeviceVars =>
      /\ [WinNext]_winVars /\ [RateNext]_rateVars /\ [SettingsNext]_settingsVars
      /\ [ColorNext]_colorVars /\ [InputNext]_inputVars /\ [LocalNext]_localVars
BY DEF Next, DeviceVars

SteadyInv == WinInv /\ DueIsKept /\ RateInv /\ SampleIsOfSession

LEMMA SteadyInitially == Init => SteadyInv
<1> SUFFICES ASSUME Init PROVE SteadyInv
  OBVIOUS
<1>1. WinInit /\ RateInit /\ SettingsInit
  BY DEF Init
<1>2. DueIsKept
  BY <1>1 DEF WinInit, DueIsKept
<1>3. SampleIsOfSession
  BY <1>1 DEF SettingsInit, SampleIsOfSession, Alive
<1> QED
  BY <1>1, <1>2, <1>3, WinInitially, RateInitially DEF SteadyInv

LEMMA SteadyKept ==
    ASSUME SteadyInv, [Next]_DeviceVars
    PROVE  /\ SteadyInv'
           /\ [KeyframeStep]_winVars /\ [PaceStep]_winVars
           /\ [PulseStep]_rateVars /\ [SampleStep]_settingsVars
<1>1. [WinNext]_winVars /\ [RateNext]_rateVars /\ [SettingsNext]_settingsVars
  BY DeviceStep
<1> QED
  BY <1>1, WinStep, SteadyStep, RateStep, TelemetryStep DEF SteadyInv

(* For every shape of the stream, every pace and every sequence of calls:  *)
(* the unit after a keyframe request is a key unit, thinned pictures keep  *)
(* the negotiated pace, a raised bitrate is not lowered within a long      *)
(* window, and readings of one revision show one rate                      *)
(* (windows_publisher.rs, windows_bitrate.rs, session_compat.rs).          *)
THEOREM SteadyTheorem == Spec => StreamIsSteady
<1>1. Init => SteadyInv
  BY SteadyInitially
<1>2. SteadyInv /\ [Next]_DeviceVars =>
        /\ SteadyInv'
        /\ [KeyframeStep]_winVars /\ [PaceStep]_winVars
        /\ [PulseStep]_rateVars /\ [SampleStep]_settingsVars
  BY SteadyKept
<1>3. Spec => /\ [][KeyframeStep]_winVars /\ [][PaceStep]_winVars
              /\ [][PulseStep]_rateVars /\ [][SampleStep]_settingsVars
  BY <1>1, <1>2, PTL DEF Spec, DeviceVars
<1> QED
  BY <1>3 DEF StreamIsSteady, KeyframeIsNext, PaceIsKept, NoPulse, SamplesAgree,
     KeyframeStep, PaceStep, PulseStep, SampleStep

(* For every set of desktops and every encoder: a unit says of its picture *)
(* what the desktop meant when it was taken, whatever the user changed     *)
(* since the stream was opened (media_color.rs, windows_publisher.rs).     *)
THEOREM ColourTheorem == Spec => []ColourIsTrue
<1>1. Init => ColourInv
  BY ColourInitially DEF Init
<1>2. ColourInv /\ [Next]_DeviceVars => ColourInv'
  BY DeviceStep, ColourStep
<1>3. ColourInv => ColourIsTrue
  BY ColourIsEnough DEF ColourIsTrue
<1> QED
  BY <1>1, <1>2, <1>3, PTL DEF Spec, DeviceVars

(* For every room of the channel, every rate and every sequence of calls: a *)
(* session that has logged in and whose channel is empty reports what its  *)
(* peer was told, and a view-only one has no clipboard text and no         *)
(* resolution in its channel (session_compat.rs, viewer.rs).               *)
THEOREM SettingsTheorem == Spec => []SettingsAreTold
<1>1. Init => SettingsInv
  BY SettingsInitially DEF Init
<1>2. SettingsInv /\ [Next]_DeviceVars => SettingsInv'
  BY DeviceStep, SettingsStep
<1>3. SettingsInv => SettingsAreTold
  BY SettingsAreEnough DEF SettingsAreTold
<1> QED
  BY <1>1, <1>2, <1>3, PTL DEF Spec, DeviceVars

(* For every capacity of the two queues and every sequence of calls: input *)
(* that was delivered leaves nothing held that the user let go of, and a   *)
(* click never overtakes the keys accepted before it (flutter_input.rs,    *)
(* session_backend.rs, viewer.rs, input.rs).                               *)
THEOREM InputTheorem == Spec => []InputIsFaithful
<1>1. Init => InputInv
  BY InputInitially DEF Init
<1>2. InputInv /\ [Next]_DeviceVars => InputInv'
  BY DeviceStep, InputStep
<1>3. InputInv => InputIsFaithful
  BY InputIsEnough DEF InputIsFaithful
<1> QED
  BY <1>1, <1>2, <1>3, PTL DEF Spec, DeviceVars

(* For every set of callers and of options, and every number of starts:    *)
(* what the user stored is what is read back as long as no two callers     *)
(* overlap, and the Windows host announces one identity (flutter_state.rs, *)
(* config.rs, rd-engine-windows-host.rs).                                  *)
THEOREM StoreTheorem == Spec => []StoreIsFaithful
<1>1. Init => StoreInv
  BY StoreInitially DEF Init
<1>2. StoreInv /\ [Next]_DeviceVars => StoreInv'
  BY DeviceStep, StoreStep
<1>3. StoreInv => StoreIsFaithful
  BY StoreIsEnough DEF StoreIsFaithful
<1> QED
  BY <1>1, <1>2, <1>3, PTL DEF Spec, DeviceVars
=============================================================================
