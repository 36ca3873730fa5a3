--------------------------- MODULE WindowsProducer ---------------------------
(***************************************************************************)
(* The Windows screen producer: the Publisher of                           *)
(* platform/windows_host_publisher.rs with its worker thread, the          *)
(* capture-and-encode pipeline of platform/windows_publisher.rs and the    *)
(* ownership of native resources in platform/windows_native.rs.            *)
(*                                                                         *)
(* Only the worker calls the native libraries while it runs; the owner's   *)
(* close() calls them after it has joined the worker.  The worker and the  *)
(* consumer share a bounded queue behind a mutex, with a condition variable*)
(* for space.                                                              *)
(*                                                                         *)
(* Desktop Duplication and NVENC are external: every call that can fail    *)
(* does so at will, MaxFaults times in all for the calls that give a       *)
(* resource back.  A capture with a lease out refuses to close.            *)
(***************************************************************************)
EXTENDS Naturals, Sequences, FiniteSetsExt

CONSTANTS MaxUnits,   \* max_queued_units
          MaxPts,     \* bound: capture times
          Interval,   \* 1 s * fps_denominator / fps_numerator
          MaxFaults,  \* bound: native releases that fail
          MaxKeys     \* bound: keyframe requests

ASSUME ProducerConstants == /\ MaxUnits \in Nat \ {0} /\ Interval \in Nat \ {0}
                            /\ MaxPts \in Nat /\ MaxFaults \in Nat /\ MaxKeys \in Nat

VARIABLES native,    \* what the native libraries believe to be alive, and who holds it
          pipeline,  \* WindowsPublisher: force_keyframe, next_encode_pts_us
          shared,    \* the State behind the mutex
          worker,    \* the worker thread
          owner,     \* the Publisher and the call that closes it
          units,     \* EncodedUnits in the consumer's hands
          clock,     \* the last capture time
          asked      \* keyframe requests made

winVars == <<native, pipeline, shared, worker, owner, units, clock, asked>>

NoPts == MaxPts + Interval + 1      \* next_encode_pts_us = None
NoUnit == [key |-> FALSE, pts |-> NoPts]
Units == [key : BOOLEAN, pts : 0..MaxPts]

(* The type of the producer.                                               *)
WinTypeOK ==
    /\ native.cap \in {"none", "open", "closed"} /\ native.enc \in {"none", "live", "gone"}
    /\ native.lease \in {"none", "encoder", "orphan"}
    /\ native.loan \in BOOLEAN /\ native.mapped \in BOOLEAN
    /\ native.faults \in 0..MaxFaults
    /\ shared.queue \in Seq(Units) /\ shared.charged \in 0..MaxUnits
    /\ shared.quarantine \in {"none", "capture", "encoder", "pipeline"}
    /\ worker.pc \in {"open", "loop", "next", "space", "waiting", "teardown", "done"}
    /\ owner \in {"opening", "using", "closing", "ok", "unconfirmed", "refused"}
    /\ units \in 0..MaxUnits

WinInit ==
    /\ native = [cap |-> "none", enc |-> "none", lease |-> "none", loan |-> FALSE,
                 mapped |-> FALSE, faults |-> 0]
    /\ pipeline = [opened |-> FALSE, force |-> TRUE, next |-> NoPts, due |-> FALSE]
    /\ shared = [queue |-> <<>>, charged |-> 0, closing |-> FALSE, closed |-> FALSE,
                 keyframe |-> FALSE, failure |-> "none", quarantine |-> "none"]
    /\ worker = [pc |-> "open", unit |-> NoUnit, woken |-> FALSE, failure |-> "none"]
    /\ owner = "opening" /\ units = 0 /\ clock = 0 /\ asked = 0

-----------------------------------------------------------------------------
(* Native calls, as the set of states they may leave behind.               *)

Fault(n) == [n EXCEPT !.faults = @ + 1]
MayFault(n) == n.faults < MaxFaults

(* rd_dd_release through CaptureOwner::release_lease: a failure moves the  *)
(* lease to the owner.                                                     *)
ReleaseLease(n) ==
    {[n EXCEPT !.lease = "none"]}
    \cup (IF MayFault(n) THEN {[Fault(n) EXCEPT !.lease = "orphan"]} ELSE {})

(* NativeFrame::release: either way the frame no longer has its lease, so  *)
(* release_frame_or_restore never puts it back.                            *)
ReleaseFrame(n) == ReleaseLease(n)

(* Drop for NativeFrame.                                                   *)
DropFrame(n) == ReleaseLease(n)

(* retain_failed_frame: a frame from_raw refused.                          *)
RetainFailed(n) == ReleaseLease(n)

(* retry_orphaned_locked, before an acquire and before a close.            *)
RetryOrphan(n) == IF n.lease = "orphan" THEN ReleaseLease(n) ELSE {n}

(* rd_dd_close: refuses while a lease is out.                              *)
CloseCapture(n) ==
    {m \in {[n EXCEPT !.cap = "closed"]} : n.lease = "none"}
    \cup (IF MayFault(n) THEN {Fault(n)} ELSE {})
    \cup {m \in {n} : n.lease # "none"}

(* CaptureOwner::close.                                                    *)
CaptureOwnerClose(n) ==
    UNION {IF m.lease = "orphan" THEN {m} ELSE CloseCapture(m) : m \in RetryOrphan(n)}

(* rd_nvenc_release_output.                                                *)
ReleaseOutput(n) ==
    {[n EXCEPT !.loan = FALSE]} \cup (IF MayFault(n) THEN {Fault(n)} ELSE {})

(* rd_nvenc_shutdown also unmaps what a failed encode left mapped.         *)
ShutdownEncoder(n) ==
    {[n EXCEPT !.enc = "gone", !.mapped = FALSE]}
    \cup (IF MayFault(n) THEN {Fault(n)} ELSE {})

(* NativeNvenc::close: the loan, then the encoder, then the frame.         *)
\* mutant
EncoderCloseFrameFirst(n) ==
    LET freed == IF n.lease = "encoder" THEN ReleaseLease(n) ELSE {n}
        loaned == UNION {IF m.loan THEN ReleaseOutput(m) ELSE {m} : m \in freed} IN
    UNION {IF m.loan THEN {m} ELSE ShutdownEncoder(m) : m \in loaned}

EncoderClose(n) ==
    LET loaned == IF n.loan THEN ReleaseOutput(n) ELSE {n}
        shut == UNION {IF m.loan \/ m.enc # "live" THEN {m} ELSE ShutdownEncoder(m)
                          : m \in loaned} IN
    UNION {IF m.enc = "live" \/ m.lease # "encoder" THEN {m} ELSE ReleaseFrame(m)
              : m \in shut}
EncoderClosed(n) == n.enc = "gone" /\ ~n.loan /\ n.lease # "encoder"

(* CloseQuarantine::retry: the encoder before the capture, each stage at   *)
(* most once.                                                              *)
\* mutant
PipelineCloseCaptureFirst(n) ==
    UNION {IF m.cap = "closed" THEN EncoderClose(m) ELSE {m}
              : m \in IF n.cap = "closed" THEN {n} ELSE CaptureOwnerClose(n)}

PipelineClose(n) ==
    UNION {IF EncoderClosed(m) /\ m.cap = "open" THEN CaptureOwnerClose(m) ELSE {m}
              : m \in IF EncoderClosed(n) THEN {n} ELSE EncoderClose(n)}
PipelineClosed(n) == EncoderClosed(n) /\ n.cap = "closed"

-----------------------------------------------------------------------------
(* worker_main: open_native                                                *)

Fail(failure, quarantine) ==
    /\ shared' = [shared EXCEPT !.failure = failure, !.quarantine = quarantine,
                                !.closed = TRUE]
    /\ worker' = [worker EXCEPT !.pc = "done"]
    /\ owner' = IF quarantine = "none" THEN "refused" ELSE "using"
    /\ UNCHANGED <<pipeline, units, clock, asked>>

(* The output or its duplication cannot be opened.                         *)
OpenFails == worker.pc = "open" /\ Fail("failed", "none") /\ UNCHANGED native

(* The capture opens and does not pass validation: it is closed, or kept   *)
(* in quarantine.                                                          *)
CaptureRejected ==
    /\ worker.pc = "open"
    /\ native' \in CloseCapture([native EXCEPT !.cap = "open"])
    /\ IF native'.cap = "closed" THEN Fail("failed", "none") ELSE Fail("reclaim", "capture")

(* The configuration or the encoder fails after the capture is open: the   *)
(* capture is dropped, and a drop that fails is silent.                    *)
EncoderFails ==
    /\ worker.pc = "open"
    /\ native' \in CaptureOwnerClose([native EXCEPT !.cap = "open"])
    /\ Fail("failed", "none")

(* rd_nvenc_create reports a failed cleanup: the encoder is quarantined,   *)
(* the capture dropped.                                                    *)
EncoderQuarantined ==
    /\ worker.pc = "open"
    /\ native' \in CaptureOwnerClose([native EXCEPT !.cap = "open", !.enc = "live"])
    /\ Fail("reclaim", "encoder")

(* WindowsPublisher::open: the first unit must be a key unit.              *)
Opens ==
    /\ worker.pc = "open"
    /\ native' = [native EXCEPT !.cap = "open", !.enc = "live"]
    /\ pipeline' = [pipeline EXCEPT !.opened = TRUE]
    /\ worker' = [worker EXCEPT !.pc = "loop"] /\ owner' = "using"
    /\ UNCHANGED <<shared, units, clock, asked>>

-----------------------------------------------------------------------------
(* worker_main: the loop                                                   *)

(* Under the lock: stop, or take the keyframe request along.               *)
\* mutant
ForceAfterRequest == shared.keyframe

Forces == pipeline.force \/ shared.keyframe
LoopHead ==
    /\ worker.pc = "loop"
    /\ IF shared.closing
       THEN worker' = [worker EXCEPT !.pc = "teardown"] /\ UNCHANGED <<pipeline, shared>>
       ELSE /\ worker' = [worker EXCEPT !.pc = "next"]
            /\ pipeline' = [pipeline EXCEPT !.force = Forces,
                              !.due = @ \/ shared.keyframe]
            /\ shared' = [shared EXCEPT !.keyframe = FALSE]
    /\ UNCHANGED <<native, owner, units, clock, asked>>

Back(pc, failure) == worker' = [worker EXCEPT !.pc = pc, !.failure = failure]

(* acquire: nothing new within the timeout, an error, or an orphaned lease *)
(* that still cannot be given back.                                        *)
NoTexture ==
    /\ worker.pc = "next"
    /\ native' \in RetryOrphan(native)
    /\ \/ native'.lease = "none" /\ Back("loop", "none")
       \/ Back("teardown", "failed")
    /\ UNCHANGED <<pipeline, shared, owner, units, clock, asked>>

(* A frame that does not match what the capture was opened with, or that   *)
(* validate_texture refuses: the lease is given back, the producer stops.  *)
FrameRejected ==
    /\ worker.pc = "next" /\ native.lease = "none"
    /\ native' \in RetainFailed(native)
    /\ Back("teardown", "failed")
    /\ UNCHANGED <<pipeline, shared, owner, units, clock, asked>>

(* A frame that comes before its turn is dropped before encode, unless a   *)
(* key unit is due.                                                        *)
Early(pts) == ~pipeline.force /\ pipeline.next # NoPts /\ pts < pipeline.next
FrameThinned ==
    /\ worker.pc = "next" /\ native.lease = "none"
    /\ \E pts \in clock..MaxPts :
          /\ Early(pts) /\ clock' = pts
          /\ native' \in DropFrame(native)
    /\ Back("loop", "none")
    /\ UNCHANGED <<pipeline, shared, owner, units, asked>>

(* next_unit: the next time a unit is due, on the grid of intervals.       *)
\* mutant
NextDueSameSlot(pts) ==
    IF ~pipeline.force /\ pipeline.next # NoPts
    THEN pipeline.next + ((pts - pipeline.next) \div Interval) * Interval
    ELSE pts + Interval

NextDue(pts) ==
    IF ~pipeline.force /\ pipeline.next # NoPts
    THEN pipeline.next + ((pts - pipeline.next) \div Interval + 1) * Interval
    ELSE pts + Interval

(* encode_texture succeeds: the output is copied and returned, then the    *)
(* frame; one that cannot be returned stays with the encoder, or its lease *)
(* with the capture owner, and the producer stops.                         *)
Returned(n) ==
    UNION {IF m.loan THEN {[m EXCEPT !.lease = "encoder"]} ELSE ReleaseFrame(m)
              : m \in ReleaseOutput([n EXCEPT !.loan = TRUE])}
FrameEncoded ==
    /\ worker.pc = "next" /\ native.lease = "none"
    /\ \E pts \in clock..MaxPts, key \in BOOLEAN :
          /\ ~Early(pts) /\ clock' = pts
          /\ native' \in Returned(native)
          /\ IF native'.loan \/ native'.lease # "none" \/ (pipeline.force /\ ~key)
             THEN Back("teardown", "failed") /\ UNCHANGED pipeline
             ELSE /\ worker' = [worker EXCEPT !.pc = "space", !.unit = [key |-> key, pts |-> pts]]
                  /\ pipeline' = [pipeline EXCEPT !.force = FALSE, !.next = NextDue(pts)]
    /\ UNCHANGED <<shared, owner, units, asked>>

(* encode_texture fails: with a failed cleanup the frame stays with the    *)
(* encoder until it is shut down, otherwise it is released.                *)
EncodeFails ==
    /\ worker.pc = "next" /\ native.lease = "none"
    /\ \E pts \in clock..MaxPts : ~Early(pts) /\ clock' = pts
    /\ \/ MayFault(native)
            /\ native' = [Fault(native) EXCEPT !.lease = "encoder", !.mapped = TRUE]
       \/ native' \in ReleaseFrame(native)
    /\ Back("teardown", "failed")
    /\ UNCHANGED <<pipeline, shared, owner, units, asked>>

(* The unit goes into the queue, or the worker waits for space.            *)
PushOrWait ==
    /\ worker.pc = "space" \/ (worker.pc = "waiting" /\ worker.woken)
    /\ IF shared.closing
       THEN /\ worker' = [worker EXCEPT !.pc = "teardown", !.unit = NoUnit, !.woken = FALSE]
            /\ UNCHANGED <<shared, pipeline>>
       ELSE IF shared.charged >= MaxUnits
       THEN /\ worker' = [worker EXCEPT !.pc = "waiting", !.woken = FALSE]
            /\ UNCHANGED <<shared, pipeline>>
       ELSE /\ worker' = [worker EXCEPT !.pc = "loop", !.unit = NoUnit, !.woken = FALSE]
            /\ shared' = [shared EXCEPT !.queue = Append(@, worker.unit), !.charged = @ + 1]
            /\ pipeline' = [pipeline EXCEPT !.due = @ /\ ~worker.unit.key]
    /\ UNCHANGED <<native, owner, units, clock, asked>>

(* The end of the worker: close the pipeline, keep what could not be.      *)
Teardown ==
    /\ worker.pc = "teardown"
    /\ native' \in PipelineClose(native)
    /\ shared' = [shared EXCEPT !.closed = TRUE,
                    !.failure = IF PipelineClosed(native') THEN worker.failure ELSE "reclaim",
                    !.quarantine = IF PipelineClosed(native') THEN "none" ELSE "pipeline"]
    /\ worker' = [worker EXCEPT !.pc = "done"]
    /\ UNCHANGED <<pipeline, owner, units, clock, asked>>

-----------------------------------------------------------------------------
(* The Publisher                                                           *)

(* recv: a failure first, then the queue, then the end.                    *)
Recv ==
    /\ owner = "using" /\ shared.failure = "none" /\ shared.queue # <<>>
    /\ shared' = [shared EXCEPT !.queue = Tail(@)]
    /\ units' = units + 1
    /\ UNCHANGED <<native, pipeline, worker, owner, clock, asked>>

(* The consumer drops a unit: its charge is returned and the worker woken. *)
\* mutant
NotifySpaceNot == UNCHANGED worker

NotifySpace == worker' = [worker EXCEPT !.woken = (worker.pc = "waiting")]

DropUnit ==
    /\ units > 0 /\ units' = units - 1
    /\ shared' = [shared EXCEPT !.charged = @ - 1]
    /\ NotifySpace
    /\ UNCHANGED <<native, pipeline, owner, clock, asked>>

RequestKeyframe ==
    /\ owner = "using" /\ asked < MaxKeys
    /\ ~shared.closing /\ ~shared.closed /\ shared.failure = "none"
    /\ shared' = [shared EXCEPT !.keyframe = TRUE] /\ asked' = asked + 1
    /\ UNCHANGED <<native, pipeline, worker, owner, units, clock>>

(* close (or drop, after which nobody looks): the flag, and a wake-up.     *)
RequestClose ==
    /\ owner = "using" /\ owner' = "closing"
    /\ shared' = [shared EXCEPT !.closing = TRUE]
    /\ NotifySpace
    /\ UNCHANGED <<native, pipeline, units, clock, asked>>

(* close, after the join: what is in quarantine is retried once.           *)
Retried(n) ==
    CASE shared.quarantine = "capture" -> CloseCapture(n)
      [] shared.quarantine = "encoder" -> ShutdownEncoder(n)
      [] shared.quarantine = "pipeline" -> PipelineClose(n)
      [] OTHER -> {n}
Reclaimed(n) ==
    CASE shared.quarantine = "capture" -> n.cap = "closed"
      [] shared.quarantine = "encoder" -> n.enc = "gone"
      [] shared.quarantine = "pipeline" -> PipelineClosed(n)
      [] OTHER -> TRUE

\* mutant
AnswersOkAlways(n) == TRUE

AnswersOk(n) == Reclaimed(n)

JoinAndRetry ==
    /\ owner = "closing" /\ worker.pc = "done"
    /\ native' \in Retried(native)
    /\ owner' = IF AnswersOk(native') THEN "ok" ELSE "unconfirmed"
    /\ shared' = [shared EXCEPT !.quarantine = IF Reclaimed(native') THEN "none" ELSE @]
    /\ UNCHANGED <<pipeline, worker, units, clock, asked>>

-----------------------------------------------------------------------------
WorkerNext ==
    \/ OpenFails \/ CaptureRejected \/ EncoderFails \/ EncoderQuarantined \/ Opens
    \/ LoopHead \/ NoTexture \/ FrameRejected \/ FrameThinned \/ FrameEncoded
    \/ EncodeFails \/ PushOrWait \/ Teardown

WinNext == WorkerNext \/ Recv \/ DropUnit \/ RequestKeyframe \/ RequestClose \/ JoinAndRetry

(* The worker thread runs, an acquire returns within its timeout, and the  *)
(* join returns.  Nothing is assumed of the consumer.                      *)
WinFairness == WF_winVars(WorkerNext) /\ WF_winVars(JoinAndRetry)

WinSpec == WinInit /\ [][WinNext]_winVars /\ WinFairness

-----------------------------------------------------------------------------
(* A texture the encoder may still read is never given back to the capture *)
(* and the capture of an open pipeline outlives its encoder, through every *)
(* failed release and every retry of close.                                *)
TextureOutlivesUse ==
    /\ native.loan \/ native.mapped => native.lease = "encoder"
    /\ pipeline.opened /\ native.enc = "live" => native.cap = "open"

(* close() of a producer that opened answers Ok only when the encoder, the *)
(* frame in flight and the capture have all been reclaimed.                *)
CloseOkMeansReclaimed ==
    owner = "ok" /\ pipeline.opened => PipelineClosed(native) /\ native.lease = "none"

(* The worker sleeps only while the queue is full and nobody has asked it  *)
(* to close: no wake-up is lost.                                           *)
SleepMeansFull ==
    worker.pc = "waiting" /\ ~worker.woken => shared.charged = MaxUnits /\ ~shared.closing

(* Once the worker has taken a keyframe request, the next unit the viewer  *)
(* gets is a key unit, even when captures time out or fail in between.     *)
KeyframeIsNext ==
    [][Len(shared'.queue) > Len(shared.queue) /\ pipeline.due
         => shared'.queue[Len(shared'.queue)].key]_winVars

(* Units that nobody asked to be key keep the negotiated rate: each falls  *)
(* into a later interval than the one before it.                           *)
PaceIsKept ==
    [][pipeline'.next # pipeline.next /\ ~pipeline.force /\ pipeline.next # NoPts
         => pipeline'.next > clock']_winVars

(* A close request ends the worker, whatever the consumer does.            *)
WinCloseEnds == (owner = "closing") ~> (owner \in {"ok", "unconfirmed"})

(* The native objects of a producer are let go in an order in which none   *)
(* is used after it, and close() answers Ok only for what was reclaimed,   *)
(* through every failing release; the worker sleeps only when the queue is *)
(* full (platform/windows_host_publisher.rs, windows_native.rs).           *)
NativeIsReclaimed ==
    WinTypeOK /\ TextureOutlivesUse /\ CloseOkMeansReclaimed /\ SleepMeansFull
=============================================================================
