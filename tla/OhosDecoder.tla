----------------------------- MODULE OhosDecoder -----------------------------
(***************************************************************************)
(* The hardware surface decoder of                                         *)
(* crates/rd-engine/src/platform/ohos_decoder.rs: the shared state machine *)
(* `engine::Shared', the persistent worker thread (setup, run, push,       *)
(* render, shutdown), the callbacks of the native codec, and one feeder    *)
(* that submits access units under backpressure (submit_cancellable).      *)
(*                                                                         *)
(* Four threads interleave.  Every critical section of Shared is one step; *)
(* a native call that may run callbacks while it is under way lies between *)
(* two steps of the worker.  The codec is external: it owns every buffer   *)
(* it has not announced, announces a buffer it owns at any time while it   *)
(* is started, takes a buffer back inside Push, Render or Free (so it may  *)
(* announce it again before that call returns), fails any call, and starts *)
(* no callback after a successful Destroy.                                 *)
(***************************************************************************)
EXTENDS Naturals, Sequences, FiniteSets

CONSTANTS
    Inputs, Outputs,    \* native buffer indices
    MaxQueuedUnits, MaxQueuedBytes,     \* DecoderConfig
    MaxCallbacks,       \* MAX_CALLBACKS
    MaxUnits,           \* bound: units the feeder accepts to submit
    MaxChanges          \* bound: stream-changed callbacks

ASSUME DecoderAssumption ==
    /\ MaxQueuedUnits \in Nat \ {0} /\ MaxQueuedBytes \in Nat \ {0}
    /\ MaxCallbacks \in Nat \ {0} /\ MaxUnits \in Nat /\ MaxChanges \in Nat

VARIABLES
    (* engine::State *)
    packets,            \* queued units, each by its size; 0 is EndOfStream
    events,             \* posted callbacks
    inputs,             \* announced input buffers not yet filled
    input_indices, output_indices,
    reserved_units, reserved_bytes,
    eos_accepted, closing,
    stats,              \* accepted, pushed, cancelled, eos, quarantined, closed
    failure,            \* stats.failure
    (* the worker *)
    pc, hand, asleep,
    (* the native object and what its callbacks point to *)
    native, context,
    (* the codec *)
    codecOwns,          \* buffers it has not announced, or got back
    calls,              \* callbacks under way
    changes,
    (* the feeder *)
    feeder, unit, woken, feederCancel

queueVars == <<packets, inputs, input_indices, output_indices, reserved_units,
               reserved_bytes, eos_accepted>>
workerVars == <<pc, hand>>
nativeVars == <<native, context>>
codecVars == <<codecOwns, calls, changes>>
feederVars == <<feeder, unit, feederCancel>>
decoderVars ==
    <<packets, events, inputs, input_indices, output_indices, reserved_units,
      reserved_bytes, eos_accepted, closing, stats, failure, pc, hand, asleep,
      native, context, codecOwns, calls, changes, feeder, unit, woken, feederCancel>>

Buffers == [kind : {"Input"}, index : Inputs] \cup [kind : {"Output"}, index : Outputs]
Changed == [kind |-> "StreamChanged", index |-> "none"]
ErrorEvent == [kind |-> "Error", index |-> "none"]
Events == Buffers \cup {Changed, ErrorEvent}

EndOfStream == 0
Units == 0..(MaxQueuedBytes + 1)

Idle == [buffer |-> Changed, unit |-> 0]

DecoderTypeOK ==
    /\ packets \in Seq(Units) /\ Len(packets) <= MaxQueuedUnits
    /\ events \in Seq(Events) /\ Len(events) <= MaxCallbacks
    /\ inputs \in Seq(Inputs)
    /\ input_indices \subseteq Inputs /\ output_indices \subseteq Outputs
    /\ reserved_units \in 0..MaxQueuedUnits
    /\ reserved_bytes \in 0..MaxQueuedBytes
    /\ eos_accepted \in BOOLEAN /\ closing \in BOOLEAN /\ asleep \in BOOLEAN
    /\ stats \in [accepted : Nat, pushed : Nat, cancelled : Nat, eos : BOOLEAN,
                  quarantined : BOOLEAN, closed : BOOLEAN]
    /\ failure \in {"none", "CallbackOverflow", "DuplicateBufferIndex", "Native"}
    /\ pc \in {"setup", "next", "available", "push", "pushing", "render",
               "rendering", "changed", "failing", "shutdown", "destroy",
               "wait_idle", "report", "closed", "ended"}
    /\ hand \in [buffer : Events, unit : Units]
    /\ native \in {"none", "started", "destroyed", "quarantined"}
    /\ context \in {"live", "freed"}
    /\ codecOwns \subseteq Buffers
    /\ calls \subseteq [event : Events, posted : BOOLEAN]
    /\ changes \in 0..MaxChanges
    /\ feeder \in {"idle", "registered", "full", "waiting"}
    /\ unit \in Units
    /\ woken \in BOOLEAN /\ feederCancel \in BOOLEAN

----------------------------------------------------------------------------
(* Notifications: `wake' is the worker's condition variable, `capacity' a  *)
(* Notify whose notify_waiters reaches only registered waiters.            *)

WakeWorker == asleep' = FALSE
NotifyCapacity == woken' = (feeder # "idle")

(* fail(): the first failure is kept. *)
Fail(error) ==
    /\ failure' = IF failure = "none" THEN error ELSE failure
    /\ WakeWorker
    /\ NotifyCapacity

Stopped == closing \/ failure # "none"

----------------------------------------------------------------------------
(* The feeder *)

Rejected == closing \/ stats.closed \/ failure # "none" \/ eos_accepted

HasRoom(size) ==
    /\ reserved_units < MaxQueuedUnits
    /\ size <= MaxQueuedBytes - reserved_bytes

(* A new unit, or the retry of the one that was rejected: the notification *)
(* is registered before the admission is tried.                            *)
FeederRegisters ==
    /\ \/ feeder = "idle" /\ stats.accepted < MaxUnits /\ unit' \in Units
       \/ feeder = "waiting" /\ woken /\ UNCHANGED unit
    /\ feeder' = "registered"
    /\ woken' = FALSE
    /\ UNCHANGED <<queueVars, events, closing, stats, failure, workerVars, asleep,
                   nativeVars, codecVars, feederCancel>>

(* submit() *)
FeederSubmits ==
    /\ feeder = "registered" /\ ~feederCancel
    /\ ~Rejected /\ unit <= MaxQueuedBytes /\ HasRoom(unit)
    /\ feeder' = "idle"
    /\ eos_accepted' = (unit = EndOfStream)
    /\ reserved_units' = reserved_units + 1
    /\ reserved_bytes' = reserved_bytes + unit
    /\ stats' = [stats EXCEPT !.accepted = @ + 1]
    /\ packets' = Append(packets, unit)
    /\ unit' = 0 /\ woken' = FALSE
    /\ WakeWorker
    /\ UNCHANGED <<events, inputs, input_indices, output_indices, closing, failure,
                   workerVars, nativeVars, codecVars, feederCancel>>

(* Backpressure, then the wait for the notification that was registered. *)
FeederWaits ==
    /\ \/ /\ feeder = "registered" /\ ~feederCancel
          /\ ~Rejected /\ unit <= MaxQueuedBytes /\ ~HasRoom(unit)
          /\ feeder' = "full"
       \/ feeder = "full" /\ feeder' = "waiting"
    /\ UNCHANGED <<queueVars, events, closing, stats, failure, workerVars, asleep,
                   nativeVars, codecVars, unit, woken, feederCancel>>

(* The unit is handed back: cancelled, too large, or the decoder refuses. *)
FeederReturns ==
    /\ \/ feeder = "registered" /\ (feederCancel \/ Rejected \/ unit > MaxQueuedBytes)
       \/ feeder = "waiting" /\ feederCancel
    /\ feeder' = "idle"
    /\ unit' = 0 /\ woken' = FALSE
    /\ UNCHANGED <<queueVars, events, closing, stats, failure, workerVars, asleep,
                   nativeVars, codecVars, feederCancel>>

FeederCancels ==
    /\ ~feederCancel
    /\ feederCancel' = TRUE
    /\ UNCHANGED <<queueVars, events, closing, stats, failure, workerVars, asleep,
                   nativeVars, codecVars, feeder, unit, woken>>

RequestCloseSilently ==     \* mutant
    /\ ~closing
    /\ closing' = TRUE
    /\ NotifyCapacity
    /\ UNCHANGED <<queueVars, events, stats, failure, workerVars, asleep, nativeVars,
                   codecVars, feederVars>>

(* request_close(), by any holder of the decoder or of an observer. *)
RequestClose ==
    /\ ~closing
    /\ closing' = TRUE
    /\ WakeWorker /\ NotifyCapacity
    /\ UNCHANGED <<queueVars, events, stats, failure, workerVars, nativeVars,
                   codecVars, feederVars>>

----------------------------------------------------------------------------
(* The codec and its callbacks *)

CallbackEnters ==
    /\ native = "started"
    /\ \/ \E b \in codecOwns :
            /\ codecOwns' = codecOwns \ {b}
            /\ calls' = calls \cup {[event |-> b, posted |-> FALSE]}
            /\ UNCHANGED changes
       \/ /\ changes < MaxChanges
          /\ changes' = changes + 1
          /\ \E e \in {Changed, ErrorEvent} :
               calls' = calls \cup {[event |-> e, posted |-> FALSE]}
          /\ UNCHANGED codecOwns
    /\ UNCHANGED <<queueVars, events, closing, stats, failure, workerVars, asleep,
                   nativeVars, feederVars, woken>>

(* post() *)
PostFails(e) ==
    \/ Len(events) >= MaxCallbacks
    \/ Cardinality(input_indices) + Cardinality(output_indices) >= MaxCallbacks
    \/ e.kind = "Input" /\ e.index \in input_indices
    \/ e.kind = "Output" /\ e.index \in output_indices

Posted(e) ==
    /\ events' = Append(events, e)
    /\ input_indices' = IF e.kind = "Input" THEN input_indices \cup {e.index}
                        ELSE input_indices
    /\ output_indices' = IF e.kind = "Output" THEN output_indices \cup {e.index}
                         ELSE output_indices
    /\ WakeWorker
    /\ UNCHANGED <<failure, woken>>

(* The failure post() records: an overflow is looked for first. *)
PostFailure(e) ==
    IF \/ Len(events) >= MaxCallbacks
       \/ Cardinality(input_indices) + Cardinality(output_indices) >= MaxCallbacks
    THEN "CallbackOverflow" ELSE "DuplicateBufferIndex"

CallbackPosts ==
    \E c \in calls :
      /\ ~c.posted
      /\ calls' = (calls \ {c}) \cup {[c EXCEPT !.posted = TRUE]}
      /\ \/ /\ c.event = ErrorEvent
            /\ Fail("Native")
            /\ UNCHANGED <<events, input_indices, output_indices>>
         \/ /\ c.event # ErrorEvent
            /\ Stopped \/ stats.closed
            /\ UNCHANGED <<events, input_indices, output_indices, failure, woken, asleep>>
         \/ /\ c.event # ErrorEvent
            /\ ~(Stopped \/ stats.closed)
            /\ IF PostFails(c.event)
               THEN /\ Fail(PostFailure(c.event))
                    /\ UNCHANGED <<events, input_indices, output_indices>>
               ELSE Posted(c.event)
      /\ UNCHANGED <<packets, inputs, reserved_units, reserved_bytes, eos_accepted,
                     closing, stats, workerVars, nativeVars, codecOwns, changes,
                     feederVars>>

(* The callback has left the context: active.fetch_sub under idle_lock. *)
CallbackExits ==
    /\ \E c \in calls : c.posted /\ calls' = calls \ {c}
    /\ UNCHANGED <<queueVars, events, closing, stats, failure, workerVars, asleep,
                   nativeVars, codecOwns, changes, feederVars, woken>>

----------------------------------------------------------------------------
(* The worker *)

GoesTo(label) == pc' = label /\ UNCHANGED hand

(* setup(), reported to open(): a failure on the way leads to shutdown. *)
WorkerSetup ==
    /\ pc = "setup"
    /\ \/ /\ native' = "started"
          /\ IF failure = "none" THEN GoesTo("next") ELSE GoesTo("shutdown")
          /\ UNCHANGED <<failure, woken, asleep>>
       \/ /\ native' \in {"none", "started"}
          /\ Fail("Native")
          /\ GoesTo("shutdown")
    /\ UNCHANGED <<queueVars, events, closing, stats, context, codecVars, feederVars>>

(* next(): stop, else a callback, else an input with a unit, else sleep. *)
WorkerNext ==
    /\ pc = "next" /\ ~asleep
    /\ \/ /\ Stopped
          /\ GoesTo("shutdown")
          /\ UNCHANGED <<events, inputs, packets, asleep>>
       \/ /\ ~Stopped /\ events # <<>>
          /\ events' = Tail(events)
          /\ hand' = [Idle EXCEPT !.buffer = Head(events)]
          /\ pc' = CASE Head(events).kind = "Input" -> "available"
                     [] Head(events).kind = "Output" -> "render"
                     [] OTHER -> "changed"
          /\ UNCHANGED <<inputs, packets, asleep>>
       \/ /\ ~Stopped /\ events = <<>> /\ inputs # <<>> /\ packets # <<>>
          /\ inputs' = Tail(inputs) /\ packets' = Tail(packets)
          /\ hand' = [buffer |-> [kind |-> "Input", index |-> Head(inputs)],
                      unit |-> Head(packets)]
          /\ pc' = "push"
          /\ UNCHANGED <<events, asleep>>
       \/ /\ ~Stopped /\ events = <<>> /\ (inputs = <<>> \/ packets = <<>>)
          /\ asleep' = TRUE
          /\ UNCHANGED <<events, inputs, packets, workerVars>>
    /\ UNCHANGED <<input_indices, output_indices, reserved_units, reserved_bytes,
                   eos_accepted, closing, stats, failure, nativeVars, codecVars,
                   feederVars, woken>>

(* input_available() *)
WorkerInputAvailable ==
    /\ pc = "available"
    /\ inputs' = Append(inputs, hand.buffer.index)
    /\ pc' = "next" /\ hand' = Idle
    /\ UNCHANGED <<packets, input_indices, output_indices, reserved_units,
                   reserved_bytes, eos_accepted, events, closing, stats, failure,
                   asleep, nativeVars, codecVars, feederVars, woken>>

(* stream_changed() *)
WorkerStreamChanged ==
    /\ pc = "changed"
    /\ pc' = "next" /\ hand' = Idle
    /\ UNCHANGED <<queueVars, events, closing, stats, failure, asleep, nativeVars,
                   codecVars, feederVars, woken>>

WorkerPushKeepingIndex ==     \* mutant
    /\ pc = "push"
    /\ pc' = "pushing"
    /\ codecOwns' = codecOwns \cup {hand.buffer}
    /\ UNCHANGED <<packets, inputs, input_indices, output_indices, reserved_units,
                   reserved_bytes, eos_accepted, hand, stats, woken, events, closing,
                   failure, asleep, nativeVars, calls, changes, feederVars>>

(* push(): the checks and the copy, then returning_input, then the native  *)
(* call, which takes the buffer.  A unit that does not fit is cancelled.   *)
WorkerPush ==
    /\ pc = "push"
    /\ \/ /\ input_indices' = input_indices \ {hand.buffer.index}
          /\ codecOwns' = codecOwns \cup {hand.buffer}
          /\ pc' = "pushing"
          /\ UNCHANGED <<reserved_units, reserved_bytes, stats, woken, hand>>
       \/ /\ reserved_units' = reserved_units - 1
          /\ reserved_bytes' = reserved_bytes - hand.unit
          /\ stats' = [stats EXCEPT !.cancelled = @ + 1]
          /\ NotifyCapacity
          /\ pc' = "failing" /\ hand' = Idle
          /\ UNCHANGED <<input_indices, codecOwns>>
    /\ UNCHANGED <<packets, inputs, output_indices, eos_accepted, events, closing,
                   failure, asleep, nativeVars, calls, changes, feederVars>>

SubmittedKeepingCredit(pushed) ==       \* mutant
    /\ reserved_units' = IF pushed THEN reserved_units - 1 ELSE reserved_units
    /\ reserved_bytes' = IF pushed THEN reserved_bytes - hand.unit ELSE reserved_bytes
    /\ stats' = IF pushed THEN [stats EXCEPT !.pushed = @ + 1]
                ELSE [stats EXCEPT !.cancelled = @ + 1]
    /\ NotifyCapacity

SubmittedSilently(pushed) ==        \* mutant
    /\ reserved_units' = reserved_units - 1
    /\ reserved_bytes' = reserved_bytes - hand.unit
    /\ stats' = IF pushed THEN [stats EXCEPT !.pushed = @ + 1]
                ELSE [stats EXCEPT !.cancelled = @ + 1]
    /\ UNCHANGED woken

(* submitted(): the credit comes back when Push has returned. *)
Submitted(pushed) ==
    /\ reserved_units' = reserved_units - 1
    /\ reserved_bytes' = reserved_bytes - hand.unit
    /\ stats' = IF pushed THEN [stats EXCEPT !.pushed = @ + 1]
                ELSE [stats EXCEPT !.cancelled = @ + 1]
    /\ NotifyCapacity

WorkerPushReturns ==
    /\ pc = "pushing"
    /\ \/ Submitted(TRUE) /\ pc' = "next"
       \/ Submitted(FALSE) /\ pc' = "failing"
    /\ hand' = Idle
    /\ UNCHANGED <<packets, inputs, input_indices, output_indices, eos_accepted,
                   events, closing, failure, asleep, nativeVars, codecVars, feederVars>>

(* render(): returning_output, then Render or Free takes the buffer. *)
WorkerRender ==
    /\ pc = "render"
    /\ \/ /\ output_indices' = output_indices \ {hand.buffer.index}
          /\ codecOwns' = codecOwns \cup {hand.buffer}
          /\ pc' = "rendering"
          /\ UNCHANGED hand
       \/ /\ pc' = "failing" /\ hand' = Idle
          /\ UNCHANGED <<output_indices, codecOwns>>
    /\ UNCHANGED <<packets, inputs, input_indices, reserved_units, reserved_bytes,
                   eos_accepted, events, closing, stats, failure, asleep, nativeVars,
                   calls, changes, feederVars, woken>>

(* output(frame, eos): the end of the stream closes the decoder. *)
WorkerRenderReturns ==
    /\ pc = "rendering"
    /\ hand' = Idle
    /\ \/ pc' = "next" /\ UNCHANGED <<stats, closing, woken>>
       \/ /\ pc' = "next"
          /\ stats' = [stats EXCEPT !.eos = TRUE]
          /\ closing' = TRUE
          /\ NotifyCapacity
       \/ pc' = "failing" /\ UNCHANGED <<stats, closing, woken>>
    /\ UNCHANGED <<queueVars, events, failure, asleep, nativeVars, codecVars, feederVars>>

(* The loop's fail(error). *)
WorkerFails ==
    /\ pc = "failing"
    /\ Fail("Native")
    /\ GoesTo("next")
    /\ UNCHANGED <<queueVars, events, closing, stats, nativeVars, codecVars, feederVars>>

(* Owner::shutdown: request_close, then Stop (whose failure is only        *)
(* remembered) and Destroy.                                                *)
WorkerShutdown ==
    /\ pc = "shutdown"
    /\ closing' = TRUE
    /\ WakeWorker /\ NotifyCapacity
    /\ GoesTo("destroy")
    /\ UNCHANGED <<queueVars, events, stats, failure, nativeVars, codecVars, feederVars>>

(* quarantine(): context, native object and lease are kept for good; the   *)
(* queued data is not.                                                     *)
Quarantine ==
    /\ closing' = TRUE
    /\ stats' = [stats EXCEPT !.quarantined = TRUE,
                              !.cancelled = @ + reserved_units]
    /\ packets' = <<>> /\ events' = <<>> /\ inputs' = <<>>
    /\ input_indices' = {} /\ output_indices' = {}
    /\ reserved_units' = 0 /\ reserved_bytes' = 0
    /\ native' = "quarantined"
    /\ WakeWorker /\ NotifyCapacity

WorkerDestroys ==
    /\ pc = "destroy"
    /\ \/ /\ native' = "destroyed"
          /\ GoesTo("wait_idle")
          /\ UNCHANGED <<closing, stats, packets, events, inputs, input_indices,
                         output_indices, reserved_units, reserved_bytes, woken, asleep>>
       \/ /\ native = "started"
          /\ Quarantine
          /\ GoesTo("report")
    /\ UNCHANGED <<eos_accepted, failure, context, codecVars, feederVars>>

WorkerFreesAtOnce ==        \* mutant
    /\ pc = "wait_idle"
    /\ context' = "freed"
    /\ GoesTo("report") \/ GoesTo("closed")
    /\ UNCHANGED <<queueVars, events, closing, stats, failure, asleep, native,
                   codecVars, feederVars, woken>>

(* wait_idle, then the window, the context, the lease and the permit go;   *)
(* a Stop that failed is still to be reported.                             *)
WorkerFrees ==
    /\ pc = "wait_idle" /\ calls = {}
    /\ context' = "freed"
    /\ GoesTo("report") \/ GoesTo("closed")
    /\ UNCHANGED <<queueVars, events, closing, stats, failure, asleep, native,
                   codecVars, feederVars, woken>>

(* run() records what went wrong in shutdown. *)
WorkerReports ==
    /\ pc = "report"
    /\ Fail("Native")
    /\ GoesTo("closed")
    /\ UNCHANGED <<queueVars, events, closing, stats, nativeVars, codecVars, feederVars>>

(* closed(): what is still queued counts as cancelled. *)
WorkerCloses ==
    /\ pc = "closed"
    /\ GoesTo("ended")
    /\ closing' = TRUE
    /\ stats' = [stats EXCEPT !.closed = TRUE, !.cancelled = @ + Len(packets)]
    /\ packets' = <<>> /\ events' = <<>> /\ inputs' = <<>>
    /\ input_indices' = {} /\ output_indices' = {}
    /\ reserved_units' = 0 /\ reserved_bytes' = 0
    /\ NotifyCapacity
    /\ UNCHANGED <<eos_accepted, failure, asleep, nativeVars, codecVars, feederVars>>

(* The worker unwinds: Drop for Owner quarantines what it holds, and the   *)
(* unit in hand is lost with it.                                           *)
WorkerPanics ==
    /\ pc \in {"push", "pushing", "render", "rendering"}
    /\ Quarantine
    /\ pc' = "ended" /\ hand' = Idle
    /\ UNCHANGED <<eos_accepted, failure, context, codecVars, feederVars>>

----------------------------------------------------------------------------
DecoderInit ==
    /\ packets = <<>> /\ events = <<>> /\ inputs = <<>>
    /\ input_indices = {} /\ output_indices = {}
    /\ reserved_units = 0 /\ reserved_bytes = 0
    /\ eos_accepted = FALSE /\ closing = FALSE
    /\ stats = [accepted |-> 0, pushed |-> 0, cancelled |-> 0, eos |-> FALSE,
                quarantined |-> FALSE, closed |-> FALSE]
    /\ failure = "none"
    /\ pc = "setup" /\ hand = Idle /\ asleep = FALSE
    /\ native = "none" /\ context = "live"
    /\ codecOwns = Buffers /\ calls = {} /\ changes = 0
    /\ feeder = "idle" /\ unit = 0 /\ woken = FALSE /\ feederCancel = FALSE

WorkerNextStep ==
    \/ WorkerSetup \/ WorkerNext \/ WorkerInputAvailable \/ WorkerStreamChanged
    \/ WorkerPush \/ WorkerPushReturns \/ WorkerRender \/ WorkerRenderReturns
    \/ WorkerFails \/ WorkerShutdown \/ WorkerDestroys \/ WorkerFrees
    \/ WorkerReports \/ WorkerCloses

FeederNext ==
    FeederRegisters \/ FeederSubmits \/ FeederWaits \/ FeederReturns \/ FeederCancels

CallbackNext == CallbackEnters \/ CallbackPosts \/ CallbackExits

DecoderNext ==
    WorkerNextStep \/ WorkerPanics \/ FeederNext \/ CallbackNext \/ RequestClose

(* Threads run and native calls return; callbacks that were entered end.   *)
(* The feeder's task is polled when it is woken or cancelled.  The codec   *)
(* owes no callback, nobody owes a close.                                  *)
DecoderFairness ==
    /\ WF_decoderVars(WorkerNextStep)
    /\ WF_decoderVars(CallbackPosts) /\ WF_decoderVars(CallbackExits)
    /\ WF_decoderVars(FeederRegisters /\ feeder = "waiting")
    /\ WF_decoderVars(FeederSubmits \/ FeederWaits \/ FeederReturns)

DecoderSpec == DecoderInit /\ [][DecoderNext]_decoderVars /\ DecoderFairness

----------------------------------------------------------------------------
(* The unit in the worker's hand between next() and submitted(). *)
InHand == IF pc \in {"push", "pushing"} THEN 1 ELSE 0

(* No access unit is lost or counted twice, whatever interleaving of       *)
(* submission, push, failure, close, quarantine and unwind: every accepted *)
(* unit is pushed, cancelled, or holds a credit as a queued unit or as the *)
(* one in the worker's hand; a decoder that is done holds no credit.       *)
UnitsAreConserved ==
    /\ stats.accepted = stats.pushed + stats.cancelled + reserved_units
    /\ pc # "ended" => reserved_units = Len(packets) + InHand
    /\ pc = "ended" => reserved_units = 0 /\ packets = <<>>

(* A callback never runs on freed userdata: the context goes only after    *)
(* the codec is destroyed and every callback that had entered has left,    *)
(* and never after a failed Destroy or an unwind.                          *)
CallbacksSeeLiveContext ==
    context = "freed" => calls = {} /\ native = "destroyed"

(* A codec that announces only buffers it owns is never accused of         *)
(* announcing one twice: index ownership is given back before the native   *)
(* call that may recycle the buffer.                                       *)
NoFalseDuplicate == failure # "DuplicateBufferIndex"

(* A feeder sleeps only for a reason: while its wake-up has not come, its  *)
(* unit still does not fit and the decoder has neither failed nor closed.  *)
(* Every change of that sort notifies the feeder it might concern.         *)
WaitingMeansFull ==
    feeder = "waiting" /\ ~woken => ~HasRoom(unit) /\ ~Stopped

(* A requested close ends the worker. *)
CloseEnds == closing ~> (pc = "ended")

(* What the decoder's threads never get wrong about each other: a callback *)
(* sees no freed userdata, the codec is not accused of what it did not do, *)
(* and a feeder sleeps only while there is no room (ohos_decoder.rs).      *)
DecoderIsSound ==
    DecoderTypeOK /\ CallbacksSeeLiveContext /\ NoFalseDuplicate /\ WaitingMeansFull
=============================================================================
