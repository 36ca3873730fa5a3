---------------------------- MODULE OhosPublisher ----------------------------
(***************************************************************************)
(* The screen publisher of                                                 *)
(* crates/rd-engine/src/platform/ohos_publisher.rs: the shared `State', the *)
(* worker thread (setup, pump, shutdown), the callbacks of the encoder and *)
(* of the screen capture, the one consumer of encoded units (recv and the  *)
(* EncodedUnit guard) and the holder that opens, closes or drops it.       *)
(*                                                                         *)
(* Every critical section of State is one step, and a native call lies     *)
(* between two steps of the worker.  Encoder and capture are external:     *)
(* the encoder fills buffers it owns in its own order, gets one back       *)
(* inside FreeOutputBuffer (and may announce it again before that call     *)
(* returns); the capture reports its state at any time after it was        *)
(* started; every call may fail; no callback starts after a successful     *)
(* Release and Destroy.                                                    *)
(***************************************************************************)
EXTENDS Naturals, Sequences, FiniteSets

CONSTANTS
    EncoderOutputs,            \* native output buffer indices
    Kinds,              \* what a buffer may hold: key, delta, config, empty
    EndKinds,           \* bound: those that may carry the end-of-stream flag
    MaxEncodedUnits, MaxEncodedBytes,     \* PublisherConfig
    MaxEvents,          \* MAX_EVENTS
    MaxHeader,          \* MAX_HEADER
    MaxAnnounced,       \* bound: buffers the encoder fills
    MaxSignals,         \* bound: state and error callbacks
    MaxRequests,        \* bound: keyframe requests
    MaxLeases           \* bound: units the consumer holds at a time

(* A buffer index is a number, none of the names of the other callbacks.   *)
ASSUME PublisherAssumption ==
    /\ IsFiniteSet(EncoderOutputs)
    /\ EncoderOutputs \cap {"Started", "Ended", "Error", "none"} = {}
    /\ Kinds \subseteq {"key", "delta", "config", "empty"}
    /\ MaxEncodedUnits \in Nat \ {0} /\ MaxEncodedBytes \in Nat \ {0}
    /\ MaxEvents \in Nat \ {0} /\ MaxHeader \in Nat
    /\ MaxAnnounced \in Nat /\ MaxSignals \in Nat
    /\ MaxRequests \in Nat /\ MaxLeases \in Nat

VARIABLES
    flags,              \* the scalar fields of State, and missed (history)
    queue, outputs, owned, units, bytes,
    (* the worker *)
    workerAt, sleeping,
    inHand,               \* the buffer in pump's hands and its unit's length
    parameters,         \* Parameters
    objects,             \* Allocation
    (* the encoder and the capture *)
    announced,          \* what was filled, in order
    encoderOwns, callbacks, signals,
    (* the consumer *)
    consumer, roused, leases, delivered,
    (* the holder *)
    ready, holder, requests

sharedVars == <<queue, outputs, owned, units, bytes>>
threadVars == <<workerAt, sleeping, inHand, parameters>>
encoderVars == <<announced, encoderOwns, callbacks, signals>>
consumerVars == <<consumer, leases, delivered>>
holderVars == <<ready, holder, requests>>
publisherVars ==
    <<flags, queue, outputs, owned, units, bytes, workerAt, sleeping, inHand, parameters,
      objects, announced, encoderOwns, callbacks, signals, consumer, roused, leases,
      delivered, ready, holder, requests>>

Stamps == 1..MaxAnnounced
Contents ==                 \* last: the end-of-stream flag
    {c \in [kind : Kinds, last : BOOLEAN] : c.last => c.kind \in EndKinds}
Signals == {"Started", "Ended", "Error"}
Failures == {"none", "Native", "ConsentEnded", "CallbackOverflow", "DuplicateOutput",
             "Rejected", "Closed"}
Packet == [n : Stamps, meta : SUBSET Stamps, length : Nat]
NoBuffer == [index |-> "none", n |-> 0, length |-> 0]

IsPicture(content) == content.kind \in {"key", "delta"}
Content == announced[inHand.n]        \* of the buffer in hand

PublisherTypeOK ==
    /\ flags \in [consent : BOOLEAN, rate_set : BOOLEAN, keyframe_requested : BOOLEAN,
                  missed : BOOLEAN, closing : BOOLEAN, closed : BOOLEAN, quarantined : BOOLEAN,
                  failure : Failures]
    /\ queue \in Seq(Packet) /\ Len(queue) <= MaxEncodedUnits
    /\ outputs \in Seq([index : EncoderOutputs, n : Stamps])
    /\ owned \subseteq EncoderOutputs /\ Cardinality(owned) <= MaxEvents
    /\ units \in 0..MaxEncodedUnits /\ bytes \in 0..MaxEncodedBytes
    /\ workerAt \in {"setup_encoder", "setup_capture", "start_capture", "next", "rate",
               "keyframe", "inspect", "freeing", "admit", "admit_keyframe", "copy",
               "publish", "shutdown", "release", "destroy", "wait_idle", "ended"}
    /\ sleeping \in BOOLEAN
    /\ inHand = NoBuffer \/ inHand \in [index : EncoderOutputs, n : Stamps, length : Nat]
    /\ parameters \in [sets : BOOLEAN, pending : SUBSET Stamps]
    /\ objects \in [encoder : {"none", "created", "started", "destroyed"},
                   capture : {"none", "created", "attempted", "released"},
                   window : BOOLEAN, context : {"live", "freed"}]
    /\ announced \in Seq(Contents) /\ Len(announced) <= MaxAnnounced
    /\ encoderOwns \subseteq EncoderOutputs
    /\ callbacks \subseteq [event : EncoderOutputs \cup Signals, n : Nat, done : BOOLEAN]
    /\ signals \in 0..MaxSignals
    /\ consumer \in {"idle", "registered", "empty", "waiting"} /\ roused \in BOOLEAN
    /\ leases \in Seq(Packet) /\ Len(leases) <= MaxLeases
    /\ delivered \in Seq(Stamps)
    /\ ready \in {"none", "ok", "err"}
    /\ holder \in {"opening", "abandoned", "failed", "open", "closing", "dropped",
                   "Ok", "ReclamationUnconfirmed"}
    /\ requests \in 0..MaxRequests

----------------------------------------------------------------------------
(* `wake' is the worker's condition variable; `changed' reaches the        *)
(* consumer that has registered.                                           *)

Wake == sleeping' = FALSE
NotifyPolledOnly == roused' = (roused \/ consumer = "waiting")       \* mutant

NotifyChanged == roused' = (consumer # "idle")

Halted == flags.closing \/ flags.failure # "none"

(* The first failure is kept. *)
Failed(error) ==
    IF flags.failure = "none" THEN [flags EXCEPT !.failure = error] ELSE flags

RequestsCloseSilently ==        \* mutant
    /\ flags' = [flags EXCEPT !.closing = TRUE]
    /\ NotifyChanged
    /\ UNCHANGED sleeping

(* request_close() *)
RequestsClose ==
    /\ flags' = [flags EXCEPT !.closing = TRUE]
    /\ Wake /\ NotifyChanged

(* fail() *)
Fails(error) == flags' = Failed(error) /\ Wake /\ NotifyChanged

----------------------------------------------------------------------------
(* The holder *)

(* The future of open() is dropped: Drop for Opening. *)
OpenAbandoned ==
    /\ holder = "opening"
    /\ holder' = "abandoned"
    /\ RequestsClose
    /\ UNCHANGED <<sharedVars, workerAt, inHand, parameters, objects, encoderVars, consumerVars,
                   ready, requests>>

(* What the worker reported reaches open(); a publisher nobody awaits any  *)
(* more is dropped at once.  An error is returned after the worker's join. *)
OpenReturns ==
    /\ holder \in {"opening", "abandoned"}
    /\ \/ /\ ready = "ok" /\ holder = "opening"
          /\ holder' = "open"
          /\ UNCHANGED <<flags, sleeping, roused>>
       \/ /\ ready = "ok" /\ holder = "abandoned"
          /\ holder' = "dropped"
          /\ RequestsClose
       \/ /\ ready = "err" /\ workerAt = "ended"
          /\ holder' = "failed"
          /\ UNCHANGED <<flags, sleeping, roused>>
    /\ UNCHANGED <<sharedVars, workerAt, inHand, parameters, objects, encoderVars, consumerVars,
                   ready, requests>>

RequestKeyframeSilently ==      \* mutant
    /\ holder = "open" /\ requests < MaxRequests
    /\ ~Halted
    /\ flags' = [flags EXCEPT !.keyframe_requested = TRUE, !.missed = (workerAt = "keyframe")]
    /\ requests' = requests + 1
    /\ UNCHANGED <<sharedVars, threadVars, objects, encoderVars, consumerVars,
                   roused, ready, holder>>

(* request_keyframe(): latched, repeated requests coalesce.  One that comes  *)
(* while the worker asks the encoder, with State unlocked, is missed by it. *)
RequestKeyframe ==
    /\ holder = "open" /\ requests < MaxRequests
    /\ ~Halted
    /\ flags' = [flags EXCEPT !.keyframe_requested = TRUE, !.missed = (workerAt = "keyframe")]
    /\ requests' = requests + 1
    /\ Wake
    /\ UNCHANGED <<sharedVars, workerAt, inHand, parameters, objects, encoderVars, consumerVars,
                   roused, ready, holder>>

(* request_close() *)
RequestPublisherClose ==
    /\ holder = "open" /\ ~flags.closing
    /\ RequestsClose
    /\ UNCHANGED <<sharedVars, workerAt, inHand, parameters, objects, encoderVars, consumerVars,
                   holderVars>>

(* close() or Drop for Publisher; both consume it, so no recv is under way. *)
HolderLetsGo ==
    /\ holder = "open" /\ consumer = "idle"
    /\ holder' \in {"closing", "dropped"}
    /\ RequestsClose
    /\ UNCHANGED <<sharedVars, workerAt, inHand, parameters, objects, encoderVars, consumerVars,
                   ready, requests>>

(* close() has joined the worker. *)
CloseReturns ==
    /\ holder = "closing" /\ workerAt = "ended"
    /\ holder' = IF flags.closed /\ ~flags.quarantined
                 THEN "Ok" ELSE "ReclamationUnconfirmed"
    /\ UNCHANGED <<flags, sharedVars, threadVars, objects, encoderVars, consumerVars,
                   roused, ready, requests>>

----------------------------------------------------------------------------
(* The consumer *)

(* recv(): the notification is enabled before State is looked at. *)
RecvRegisters ==
    /\ \/ consumer = "idle" /\ holder = "open" /\ Len(leases) < MaxLeases
       \/ consumer = "waiting" /\ roused
    /\ consumer' = "registered" /\ roused' = FALSE
    /\ UNCHANGED <<flags, sharedVars, threadVars, objects, encoderVars, leases,
                   delivered, holderVars>>

(* The oldest unit leaves with its credit. *)
RecvTakes ==
    /\ consumer = "registered" /\ ~Halted /\ queue # <<>>
    /\ queue' = Tail(queue)
    /\ leases' = Append(leases, Head(queue))
    /\ delivered' = Append(delivered, Head(queue).n)
    /\ consumer' = "idle" /\ roused' = FALSE
    /\ UNCHANGED <<flags, outputs, owned, units, bytes, threadVars, objects, encoderVars,
                   holderVars>>

(* Nothing yet; the wait begins after the lock is released. *)
RecvWaits ==
    /\ \/ /\ consumer = "registered" /\ ~Halted /\ queue = <<>>
          /\ consumer' = "empty"
       \/ consumer = "empty" /\ consumer' = "waiting"
    /\ UNCHANGED <<flags, sharedVars, threadVars, objects, encoderVars, roused, leases,
                   delivered, holderVars>>

(* The failure, or None once it is closing. *)
RecvEnds ==
    /\ consumer = "registered" /\ Halted
    /\ consumer' = "idle" /\ roused' = FALSE
    /\ UNCHANGED <<flags, sharedVars, threadVars, objects, encoderVars, leases,
                   delivered, holderVars>>

(* Its token, or another branch of the caller's select. *)
RecvCancelled ==
    /\ consumer # "idle"
    /\ consumer' = "idle" /\ roused' = FALSE
    /\ UNCHANGED <<flags, sharedVars, threadVars, objects, encoderVars, leases,
                   delivered, holderVars>>

UnitDroppedSilently ==      \* mutant
    /\ leases # <<>>
    /\ leases' = Tail(leases)
    /\ units' = units - 1
    /\ bytes' = bytes - Head(leases).length
    /\ UNCHANGED <<flags, queue, outputs, owned, workerAt, inHand, parameters, objects, sleeping,
                   encoderVars, consumer, roused, delivered, holderVars>>

(* Drop for EncodedUnit, also after the publisher is gone. *)
UnitDropped ==
    /\ leases # <<>>
    /\ leases' = Tail(leases)
    /\ units' = units - 1
    /\ bytes' = bytes - Head(leases).length
    /\ Wake
    /\ UNCHANGED <<flags, queue, outputs, owned, workerAt, inHand, parameters, objects,
                   encoderVars, consumer, roused, delivered, holderVars>>

----------------------------------------------------------------------------
(* The callbacks *)

EncoderAlive == objects.encoder \in {"created", "started"}
CaptureAlive == objects.capture \in {"created", "attempted"}

EncoderCalls ==
    /\ \/ /\ objects.encoder = "started" /\ Len(announced) < MaxAnnounced
          /\ \E index \in encoderOwns, content \in Contents :
               /\ encoderOwns' = encoderOwns \ {index}
               /\ announced' = Append(announced, content)
               /\ callbacks' = callbacks \cup {[event |-> index, n |-> Len(announced) + 1,
                                        done |-> FALSE]}
          /\ UNCHANGED signals
       \/ /\ signals < MaxSignals /\ signals' = signals + 1
          /\ \E signal \in Signals :
               /\ IF signal = "Error" THEN EncoderAlive \/ CaptureAlive
                  ELSE objects.capture = "attempted"
               /\ callbacks' = callbacks \cup {[event |-> signal, n |-> signals, done |-> FALSE]}
          /\ UNCHANGED <<announced, encoderOwns>>
    /\ UNCHANGED <<flags, sharedVars, threadVars, objects, consumerVars, roused, holderVars>>

(* output(): one encoder thread announces, in the order of filling. *)
OutputCallback(c) ==
    /\ c.event \in EncoderOutputs
    /\ \A d \in callbacks : d.event \in EncoderOutputs /\ ~d.done => c.n <= d.n
    /\ \/ Halted /\ UNCHANGED <<flags, outputs, owned, sleeping, roused>>
       \/ /\ ~Halted
          /\ Wake /\ NotifyChanged
          /\ IF Cardinality(owned) >= MaxEvents \/ c.event \in owned
             THEN /\ flags' = Failed(IF Cardinality(owned) >= MaxEvents
                                     THEN "CallbackOverflow" ELSE "DuplicateOutput")
                  /\ UNCHANGED <<outputs, owned>>
             ELSE /\ owned' = owned \cup {c.event}
                  /\ outputs' = Append(outputs, [index |-> c.event, n |-> c.n])
                  /\ UNCHANGED flags

CaptureStateEndingQuietly(event) ==     \* mutant
    CASE event = "Started" -> [flags EXCEPT !.consent = ~flags.closing \/ @]
      [] event = "Ended" -> [flags EXCEPT !.consent = FALSE]
      [] event = "Error" -> Failed("Native")

(* capture_state(), and the callbacks that only fail: encoder_error,       *)
(* capture_error, content_changed.                                         *)
CaptureState(event) ==
    CASE event = "Started" -> [flags EXCEPT !.consent = ~flags.closing \/ @]
      [] event = "Ended" ->
           [flags EXCEPT !.consent = FALSE,
                         !.failure = IF flags.closing \/ @ # "none" THEN @
                                     ELSE "ConsentEnded"]
      [] event = "Error" -> Failed("Native")

CallbackRuns ==
    \E c \in callbacks :
      /\ ~c.done
      /\ callbacks' = (callbacks \ {c}) \cup {[c EXCEPT !.done = TRUE]}
      /\ \/ OutputCallback(c)
         \/ /\ c.event \in Signals
            /\ flags' = CaptureState(c.event)
            /\ Wake /\ NotifyChanged
            /\ UNCHANGED <<outputs, owned>>
      /\ UNCHANGED <<queue, units, bytes, workerAt, inHand, parameters, objects, announced,
                     encoderOwns, signals, consumerVars, holderVars>>

(* active.fetch_sub under idle_lock. *)
EncoderCallExits ==
    /\ \E c \in callbacks : c.done /\ callbacks' = callbacks \ {c}
    /\ UNCHANGED <<flags, sharedVars, threadVars, objects, announced, encoderOwns,
                   signals, consumerVars, roused, holderVars>>

----------------------------------------------------------------------------
(* The worker: setup *)

MovesTo(label) == workerAt' = label /\ UNCHANGED inHand

(* A step that returns an error: fail(), then shutdown. *)
FailsTo(error) == Fails(error) /\ workerAt' = "shutdown" /\ inHand' = NoBuffer

(* Geometry, hardware name, encoder, callbacks, format, window, Prepare,   *)
(* Start, each of which may fail; then the first look at `closing'.        *)
SetupEncoder ==
    /\ workerAt = "setup_encoder"
    /\ \/ /\ objects' = [objects EXCEPT !.encoder = "started", !.window = TRUE]
          /\ IF flags.closing THEN FailsTo("Closed")
             ELSE MovesTo("setup_capture") /\ UNCHANGED <<flags, sleeping, roused>>
       \/ /\ \E made \in {<<"none", FALSE>>, <<"created", FALSE>>, <<"created", TRUE>>,
                          <<"started", TRUE>>} :
               objects' = [objects EXCEPT !.encoder = made[1], !.window = made[2]]
          /\ FailsTo("Native")
    /\ UNCHANGED <<sharedVars, parameters, encoderVars, consumerVars, holderVars>>

(* The capture, its callbacks, Init and the microphone; then the second    *)
(* look at `closing'.                                                      *)
SetupCapture ==
    /\ workerAt = "setup_capture"
    /\ \/ /\ objects' = [objects EXCEPT !.capture = "created"]
          /\ IF flags.closing THEN FailsTo("Closed")
             ELSE MovesTo("start_capture") /\ UNCHANGED <<flags, sleeping, roused>>
       \/ /\ objects' \in {objects, [objects EXCEPT !.capture = "created"]}
          /\ FailsTo("Native")
    /\ UNCHANGED <<sharedVars, parameters, encoderVars, consumerVars, holderVars>>

(* capture_attempted, then StartScreenCaptureWithSurface; open() hears.    *)
StartCapture ==
    /\ workerAt = "start_capture"
    /\ objects' = [objects EXCEPT !.capture = "attempted"]
    /\ \/ MovesTo("next") /\ ready' = "ok" /\ UNCHANGED <<flags, sleeping, roused>>
       \/ FailsTo("Native") /\ UNCHANGED ready
    /\ UNCHANGED <<sharedVars, parameters, encoderVars, consumerVars, holder, requests>>

----------------------------------------------------------------------------
(* The worker: pump *)

Capturing == flags.consent /\ flags.rate_set

(* The rest of the loop's body once the keyframe request was looked at. *)
TakesOutput ==
    \/ /\ Halted
       /\ MovesTo("shutdown")
       /\ UNCHANGED <<outputs, sleeping>>
    \/ /\ ~Halted /\ Capturing /\ outputs # <<>>
       /\ outputs' = Tail(outputs)
       /\ inHand' = [index |-> Head(outputs).index, n |-> Head(outputs).n, length |-> 0]
       /\ workerAt' = "inspect"
       /\ UNCHANGED sleeping
    \/ /\ ~Halted /\ ~(Capturing /\ outputs # <<>>)
       /\ sleeping' = TRUE
       /\ workerAt' = "next"
       /\ UNCHANGED <<outputs, inHand>>

PumpNext ==
    /\ workerAt = "next" /\ ~sleeping
    /\ \/ /\ ~Halted /\ flags.consent /\ ~flags.rate_set
          /\ MovesTo("rate")
          /\ UNCHANGED <<flags, outputs, sleeping>>
       \/ /\ ~Halted /\ Capturing /\ flags.keyframe_requested
          /\ flags' = [flags EXCEPT !.keyframe_requested = FALSE, !.missed = FALSE]
          /\ MovesTo("keyframe")
          /\ UNCHANGED <<outputs, sleeping>>
       \/ /\ Halted \/ ~flags.consent \/ (flags.rate_set /\ ~flags.keyframe_requested)
          /\ TakesOutput
          /\ UNCHANGED flags
    /\ UNCHANGED <<queue, owned, units, bytes, parameters, objects, encoderVars,
                   consumerVars, roused, holderVars>>

(* verify_geometry and SetMaxVideoFrameRate have returned. *)
PumpRate ==
    /\ workerAt = "rate"
    /\ \/ /\ flags' = [flags EXCEPT !.rate_set = TRUE]
          /\ MovesTo("next")
          /\ UNCHANGED <<sleeping, roused>>
       \/ FailsTo("Native")
    /\ UNCHANGED <<sharedVars, parameters, objects, encoderVars, consumerVars, holderVars>>

(* request_keyframe(a) has returned; the request is not looked at again. *)
PumpKeyframe ==
    /\ workerAt = "keyframe"
    /\ \/ TakesOutput /\ UNCHANGED <<flags, roused>>
       \/ FailsTo("Native") /\ UNCHANGED outputs
    /\ UNCHANGED <<queue, owned, units, bytes, parameters, objects, encoderVars,
                   consumerVars, holderVars>>

(* What an access unit will charge: its own bytes, the pending metadata    *)
(* and, for a key picture, the parameter sets put in front of it.          *)
Length ==
    1 + Cardinality(parameters.pending) + (IF Content.kind = "key" THEN 1 ELSE 0)

FreeKeepingIndex ==        \* mutant
    /\ encoderOwns' = encoderOwns \cup {inHand.index}
    /\ UNCHANGED owned

(* free(): the index is given up, then the encoder takes the buffer.       *)
Free ==
    /\ owned' = owned \ {inHand.index}
    /\ encoderOwns' = encoderOwns \cup {inHand.index}

(* The attributes and the bytes are read and inspected.  Metadata waits    *)
(* for the next picture; a picture goes on to admission; a call that       *)
(* fails, an invalid or oversized buffer, or a key picture without its     *)
(* parameter sets ends the pump, the buffer not freed.                     *)
PumpInspect ==
    /\ workerAt = "inspect"
    /\ \/ /\ ~IsPicture(Content)
          /\ \/ Content.kind = "empty" /\ UNCHANGED parameters
             \/ /\ Content.kind = "config"
                /\ Content.last \/ Cardinality(parameters.pending) < MaxHeader
                /\ \E sets \in {parameters.sets, TRUE} :
                     parameters' =
                       [sets |-> sets,
                        pending |-> IF Content.last THEN parameters.pending
                                    ELSE parameters.pending \cup {inHand.n}]
          /\ Free
          /\ MovesTo("freeing")
          /\ UNCHANGED <<flags, sleeping, roused>>
       \/ /\ IsPicture(Content)
          /\ \E sets \in {parameters.sets, TRUE} :
               /\ Content.kind = "key" => sets
               /\ parameters' = [parameters EXCEPT !.sets = sets]
          /\ Length <= MaxEncodedBytes
          /\ inHand' = [inHand EXCEPT !.length = Length]
          /\ workerAt' = "admit"
          /\ UNCHANGED <<flags, sleeping, roused, owned, encoderOwns>>
       \/ /\ FailsTo("Rejected")
          /\ UNCHANGED <<parameters, owned, encoderOwns>>
    /\ UNCHANGED <<queue, outputs, units, bytes, objects, announced, callbacks, signals,
                   consumerVars, holderVars>>

(* FreeOutputBuffer of a buffer that is no picture has returned.           *)
PumpFreed ==
    /\ workerAt = "freeing"
    /\ \/ /\ workerAt' = IF Content.last THEN "shutdown" ELSE "next"
          /\ inHand' = NoBuffer
          /\ UNCHANGED <<flags, sleeping, roused>>
       \/ FailsTo("Native")
    /\ UNCHANGED <<sharedVars, parameters, objects, encoderVars, consumerVars, holderVars>>

Full == units >= MaxEncodedUnits \/ inHand.length > MaxEncodedBytes - bytes

AdmitThinning ==        \* mutant
    /\ workerAt = "admit" /\ ~sleeping
    /\ \/ /\ Halted
          /\ MovesTo("shutdown")
          /\ UNCHANGED <<units, bytes, owned, encoderOwns>>
       \/ /\ ~Halted /\ Full
          /\ Free
          /\ MovesTo("freeing")
          /\ UNCHANGED <<units, bytes>>
       \/ /\ ~Halted /\ ~Full
          /\ units' = units + 1 /\ bytes' = bytes + inHand.length
          /\ MovesTo("copy")
          /\ UNCHANGED <<owned, encoderOwns>>
    /\ UNCHANGED <<flags, queue, outputs, sleeping, parameters, objects, announced, callbacks,
                   signals, consumerVars, roused, holderVars>>

(* Backpressure: the native buffer is kept while there is no room, and a   *)
(* keyframe request is still served; then the unit is charged.             *)
PumpAdmit ==
    /\ workerAt = "admit" /\ ~sleeping
    /\ \/ Halted /\ MovesTo("shutdown") /\ UNCHANGED <<flags, sleeping, units, bytes>>
       \/ /\ ~Halted /\ Full /\ Capturing /\ flags.keyframe_requested
          /\ flags' = [flags EXCEPT !.keyframe_requested = FALSE, !.missed = FALSE]
          /\ MovesTo("admit_keyframe")
          /\ UNCHANGED <<sleeping, units, bytes>>
       \/ /\ ~Halted /\ Full /\ ~(Capturing /\ flags.keyframe_requested)
          /\ sleeping' = TRUE
          /\ UNCHANGED <<workerAt, inHand, flags, units, bytes>>
       \/ /\ ~Halted /\ ~Full
          /\ units' = units + 1 /\ bytes' = bytes + inHand.length
          /\ MovesTo("copy")
          /\ UNCHANGED <<flags, sleeping>>
    /\ UNCHANGED <<queue, outputs, owned, parameters, objects, encoderVars, consumerVars,
                   roused, holderVars>>

PumpAdmitKeyframe ==
    /\ workerAt = "admit_keyframe"
    /\ \/ MovesTo("admit") /\ UNCHANGED <<flags, sleeping, roused>>
       \/ FailsTo("Native")
    /\ UNCHANGED <<sharedVars, parameters, objects, encoderVars, consumerVars, holderVars>>

(* The copy, then free(). *)
PumpCopy ==
    /\ workerAt = "copy"
    /\ Free
    /\ MovesTo("publish")
    /\ UNCHANGED <<flags, queue, outputs, units, bytes, sleeping, parameters, objects,
                   announced, callbacks, signals, consumerVars, roused, holderVars>>

PublishKeepingPending ==        \* mutant
    /\ workerAt = "publish"
    /\ inHand' = NoBuffer
    /\ \/ /\ units' = units - 1 /\ bytes' = bytes - inHand.length
          /\ \/ Halted /\ workerAt' = "shutdown" /\ UNCHANGED <<flags, sleeping, roused>>
             \/ FailsTo("Native")
          /\ UNCHANGED <<queue, parameters>>
       \/ /\ ~Halted
          /\ queue' = Append(queue, [n |-> inHand.n, meta |-> parameters.pending,
                                     length |-> inHand.length])
          /\ NotifyChanged
          /\ workerAt' = IF Content.last THEN "shutdown" ELSE "next"
          /\ UNCHANGED <<flags, sleeping, units, bytes, parameters>>
    /\ UNCHANGED <<outputs, owned, objects, encoderVars, consumerVars, holderVars>>

(* FreeOutputBuffer has returned: publish, or give the credit back. *)
PumpPublish ==
    /\ workerAt = "publish"
    /\ inHand' = NoBuffer
    /\ \/ /\ units' = units - 1 /\ bytes' = bytes - inHand.length
          /\ \/ Halted /\ workerAt' = "shutdown" /\ UNCHANGED <<flags, sleeping, roused>>
             \/ FailsTo("Native")
          /\ UNCHANGED <<queue, parameters>>
       \/ /\ ~Halted
          /\ queue' = Append(queue, [n |-> inHand.n, meta |-> parameters.pending,
                                     length |-> inHand.length])
          /\ parameters' = [parameters EXCEPT !.pending = {}]
          /\ NotifyChanged
          /\ workerAt' = IF Content.last THEN "shutdown" ELSE "next"
          /\ UNCHANGED <<flags, sleeping, units, bytes>>
    /\ UNCHANGED <<outputs, owned, objects, encoderVars, consumerVars, holderVars>>

----------------------------------------------------------------------------
(* The worker: Owner::shutdown *)

ShutdownBegins ==
    /\ workerAt = "shutdown"
    /\ RequestsClose
    /\ workerAt' = "release" /\ inHand' = NoBuffer
    /\ UNCHANGED <<sharedVars, parameters, objects, encoderVars, consumerVars, holderVars>>

(* The bytes of the units in a sequence; it never holds more than          *)
(* MaxEncodedUnits of them.                                                 *)
BytesOf(packets) ==
    LET sum[i \in 0..Len(packets)] ==
          IF i = 0 THEN 0 ELSE sum[i - 1] + packets[i].length
    IN  sum[Len(packets)]

ClearZeroingCounters(isQuarantined) ==      \* mutant
    /\ flags' = [flags EXCEPT !.closing = TRUE, !.quarantined = isQuarantined,
                              !.closed = ~isQuarantined]
    /\ queue' = <<>> /\ outputs' = <<>> /\ owned' = {}
    /\ units' = 0 /\ bytes' = 0
    /\ Wake /\ NotifyChanged

(* clear(): queued units return their credit, leased ones keep theirs. *)
Clear(isQuarantined) ==
    /\ flags' = [flags EXCEPT !.closing = TRUE, !.quarantined = isQuarantined,
                              !.closed = ~isQuarantined]
    /\ queue' = <<>> /\ outputs' = <<>> /\ owned' = {}
    /\ units' = units - Len(queue) /\ bytes' = bytes - BytesOf(queue)
    /\ Wake /\ NotifyChanged

(* open() hears of a setup that failed once its shutdown is over. *)
WorkerEnds ==
    /\ workerAt' = "ended"
    /\ ready' = IF ready = "none" THEN "err" ELSE ready

(* A failed Release or Destroy: fail(), and Drop for Owner quarantines.    *)
(* The context stays for the callbacks that may still come.                *)
Quarantines ==
    /\ Clear(TRUE)
    /\ WorkerEnds
    /\ UNCHANGED objects

(* StopScreenCapture, whose failure is only recorded, then Release. *)
ShutdownReleases ==
    /\ workerAt = "release"
    /\ \/ /\ objects' = [objects EXCEPT !.capture = IF CaptureAlive THEN "released" ELSE @]
          /\ workerAt' = "destroy"
          /\ UNCHANGED <<sharedVars, ready>>
          /\ \/ UNCHANGED <<flags, sleeping, roused>>
             \/ objects.capture = "attempted" /\ Fails("Native")
       \/ CaptureAlive /\ Quarantines
    /\ UNCHANGED <<inHand, parameters, encoderVars, consumerVars, holder, requests>>

(* OH_VideoEncoder_Stop, then Destroy. *)
ShutdownDestroys ==
    /\ workerAt = "destroy"
    /\ \/ /\ objects' = [objects EXCEPT !.encoder = IF EncoderAlive THEN "destroyed" ELSE @]
          /\ workerAt' = "wait_idle"
          /\ UNCHANGED <<sharedVars, ready>>
          /\ \/ UNCHANGED <<flags, sleeping, roused>>
             \/ objects.encoder = "started" /\ Fails("Native")
       \/ EncoderAlive /\ Quarantines
    /\ UNCHANGED <<inHand, parameters, encoderVars, consumerVars, holder, requests>>

ShutdownFreesAtOnce ==      \* mutant
    /\ workerAt = "wait_idle"
    /\ objects' = [objects EXCEPT !.window = FALSE, !.context = "freed"]
    /\ Clear(FALSE)
    /\ WorkerEnds
    /\ UNCHANGED <<inHand, parameters, encoderVars, consumerVars, holder, requests>>

(* wait_idle, the window, clear(false); then context and permit go. *)
ShutdownFrees ==
    /\ workerAt = "wait_idle" /\ callbacks = {}
    /\ objects' = [objects EXCEPT !.window = FALSE, !.context = "freed"]
    /\ Clear(FALSE)
    /\ WorkerEnds
    /\ UNCHANGED <<inHand, parameters, encoderVars, consumerVars, holder, requests>>

----------------------------------------------------------------------------
(* native::open: the allocation its worker starts with.                    *)
Allocation == [encoder |-> "none", capture |-> "none", window |-> FALSE, context |-> "live"]

PublisherInit ==
    /\ flags = [consent |-> FALSE, rate_set |-> FALSE, keyframe_requested |-> FALSE,
                missed |-> FALSE, closing |-> FALSE, closed |-> FALSE, quarantined |-> FALSE,
                failure |-> "none"]
    /\ queue = <<>> /\ outputs = <<>> /\ owned = {} /\ units = 0 /\ bytes = 0
    /\ workerAt = "setup_encoder" /\ sleeping = FALSE /\ inHand = NoBuffer
    /\ parameters = [sets |-> FALSE, pending |-> {}]
    /\ objects = Allocation
    /\ announced = <<>> /\ encoderOwns = EncoderOutputs /\ callbacks = {} /\ signals = 0
    /\ consumer = "idle" /\ roused = FALSE /\ leases = <<>> /\ delivered = <<>>
    /\ ready = "none" /\ holder = "opening" /\ requests = 0

HolderNext ==
    \/ OpenAbandoned \/ OpenReturns \/ RequestKeyframe \/ RequestPublisherClose
    \/ HolderLetsGo \/ CloseReturns

ConsumerNext ==
    RecvRegisters \/ RecvTakes \/ RecvWaits \/ RecvEnds \/ RecvCancelled \/ UnitDropped

EncoderCallNext == EncoderCalls \/ CallbackRuns \/ EncoderCallExits

PublisherWorkerNext ==
    \/ SetupEncoder \/ SetupCapture \/ StartCapture
    \/ PumpNext \/ PumpRate \/ PumpKeyframe \/ PumpInspect \/ PumpFreed
    \/ PumpAdmit \/ PumpAdmitKeyframe \/ PumpCopy \/ PumpPublish
    \/ ShutdownBegins \/ ShutdownReleases \/ ShutdownDestroys \/ ShutdownFrees

PublisherNext == HolderNext \/ ConsumerNext \/ EncoderCallNext \/ PublisherWorkerNext

(* Threads run, native calls return, entered callbacks end, and a task     *)
(* that was woken is polled.  Neither the SDK owes a callback, nor the     *)
(* consumer a recv or the return of a unit, nor the holder a close.        *)
PublisherFairness ==
    /\ WF_publisherVars(PublisherWorkerNext)
    /\ WF_publisherVars(CallbackRuns) /\ WF_publisherVars(EncoderCallExits)
    /\ WF_publisherVars(RecvRegisters /\ consumer = "waiting")
    /\ WF_publisherVars(RecvTakes \/ RecvWaits \/ RecvEnds)
    /\ WF_publisherVars(OpenReturns) /\ WF_publisherVars(CloseReturns)

PublisherSpec == PublisherInit /\ [][PublisherNext]_publisherVars /\ PublisherFairness

----------------------------------------------------------------------------
(* The credit of the unit that is being copied and freed. *)
InProgress == IF workerAt \in {"copy", "publish"} THEN 1 ELSE 0

(* `units' and `bytes' count exactly the units that are queued, leased to  *)
(* the network writer or being copied, through every failure, close,       *)
(* clear() and late drop of a guard: no credit leaks, no later             *)
(* EncodedUnit::drop takes a counter below zero, and the quotas bound what *)
(* is held, the leased units included.                                     *)
CreditsAreConserved ==
    /\ units <= MaxEncodedUnits /\ bytes <= MaxEncodedBytes
    /\ units = Len(queue) + Len(leases) + InProgress
    /\ bytes = BytesOf(queue) + BytesOf(leases) + InProgress * inHand.length

Published == delivered \o [i \in 1..Len(queue) |-> queue[i].n]

(* The pictures among the filled buffers, from the first on, in the order  *)
(* of filling, with none dropped, repeated or overtaken.                   *)
IsStreamOf(stamps, filled) ==
    /\ \A i, j \in 1..Len(stamps) : i < j => stamps[i] < stamps[j]
    /\ \A i \in 1..Len(stamps) :
         /\ stamps[i] <= Len(filled) /\ IsPicture(filled[stamps[i]])
         /\ \A n \in 1..stamps[i] :
              IsPicture(filled[n]) => \E j \in 1..Len(stamps) : stamps[j] = n

(* Backpressure never thins the stream: what the consumer got, followed by *)
(* what is queued for it, are the pictures the encoder filled so far.      *)
NoPictureIsSkipped == IsStreamOf(Published, announced)

(* Metadata that the encoder emits on its own travels with the next        *)
(* picture, once, and with no other.                                       *)
MetadataTravelsOnce ==
    \A packet \in {queue[i] : i \in 1..Len(queue)} \cup
                  {leases[i] : i \in 1..Len(leases)} :
      packet.meta = {m \in 1..(packet.n - 1) :
                       /\ announced[m].kind = "config"
                       /\ \A k \in m..(packet.n - 1) : ~IsPicture(announced[k])}

(* Screen content moves towards the network only while the user's consent  *)
(* stands and the frame rate limit is in force: neither a unit that was in *)
(* the worker's hands nor one that was queued gets through after consent   *)
(* has ended.                                                              *)
ContentNeedsConsent ==
    [][Len(Published') > Len(Published) \/ delivered' # delivered
         => flags.consent /\ flags.rate_set]_publisherVars

(* Teardown is in the order the SDK needs: the capture that produces into  *)
(* the window is gone before the encoder and the window go, and the        *)
(* userdata goes only when both are gone and no callback is inside it.     *)
TeardownIsOrdered ==
    /\ CaptureAlive => objects.encoder = "started" /\ objects.window
    /\ objects.context = "freed" =>
         /\ callbacks = {} /\ ~EncoderAlive /\ ~CaptureAlive /\ ~objects.window

(* An encoder with no more buffers than the callback queue admits is never *)
(* accused of announcing one twice, or of announcing too many: the index   *)
(* is given up before the call that frees the buffer, which may announce   *)
(* it again before it returns.                                             *)
NoFalseAccusation ==
    Cardinality(EncoderOutputs) <= MaxEvents =>
      flags.failure \notin {"DuplicateOutput", "CallbackOverflow"}

(* The worker sleeps on nothing but a refresh that it missed.  Between two  *)
(* buffers it sleeps only while there is no stop, no rate to set, no buffer *)
(* and, once it captures, no refresh asked for; except one that came while  *)
(* it asked the encoder for the one before (see RefreshIsNotSleptOn).  In   *)
(* the wait for room it sleeps only while there is none, and on no refresh. *)
SleepIsJustified ==
    sleeping =>
      /\ ~Halted
      /\ workerAt = "next" =>
           /\ flags.consent => flags.rate_set /\ outputs = <<>>
           /\ Capturing /\ flags.keyframe_requested => flags.missed
      /\ workerAt = "admit" => Full /\ ~(Capturing /\ flags.keyframe_requested)

(* "Latch a protocol refresh until capture has started"                    *)
(* (ohos_publisher.rs:284): once it has, no request stays latched while    *)
(* the worker sleeps, the missed ones included.                            *)
RefreshIsNotSleptOn ==
    sleeping /\ Capturing => ~flags.keyframe_requested

(* A receiver is not left waiting by a failure, a close or the end of the  *)
(* stream.                                                                 *)
ReceiverIsReleased == (consumer = "waiting" /\ Halted) ~> (consumer = "idle")

(* A close() that has not returned, or a publisher let go of whose worker  *)
(* still runs.                                                             *)
LettingGo ==
    \/ holder = "closing"
    \/ /\ holder \in {"abandoned", "dropped", "Ok", "ReclamationUnconfirmed"}
       /\ workerAt # "ended"

(* Whoever opens, abandons, closes or drops a publisher, its worker ends   *)
(* and close() returns, whatever the state of the capture or the queue.    *)
LettingGoEnds == LettingGo ~> ~LettingGo

(* What the publisher's threads never get wrong about each other: credits  *)
(* are conserved, no picture is dropped, repeated or overtaken, metadata   *)
(* travels once, the encoder is not accused of what it did not do, and the *)
(* worker sleeps on no work but a refresh that it missed                   *)
(* (ohos_publisher.rs).                                                    *)
PublisherIsSound ==
    /\ PublisherTypeOK /\ CreditsAreConserved /\ NoPictureIsSkipped
    /\ MetadataTravelsOnce /\ NoFalseAccusation /\ SleepIsJustified
=============================================================================
