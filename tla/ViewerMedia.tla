----------------------------- MODULE ViewerMedia -----------------------------
(***************************************************************************)
(* The life of a viewer, crates/rd-engine/src/viewer.rs: `run' with its    *)
(* three tasks (receive, write, feed), the native decoder the feeder owns, *)
(* `finish', and a caller of `close'.                                      *)
(*                                                                         *)
(* The feeder owns at most one decoder, opened for a contract (codec and   *)
(* geometry) and replaced when a record with another contract arrives.     *)
(* Records are admitted under two semaphores whose permits are held until  *)
(* the whole record has crossed the decoder's admission.  The decoder is   *)
(* OhosDecoder seen through its results: open, submit_cancellable, close   *)
(* and the observer's statistics.  Authentication and the writer's traffic *)
(* are left to AuthPeers and ViewerInput.                                  *)
(***************************************************************************)
EXTENDS Naturals, Sequences

CONSTANTS
    Contracts,      \* a codec and a geometry
    NoContract,
    VideoRecords,   \* VIDEO_RECORDS
    VideoBytes,     \* VIDEO_BYTES, counted in access units
    MaxRecords,     \* bound: video records received
    MaxSwitches,    \* bound: SwitchDisplay messages received
    MaxMessages     \* bound: both together

ASSUME MediaAssumption ==
    /\ NoContract \notin Contracts
    /\ VideoRecords \in Nat \ {0} /\ VideoBytes \in Nat \ {0}
    /\ MaxRecords \in Nat /\ MaxSwitches \in Nat /\ MaxMessages \in Nat

VARIABLES
    main,               \* where run() and the task around it are
    joined, runResult,  \* the tasks joined so far, and the outcome of run()
    cancel, authenticated, lease,
    geometry,           \* Inner.geometry
    source,             \* receive()'s own copy
    receiver,           \* receive(): place and record not yet in the channel
    slots, bytes,       \* permits left
    video,              \* the channel to the feeder
    writer,             \* write()
    feeder,             \* feed(): place, reason of a close, result, record, contract
    observer,           \* Inner.decoder is Some
    native,             \* the native decoder
    stopped,            \* it has failed or was asked to close
    accepted, pushed,   \* its statistics
    pushedBefore,       \* Inner.snapshot.pushed_units: decoders closed before
    unconfirmed,        \* resources_unconfirmed
    finished,           \* State.result
    closer, notified,   \* a close() call and its registration with `done'
    pushedEver,         \* history: units any decoder pushed
    records, switches   \* messages received

mainVars == <<main, joined, runResult, lease>>
stateVars == <<cancel, authenticated>>
receiveVars == <<receiver, source, records, switches>>
decoderVars == <<native, stopped, accepted, pushed, pushedEver>>
closeVars == <<closer, notified>>
mediaVars ==
    <<main, joined, runResult, cancel, authenticated, lease, geometry, source,
      receiver, slots, bytes, video, writer, feeder, observer, native, stopped,
      accepted, pushed, pushedBefore, unconfirmed, finished, closer, notified,
      pushedEver, records, switches>>

Record == [contract : Contracts, units : 1..VideoBytes, size : 1..VideoBytes]
NoRecord == [contract |-> NoContract, units |-> 0, size |-> 0]
HeldRecord ==
    [contract : Contracts, units : 0..VideoBytes, size : 1..VideoBytes] \cup {NoRecord}

(* "destroy" is ViewerError::Decoder(DestroyFailed), kept apart from every  *)
(* other error.                                                            *)
Results == {"ok", "error", "destroy"}

MediaTypeOK ==
    /\ main \in {"authenticating", "accepted", "running", "joining", "dropping",
                 "finishing", "notifying", "done"}
    /\ joined \subseteq {"receive", "write", "feed"}
    /\ runResult \in Results
    /\ cancel \in BOOLEAN /\ authenticated \in BOOLEAN
    /\ lease \in {"held", "released", "lost"}
    /\ geometry \in Contracts \cup {NoContract}
    /\ source \in Contracts \cup {NoContract}
    /\ receiver \in [at : {"idle", "reading", "slot", "bytes", "sending", "ok", "error"},
                     record : Record \cup {NoRecord}]
    /\ slots \in 0..VideoRecords /\ bytes \in 0..VideoBytes
    /\ video \in Seq(Record) /\ Len(video) <= VideoRecords
    /\ writer \in {"idle", "running", "ok", "error"}
    /\ feeder \in [at : {"idle", "recv", "closing", "settling", "reopen", "opening",
                         "feeding", "done"},
                   why : {"switch", "end"}, result : Results, closed : Results,
                   record : HeldRecord, contract : Contracts \cup {NoContract},
                   current : Contracts \cup {NoContract}]
    /\ observer \in BOOLEAN /\ stopped \in BOOLEAN /\ unconfirmed \in BOOLEAN
    /\ native \in {"none", "live", "destroyed", "quarantined"}
    /\ accepted \in Nat /\ pushed \in 0..accepted
    /\ pushedBefore \in Nat /\ pushedEver \in Nat
    /\ finished \in {"none", "ok", "unconfirmed", "destroy"}
    /\ closer \in {"idle", "loop", "registered", "checked", "waiting", "returned"}
    /\ notified \in BOOLEAN
    /\ records \in 0..MaxRecords /\ switches \in 0..MaxSwitches

----------------------------------------------------------------------------
(* State::request_close *)
CloseRequested ==
    /\ cancel' = TRUE
    /\ authenticated' = FALSE
    /\ stopped' = (stopped \/ observer)

(* request_close(), or the last Viewer is dropped. *)
UserRequestsClose ==
    /\ ~cancel
    /\ CloseRequested
    /\ UNCHANGED <<mainVars, geometry, receiveVars, slots, bytes, video, writer,
                   feeder, observer, native, accepted, pushed, pushedBefore,
                   unconfirmed, finished, closeVars, pushedEver>>

(* close(): request_close, then the loop on `done'. *)
CloserStarts ==
    /\ closer = "idle"
    /\ closer' = "loop"
    /\ CloseRequested
    /\ UNCHANGED <<mainVars, geometry, receiveVars, slots, bytes, video, writer,
                   feeder, observer, native, accepted, pushed, pushedBefore,
                   unconfirmed, finished, notified, pushedEver>>

CloserStep(from, to) ==
    /\ closer = from
    /\ closer' = to
    /\ UNCHANGED <<mainVars, stateVars, geometry, receiveVars, slots, bytes, video,
                   writer, feeder, observer, decoderVars, pushedBefore, unconfirmed,
                   finished>>

CloserRegisters == CloserStep("loop", "registered") /\ notified' = FALSE

CloserChecks ==
    /\ CloserStep("registered", IF finished = "none" THEN "checked" ELSE "returned")
    /\ UNCHANGED notified

CloserWaits == CloserStep("checked", "waiting") /\ UNCHANGED notified

CloserWakes == notified /\ CloserStep("waiting", "loop") /\ UNCHANGED notified

----------------------------------------------------------------------------
(* receive() *)

ReceiverStep(at, record) ==
    /\ receiver' = [at |-> at, record |-> record]
    /\ UNCHANGED <<mainVars, stateVars, writer, feeder, observer, decoderVars,
                   pushedBefore, unconfirmed, finished, closeVars>>

ReceiverCancelledAtReads ==     \* mutant
    /\ receiver.at = "reading" /\ cancel
    /\ ReceiverStep("ok", NoRecord)
    /\ UNCHANGED <<slots, bytes, geometry, source, video, records, switches>>

(* Every await of receive() is a biased select with the cancellation. *)
ReceiverCancelled ==
    /\ receiver.at \in {"reading", "slot", "bytes", "sending"} /\ cancel
    /\ ReceiverStep("ok", NoRecord)
    /\ slots' = IF receiver.at \in {"bytes", "sending"} THEN slots + 1 ELSE slots
    /\ bytes' = IF receiver.at = "sending" THEN bytes + receiver.record.size ELSE bytes
    /\ UNCHANGED <<geometry, source, video, records, switches>>

(* The stream ends or breaks, the peer closes, or a message is refused. *)
ReceiverFails ==
    /\ receiver.at = "reading" /\ ~cancel
    /\ ReceiverStep("error", NoRecord)
    /\ UNCHANGED <<geometry, source, slots, bytes, video, records, switches>>

ReceiverSwitchesBehind ==       \* mutant
    /\ receiver.at = "reading" /\ ~cancel
    /\ switches < MaxSwitches /\ records + switches < MaxMessages
    /\ switches' = switches + 1
    /\ source' \in Contracts
    /\ geometry' = source
    /\ ReceiverStep("reading", NoRecord)
    /\ UNCHANGED <<slots, bytes, video, records>>

(* SwitchDisplay: the new source is published at once. *)
ReceiverSwitches ==
    /\ receiver.at = "reading" /\ ~cancel
    /\ switches < MaxSwitches /\ records + switches < MaxMessages
    /\ switches' = switches + 1
    /\ source' \in Contracts
    /\ geometry' = source'
    /\ ReceiverStep("reading", NoRecord)
    /\ UNCHANGED <<slots, bytes, video, records>>

(* A video record of the current display. *)
ReceiverReads ==
    /\ receiver.at = "reading" /\ ~cancel
    /\ records < MaxRecords /\ records + switches < MaxMessages
    /\ records' = records + 1
    /\ \E n \in 1..VideoBytes :
         ReceiverStep("slot", [contract |-> source, units |-> n, size |-> n])
    /\ UNCHANGED <<geometry, source, slots, bytes, video, switches>>

(* Admission: a slot first, then the bytes. *)
ReceiverAdmits ==
    /\ ~cancel
    /\ \/ /\ receiver.at = "slot" /\ slots > 0
          /\ slots' = slots - 1
          /\ ReceiverStep("bytes", receiver.record)
          /\ UNCHANGED bytes
       \/ /\ receiver.at = "bytes" /\ bytes >= receiver.record.size
          /\ bytes' = bytes - receiver.record.size
          /\ ReceiverStep("sending", receiver.record)
          /\ UNCHANGED slots
    /\ UNCHANGED <<geometry, source, video, records, switches>>

(* The channel; it is closed when the feeder has gone. *)
ReceiverSends ==
    /\ receiver.at = "sending" /\ ~cancel
    /\ \/ /\ feeder.at # "done" /\ Len(video) < VideoRecords
          /\ video' = Append(video, receiver.record)
          /\ ReceiverStep("reading", NoRecord)
       \/ /\ feeder.at = "done"
          /\ ReceiverStep("error", NoRecord)
          /\ UNCHANGED video
    /\ UNCHANGED <<geometry, source, slots, bytes, records, switches>>

----------------------------------------------------------------------------
(* write() *)
WriterEnds ==
    /\ writer = "running"
    /\ \/ cancel /\ writer' = "ok"
       \/ ~cancel /\ writer' = "error"
    /\ UNCHANGED <<mainVars, stateVars, geometry, receiveVars, slots, bytes, video,
                   feeder, observer, decoderVars, pushedBefore, unconfirmed,
                   finished, closeVars>>

----------------------------------------------------------------------------
(* feed() and feed_loop() *)

feederFrame == <<mainVars, receiveVars, writer, finished, closeVars>>

(* feed_loop returns: an error asks everyone to stop before the teardown;  *)
(* the record in hand is dropped with its permits.                         *)
FeedLoopReturns(result) ==
    /\ feeder' = [feeder EXCEPT !.at = "closing", !.why = "end", !.result = result,
                                !.record = NoRecord]
    /\ slots' = IF feeder.record = NoRecord THEN slots ELSE slots + 1
    /\ bytes' = bytes + feeder.record.size
    /\ IF result = "ok" THEN UNCHANGED <<cancel, authenticated, stopped>>
       ELSE CloseRequested

(* The select at the top: cancellation, then the decoder's end, then a     *)
(* record or the end of the channel.                                       *)
DecoderStopped == feeder.current # NoContract /\ stopped

FeederStops ==
    /\ feeder.at = "recv"
    /\ \/ cancel /\ FeedLoopReturns("ok")
       \/ ~cancel /\ DecoderStopped /\ FeedLoopReturns("error")
       \/ /\ ~cancel /\ ~DecoderStopped
          /\ video = <<>> /\ receiver.at \in {"ok", "error"}
          /\ FeedLoopReturns("ok")
    /\ UNCHANGED <<feederFrame, geometry, video, observer, native, accepted, pushed,
                   pushedBefore, unconfirmed, pushedEver>>

FeederTakesKeepingDecoder ==        \* mutant
    /\ feeder.at = "recv" /\ ~cancel /\ ~DecoderStopped
    /\ video # <<>>
    /\ video' = Tail(video)
    /\ feeder' = [feeder EXCEPT
                    !.record = Head(video), !.why = "switch",
                    !.at = IF feeder.contract # NoContract
                           THEN "feeding" ELSE "closing"]
    /\ UNCHANGED <<feederFrame, stateVars, geometry, slots, bytes, observer,
                   decoderVars, pushedBefore, unconfirmed>>

(* A record of another contract first closes the current decoder. *)
FeederTakes ==
    /\ feeder.at = "recv" /\ ~cancel /\ ~DecoderStopped
    /\ video # <<>>
    /\ video' = Tail(video)
    /\ feeder' = [feeder EXCEPT
                    !.record = Head(video), !.why = "switch",
                    !.at = IF feeder.contract = Head(video).contract
                           THEN "feeding" ELSE "closing"]
    /\ UNCHANGED <<feederFrame, stateVars, geometry, slots, bytes, observer,
                   decoderVars, pushedBefore, unconfirmed>>

(* close_decoder, its blocking half: nothing to close, or decoder.close()  *)
(* on the worker thread.  An error may be older than the close; only a     *)
(* failed Destroy, or an unwound worker, leaves the decoder quarantined.   *)
DecoderCloses ==
    /\ feeder.at = "closing"
    /\ \/ /\ feeder.current = NoContract
          /\ feeder' = [feeder EXCEPT !.at = IF feeder.why = "switch" THEN "reopen"
                                             ELSE "done"]
          /\ UNCHANGED <<native, stopped>>
       \/ /\ feeder.current # NoContract
          /\ stopped' = TRUE
          /\ \/ /\ native' = "destroyed"
                /\ \E r \in {"ok", "error"} :
                     feeder' = [feeder EXCEPT !.at = "settling", !.closed = r]
             \/ /\ native' = "quarantined"
                /\ \E r \in {"destroy", "error"} :
                     feeder' = [feeder EXCEPT !.at = "settling", !.closed = r]
    /\ UNCHANGED <<feederFrame, stateVars, geometry, slots, bytes, video, observer,
                   accepted, pushed, pushedBefore, unconfirmed, pushedEver>>

(* What follows a close_decoder that was called to switch contracts, and   *)
(* one that was called at the end.                                         *)
AfterClose ==
    \/ /\ feeder.why = "switch" /\ feeder.closed = "ok"
       /\ feeder' = [feeder EXCEPT !.at = "reopen", !.current = NoContract]
       /\ UNCHANGED <<cancel, authenticated, stopped, slots, bytes>>
    \/ /\ feeder.why = "switch" /\ feeder.closed # "ok"
       /\ feeder' = [feeder EXCEPT !.at = "done", !.current = NoContract,
                                   !.result = feeder.closed, !.record = NoRecord]
       /\ slots' = slots + 1 /\ bytes' = bytes + feeder.record.size
       /\ cancel' = TRUE /\ authenticated' = FALSE /\ UNCHANGED stopped
    \/ /\ feeder.why = "end"
       /\ feeder' = [feeder EXCEPT !.at = "done", !.current = NoContract,
                                   !.result = IF feeder.closed = "ok"
                                              THEN feeder.result ELSE feeder.closed]
       /\ UNCHANGED <<cancel, authenticated, stopped, slots, bytes>>

DecoderSettlesAlways ==     \* mutant
    /\ feeder.at = "settling"
    /\ unconfirmed' = FALSE
    /\ pushedBefore' = pushedBefore + pushed
    /\ observer' = FALSE
    /\ AfterClose
    /\ UNCHANGED <<feederFrame, geometry, video, native, accepted, pushed, pushedEver>>

DecoderSettlesKeepingObserver ==        \* mutant
    /\ feeder.at = "settling"
    /\ unconfirmed' = (unconfirmed /\ native # "destroyed")
    /\ pushedBefore' = pushedBefore + pushed
    /\ AfterClose
    /\ UNCHANGED <<feederFrame, geometry, video, observer, native, accepted, pushed,
                   pushedEver>>

(* close_decoder, its second half: the reclamation proof, then the         *)
(* counters and the observer under one lock.                               *)
DecoderSettles ==
    /\ feeder.at = "settling"
    /\ unconfirmed' = (unconfirmed /\ native # "destroyed")
    /\ pushedBefore' = pushedBefore + pushed
    /\ observer' = FALSE
    /\ AfterClose
    /\ UNCHANGED <<feederFrame, geometry, video, native, accepted, pushed, pushedEver>>

(* resources_unconfirmed is set before the native call. *)
FeederReopens ==
    /\ feeder.at = "reopen"
    /\ \/ /\ cancel
          /\ FeedLoopReturns("ok")
          /\ UNCHANGED unconfirmed
       \/ /\ ~cancel
          /\ feeder' = [feeder EXCEPT !.at = "opening"]
          /\ unconfirmed' = TRUE
          /\ UNCHANGED <<cancel, authenticated, stopped, slots, bytes>>
    /\ UNCHANGED <<feederFrame, geometry, video, observer, native, accepted, pushed,
                   pushedBefore, pushedEver>>

(* SurfaceDecoder::open has returned. *)
DecoderOpens ==
    /\ feeder.at = "opening"
    /\ \/ /\ native' = "live" /\ stopped' = FALSE
          /\ accepted' = 0 /\ pushed' = 0
          /\ observer' = TRUE
          /\ geometry' = feeder.record.contract
          /\ feeder' = [feeder EXCEPT !.at = "feeding",
                                      !.current = feeder.record.contract,
                                      !.contract = feeder.record.contract]
          /\ UNCHANGED <<stateVars, slots, bytes, unconfirmed>>
       \/ /\ unconfirmed' = FALSE          \* cleaned up, or never allocated
          /\ FeedLoopReturns("error")
          /\ UNCHANGED <<geometry, observer, native, accepted, pushed>>
       \/ /\ native' = "quarantined"       \* Destroy failed, or an unwind
          /\ FeedLoopReturns("destroy") \/ FeedLoopReturns("error")
          /\ UNCHANGED <<geometry, observer, accepted, pushed, unconfirmed>>
    /\ UNCHANGED <<feederFrame, video, pushedBefore, pushedEver>>

(* One access unit crosses submit_cancellable (a full decoder makes the    *)
(* feeder wait: nothing happens), or the record is done.                   *)
FeederSubmits ==
    /\ feeder.at = "feeding"
    /\ \/ /\ feeder.record.units > 0 /\ ~cancel /\ ~stopped
          /\ accepted' = accepted + 1
          /\ feeder' = [feeder EXCEPT !.record.units = @ - 1]
          /\ UNCHANGED <<slots, bytes>>
       \/ /\ feeder.record.units = 0
          /\ feeder' = [feeder EXCEPT !.at = "recv", !.record = NoRecord]
          /\ slots' = slots + 1 /\ bytes' = bytes + feeder.record.size
          /\ UNCHANGED accepted
    /\ UNCHANGED <<feederFrame, stateVars, geometry, video, observer, native, stopped,
                   pushed, pushedBefore, unconfirmed, pushedEver>>

(* Cancelled between two units or while waiting; or the decoder has        *)
(* stopped, or the unit is refused: its time stamp overflows or the        *)
(* decoder does not take it.                                               *)
FeederGivesUp ==
    /\ feeder.at = "feeding" /\ feeder.record.units > 0
    /\ \/ cancel /\ FeedLoopReturns("ok")
       \/ ~cancel /\ FeedLoopReturns("error")
    /\ UNCHANGED <<feederFrame, geometry, video, observer, native, accepted, pushed,
                   pushedBefore, unconfirmed, pushedEver>>

(* The decoder's own thread; a push under way when it is stopped still     *)
(* counts.                                                                 *)
DecoderPushes ==
    /\ native = "live" /\ pushed < accepted
    /\ pushed' = pushed + 1 /\ pushedEver' = pushedEver + 1
    /\ UNCHANGED <<mainVars, stateVars, geometry, receiveVars, slots, bytes, video,
                   writer, feeder, observer, native, stopped, accepted, pushedBefore,
                   unconfirmed, finished, closeVars>>

DecoderFails ==
    /\ native = "live" /\ ~stopped
    /\ stopped' = TRUE
    /\ UNCHANGED <<mainVars, stateVars, geometry, receiveVars, slots, bytes, video,
                   writer, feeder, observer, native, accepted, pushed, pushedBefore,
                   unconfirmed, finished, closeVars, pushedEver>>

----------------------------------------------------------------------------
(* run() and the task that spawned it *)

TaskResult(t) ==
    CASE t = "receive" -> receiver.at
      [] t = "write"   -> writer
      [] t = "feed"    -> feeder.result

TaskDone(t) ==
    CASE t = "receive" -> receiver.at \in {"ok", "error"}
      [] t = "write"   -> writer \in {"ok", "error"}
      [] t = "feed"    -> feeder.at = "done"

mainFrame == <<video, slots, bytes, observer, native, accepted, pushed, pushedBefore,
               finished, closeVars, pushedEver, records, switches>>

(* authenticate(): cancelled, failed or accepted. *)
MainAuthenticates ==
    /\ main = "authenticating"
    /\ \/ cancel /\ main' = "dropping" /\ runResult' = "ok"
       \/ ~cancel /\ main' = "dropping" /\ runResult' = "error"
       \/ ~cancel /\ main' = "accepted" /\ UNCHANGED runResult
    /\ UNCHANGED <<mainFrame, joined, stateVars, lease, geometry, source, receiver,
                   writer, feeder, stopped, unconfirmed>>

(* The accepted parts are published and the tasks spawned, or the peer's   *)
(* geometry is refused.  A close that came meanwhile is not looked at.     *)
MainStarts ==
    /\ main = "accepted"
    /\ \/ /\ main' = "dropping" /\ runResult' = "error"
          /\ UNCHANGED <<authenticated, geometry, source, receiver, writer, feeder>>
       \/ /\ main' = "running"
          /\ source' \in Contracts
          /\ geometry' = source'
          /\ authenticated' = TRUE
          /\ receiver' = [at |-> "reading", record |-> NoRecord]
          /\ writer' = "running"
          /\ feeder' = [feeder EXCEPT !.at = "recv"]
          /\ UNCHANGED runResult
    /\ UNCHANGED <<mainFrame, joined, cancel, lease, stopped, unconfirmed>>

(* The first task to end, or the cancellation, ends the others. *)
MainStops ==
    /\ main = "running"
    /\ \/ cancel /\ runResult' = "ok" /\ UNCHANGED joined
       \/ ~cancel /\ \E t \in {"receive", "write", "feed"} :
                       /\ TaskDone(t)
                       /\ runResult' = TaskResult(t)
                       /\ joined' = {t}
    /\ main' = "joining"
    /\ CloseRequested
    /\ UNCHANGED <<mainFrame, lease, geometry, source, receiver, writer, feeder,
                   unconfirmed>>

MainJoinsFirstErrorOnly ==      \* mutant
    /\ main = "joining"
    /\ \/ \E t \in {"receive", "write", "feed"} \ joined :
            /\ TaskDone(t)
            /\ joined' = joined \cup {t}
            /\ runResult' = IF runResult = "ok" THEN TaskResult(t) ELSE runResult
            /\ UNCHANGED main
       \/ /\ joined = {"receive", "write", "feed"}
          /\ main' = "dropping"
          /\ UNCHANGED <<joined, runResult>>
    /\ UNCHANGED <<mainFrame, stateVars, lease, geometry, source, receiver, writer,
                   feeder, stopped, unconfirmed>>

(* The first error is kept, except that a failed Destroy replaces it. *)
MainJoins ==
    /\ main = "joining"
    /\ \/ \E t \in {"receive", "write", "feed"} \ joined :
            /\ TaskDone(t)
            /\ joined' = joined \cup {t}
            /\ runResult' = IF runResult = "ok" \/ TaskResult(t) = "destroy"
                            THEN TaskResult(t) ELSE runResult
            /\ UNCHANGED main
       \/ /\ joined = {"receive", "write", "feed"}
          /\ main' = "dropping"
          /\ UNCHANGED <<joined, runResult>>
    /\ UNCHANGED <<mainFrame, stateVars, lease, geometry, source, receiver, writer,
                   feeder, stopped, unconfirmed>>

(* The last reference to the lease goes off the IO thread; its drop may    *)
(* panic.                                                                  *)
MainDropsLease ==
    /\ main = "dropping"
    /\ main' = "finishing"
    /\ \/ /\ lease' = "released"
          /\ UNCHANGED <<unconfirmed, runResult>>
       \/ /\ lease' = "lost"
          /\ unconfirmed' = TRUE
          /\ runResult' = IF runResult = "ok" THEN "error" ELSE runResult
    /\ UNCHANGED <<mainFrame, joined, stateVars, geometry, source, receiver, writer,
                   feeder, stopped>>

(* finish(): the result, then the notification. *)
MainFinishes ==
    /\ main = "finishing"
    /\ main' = "notifying"
    /\ authenticated' = FALSE
    /\ finished' = CASE ~unconfirmed -> "ok"
                     [] unconfirmed /\ runResult = "destroy" -> "destroy"
                     [] OTHER -> "unconfirmed"
    /\ UNCHANGED <<joined, runResult, lease, cancel, geometry, receiveVars, slots,
                   bytes, video, writer, feeder, observer, decoderVars, pushedBefore,
                   unconfirmed, closeVars>>

MainNotifiesPolledOnly ==       \* mutant
    /\ main = "notifying"
    /\ main' = "done"
    /\ notified' = (closer = "waiting")
    /\ UNCHANGED <<joined, runResult, lease, stateVars, geometry, receiveVars, slots,
                   bytes, video, writer, feeder, observer, decoderVars, pushedBefore,
                   unconfirmed, finished, closer>>

(* notify_waiters() reaches whoever has registered. *)
MainNotifies ==
    /\ main = "notifying"
    /\ main' = "done"
    /\ notified' = (closer \in {"registered", "checked", "waiting"})
    /\ UNCHANGED <<joined, runResult, lease, stateVars, geometry, receiveVars, slots,
                   bytes, video, writer, feeder, observer, decoderVars, pushedBefore,
                   unconfirmed, finished, closer>>

----------------------------------------------------------------------------
MediaInit ==
    /\ main = "authenticating" /\ joined = {} /\ runResult = "ok"
    /\ cancel = FALSE /\ authenticated = FALSE /\ lease = "held"
    /\ geometry = NoContract /\ source = NoContract
    /\ receiver = [at |-> "idle", record |-> NoRecord]
    /\ slots = VideoRecords /\ bytes = VideoBytes /\ video = <<>>
    /\ writer = "idle"
    /\ feeder = [at |-> "idle", why |-> "end", result |-> "ok", closed |-> "ok",
                 record |-> NoRecord, contract |-> NoContract, current |-> NoContract]
    /\ observer = FALSE /\ native = "none" /\ stopped = FALSE
    /\ accepted = 0 /\ pushed = 0 /\ pushedBefore = 0 /\ pushedEver = 0
    /\ unconfirmed = FALSE /\ finished = "none"
    /\ closer = "idle" /\ notified = FALSE
    /\ records = 0 /\ switches = 0

ReceiverNext ==
    \/ ReceiverCancelled \/ ReceiverFails \/ ReceiverSwitches \/ ReceiverReads
    \/ ReceiverAdmits \/ ReceiverSends

FeederNext ==
    \/ FeederStops \/ FeederTakes \/ DecoderCloses \/ DecoderSettles
    \/ FeederReopens \/ DecoderOpens \/ FeederSubmits \/ FeederGivesUp

MainNext ==
    \/ MainAuthenticates \/ MainStarts \/ MainStops \/ MainJoins \/ MainDropsLease
    \/ MainFinishes \/ MainNotifies

UserNext ==
    \/ UserRequestsClose \/ CloserStarts \/ CloserRegisters \/ CloserChecks
    \/ CloserWaits \/ CloserWakes

MediaNext ==
    \/ ReceiverNext \/ WriterEnds \/ FeederNext \/ DecoderPushes \/ DecoderFails
    \/ MainNext \/ UserNext

(* The runtime polls tasks that are ready, and native and blocking calls   *)
(* return.  The peer and the user owe nothing, and the decoder does not    *)
(* owe the feeder any capacity.                                            *)
MediaFairness ==
    /\ WF_mediaVars(ReceiverCancelled)
    /\ WF_mediaVars(WriterEnds /\ cancel)
    /\ WF_mediaVars(FeederStops) /\ WF_mediaVars(FeederTakes)
    /\ WF_mediaVars(DecoderCloses) /\ WF_mediaVars(DecoderSettles)
    /\ WF_mediaVars(FeederReopens) /\ WF_mediaVars(DecoderOpens)
    /\ WF_mediaVars(FeederSubmits /\ feeder.record.units = 0)
    /\ WF_mediaVars(FeederGivesUp /\ (cancel \/ stopped))
    /\ WF_mediaVars(MainAuthenticates /\ cancel) /\ WF_mediaVars(MainStarts)
    /\ WF_mediaVars(MainStops) /\ WF_mediaVars(MainJoins)
    /\ WF_mediaVars(MainDropsLease) /\ WF_mediaVars(MainFinishes)
    /\ WF_mediaVars(MainNotifies)
    /\ WF_mediaVars(CloserRegisters) /\ WF_mediaVars(CloserChecks)
    /\ WF_mediaVars(CloserWaits) /\ WF_mediaVars(CloserWakes)

MediaSpec == MediaInit /\ [][MediaNext]_mediaVars /\ MediaFairness

----------------------------------------------------------------------------
(* close() reports Ok, on which the caller releases the Surface and its    *)
(* registry slot, exactly when no native decoder can still use the Surface *)
(* and the lease went: whatever the order of opens, switches, failures and *)
(* the close.  No network or authentication error alone holds the Surface  *)
(* back.                                                                   *)
ReleaseIsSafe ==
    finished # "none" =>
        /\ feeder.current = NoContract /\ ~observer
        /\ finished = "ok" <=> native # "quarantined" /\ lease = "released"

(* A failed Destroy is reported as such, also when the local close or a    *)
(* network error came first: the three tasks' results never hide it.       *)
DestroyFailureIsReported ==
    finished = "unconfirmed" =>
        lease = "lost" \/ (feeder.closed # "destroy" /\ feeder.result # "destroy")

(* The snapshot's pushed_units is exact at every moment: a decoder's units *)
(* are counted through its observer or after its close, never twice and    *)
(* never not at all.                                                       *)
PushedIsCountedOnce ==
    pushedBefore + (IF observer THEN pushed ELSE 0) = pushedEver

(* The geometry mouse events are mapped with may fall behind the peer's    *)
(* display: the feeder publishes that of the record in its hand after the  *)
(* receiver has published a newer one.  Once the decoder works on the      *)
(* peer's current display it is right again, whatever was queued before.   *)
GeometryCatchesUp ==
    (feeder.contract # NoContract /\ feeder.contract = source) => geometry = source

(* A unit only ever reaches a decoder that was opened for its codec and    *)
(* geometry, however the display switches while records are queued.        *)
FedToItsDecoder ==
    feeder.at = "feeding" =>
        feeder.current = feeder.record.contract /\ native = "live" /\ observer

(* Once asked to close, the viewer finishes: no blocked admission, full    *)
(* decoder, open in progress or stopped decoder keeps it.                  *)
CancelFinishes == cancel ~> (finished # "none")

(* A close() call returns: the notification cannot slip between its look   *)
(* at the result and its wait.                                             *)
CloseReturns == (closer # "idle") ~> (closer = "returned")

(* What the feeder and the closing of a session never get wrong together:  *)
(* the decoder is released before the surface is given back, a failure to  *)
(* destroy it is reported, every picture that was rendered is counted      *)
(* once, and a record reaches only the decoder of its own geometry         *)
(* (viewer.rs, feed, run_inner, finish).                                   *)
DecoderIsHandled ==
    /\ MediaTypeOK
    /\ ReleaseIsSafe /\ DestroyFailureIsReported /\ PushedIsCountedOnce /\ FedToItsDecoder
=============================================================================
