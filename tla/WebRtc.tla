------------------------------- MODULE WebRtc -------------------------------
(***************************************************************************)
(* The WebRTC transport (webrtc.rs of hbb_common): WebRTCStream::new, the  *)
(* cache SESSIONS it shares between calls, the handlers a peer connection  *)
(* runs on its own tasks, and the calls that send and read.                *)
(*                                                                         *)
(* A call of new with an offer answers it; a call without makes an offer.  *)
(* The peer connection it creates carries its name.  The webrtc crate and  *)
(* the network are external: a connection connects, is lost, comes back or *)
(* fails; handlers of one connection run one at a time.  Whether its       *)
(* close() waits for the state handler is the crate's business, so both    *)
(* are modelled (inline).  SDP, ICE servers and payloads are left out.     *)
(***************************************************************************)
EXTENDS Naturals, FiniteSets

CONSTANTS Tasks,    \* tasks that call new
          Users,    \* those that also use the stream
          Offers,   \* fingerprints of the offers that are answered
          MaxDrops, \* bound: times a connection is lost
          MaxOps    \* bound: sends and reads of a task

(* A fingerprint is that of one certificate: an offer that is answered is  *)
(* not one that a task of this side made.                                  *)
ASSUME WebRtcConstants ==
    /\ Users \subseteq Tasks /\ MaxDrops \in Nat /\ MaxOps \in Nat
    /\ Tasks \cap Offers = {} /\ "nobody" \notin Tasks
    /\ {"none", "garbled"} \cap (Offers \cup Tasks) = {}

VARIABLES inline,    \* close() of the crate waits for the state handler
          task,      \* each task: its call of new and what it got
          pc,        \* each peer connection, named after the task that made it
          sessions,  \* SESSIONS: key to peer connection
          holder,    \* task that holds SESSIONS across a close(), if any
          op         \* each task: its send or read

rtcVars == <<inline, task, pc, sessions, holder, op>>

NoOffer == "none"
Garbled == "garbled"   \* an endpoint that is none
Nobody == "nobody"
Ended == {"disconnected", "failed", "closed"}

NoPc == [state |-> "absent", role |-> "offer", described |-> FALSE, remote |-> FALSE,
         stream |-> "placeholder", open |-> FALSE, notified |-> FALSE, handler |-> "idle",
         drops |-> 0]

(* get_key_for_sdp: the fingerprint of whoever made the offer.             *)
KeyOfLocalIsEmpty(t) == task[t].offer  \* mutant

Key(t) == IF task[t].offer = NoOffer THEN t ELSE task[t].offer
Cached(k) == k \in DOMAIN sessions
Without(f, K) == [k \in DOMAIN f \ K |-> f[k]]
With(f, k, v) == [x \in DOMAIN f \cup {k} |-> IF x = k THEN v ELSE f[x]]

-----------------------------------------------------------------------------
(* get_remote_offer and get_key_for_sdp_json: prefix, base64, text, SDP.   *)
Parses(endpoint) == endpoint # Garbled

(* WebRTCStream::new, up to its first lock: an endpoint that does not      *)
(* parse is refused, an offer that is known gives the stream there is, and *)
(* otherwise a connection is made and its handlers are registered.         *)
New(t, offer) ==
    /\ task[t].step = "idle" /\ holder = Nobody
    /\ \/ /\ ~Parses(offer)
          /\ task' = [task EXCEPT ![t].step = "failed"]
          /\ UNCHANGED pc
       \/ /\ offer # NoOffer /\ Cached(offer)
          /\ task' = [task EXCEPT ![t].step = "done", ![t].offer = offer,
                                  ![t].got = sessions[offer]]
          /\ UNCHANGED pc
       \/ /\ Parses(offer) /\ (offer # NoOffer => ~Cached(offer))
          /\ task' = [task EXCEPT ![t].step = "describing", ![t].offer = offer]
          /\ pc' = [pc EXCEPT ![t] = [NoPc EXCEPT
                        !.state = "new",
                        !.role = IF offer = NoOffer THEN "offer" ELSE "answer",
                        !.stream = IF offer = NoOffer THEN "real" ELSE "placeholder"]]
    /\ UNCHANGED <<inline, sessions, holder, op>>

(* The descriptions are set and the candidates gathered.  An error leaves  *)
(* new without closing the connection.                                     *)
Describe(t) ==
    /\ task[t].step = "describing"
    /\ \/ /\ task' = [task EXCEPT ![t].step = "inserting"]
          /\ pc' = [pc EXCEPT ![t].described = TRUE, ![t].remote = (pc[t].role = "answer")]
       \/ /\ task' = [task EXCEPT ![t].step = "failed"]
          /\ UNCHANGED pc
    /\ UNCHANGED <<inline, sessions, holder, op>>

(* The state handler is due after a change to one of Ended; the drops of   *)
(* a connection are counted for MaxDrops.                                  *)
ChangedTo(p, s) == [p EXCEPT !.state = s, !.handler = IF s \in Ended THEN "ending" ELSE "idle"]
Lost(p) == [ChangedTo(p, "disconnected") EXCEPT !.drops = p.drops + 1]
Close(p) == IF p.state = "closed" THEN p ELSE ChangedTo(p, "closed")

(* The second lock of new: a stream that came first is given instead, and  *)
(* the connection closed with SESSIONS held; else the stream is stored.    *)
Insert(t) ==
    /\ task[t].step = "inserting" /\ holder = Nobody
    /\ IF Cached(Key(t))
       THEN /\ pc[t].handler = "idle"
            /\ pc' = [pc EXCEPT ![t] = Close(@)]
            /\ IF inline
               THEN /\ holder' = t
                    /\ task' = [task EXCEPT ![t].step = "closing"]
               ELSE /\ task' = [task EXCEPT ![t].step = "done", ![t].got = sessions[Key(t)]]
                    /\ UNCHANGED holder
            /\ UNCHANGED sessions
       ELSE /\ sessions' = With(sessions, Key(t), t)
            /\ task' = [task EXCEPT ![t].step = "done", ![t].got = t]
            /\ UNCHANGED <<pc, holder>>
    /\ UNCHANGED <<inline, op>>

(* set_remote_endpoint: the answer to an offer of this side.               *)
SetRemote(t) ==
    /\ task[t].step = "done" /\ ~pc[task[t].got].remote
    /\ pc' = [pc EXCEPT ![task[t].got].remote = TRUE]
    /\ UNCHANGED <<inline, task, sessions, holder, op>>

-----------------------------------------------------------------------------
(* The network and the crate.                                              *)
NetworkChange(p) ==
    /\ pc[p].described /\ pc[p].remote /\ pc[p].handler = "idle"
    /\ \/ /\ pc[p].state \in {"new", "disconnected"}
          /\ pc' = [pc EXCEPT ![p] = ChangedTo(@, "connected")]
       \/ /\ pc[p].state = "connected" /\ pc[p].drops < MaxDrops
          /\ pc' = [pc EXCEPT ![p] = Lost(@)]
       \/ /\ pc[p].state \in {"new", "disconnected"}
          /\ pc' = [pc EXCEPT ![p] = ChangedTo(@, "failed")]
    /\ UNCHANGED <<inline, task, sessions, holder, op>>

(* on_data_channel: the channel the peer made takes the placeholder's      *)
(* place, and only then is its open handler registered.                    *)
OnDataChannel(p) ==
    /\ pc[p].role = "answer" /\ pc[p].state = "connected" /\ pc[p].stream = "placeholder"
    /\ pc' = [pc EXCEPT ![p].stream = "real"]
    /\ UNCHANGED <<inline, task, sessions, holder, op>>

(* on_open.                                                                *)
OnOpenAnyTime(p) ==  \* mutant
    /\ pc[p].state = "connected" /\ ~pc[p].open
    /\ pc' = [pc EXCEPT ![p].open = TRUE, ![p].notified = TRUE]
    /\ UNCHANGED <<inline, task, sessions, holder, op>>

OnOpen(p) ==
    /\ pc[p].state = "connected" /\ pc[p].stream = "real" /\ ~pc[p].open
    /\ pc' = [pc EXCEPT ![p].open = TRUE, ![p].notified = TRUE]
    /\ UNCHANGED <<inline, task, sessions, holder, op>>

(* on_peer_connection_state_change, for a connection that ended: waiters   *)
(* are woken and the channel is closed ...                                 *)
OnEndedSilently(p) ==  \* mutant
    /\ pc[p].handler = "ending"
    /\ pc' = [pc EXCEPT ![p].stream = IF @ = "real" THEN "closed" ELSE @,
                        ![p].handler = "cleaning"]
    /\ UNCHANGED <<inline, task, sessions, holder, op>>

OnEnded(p) ==
    /\ pc[p].handler = "ending"
    /\ pc' = [pc EXCEPT ![p].notified = TRUE,
                        ![p].stream = IF @ = "real" THEN "closed" ELSE @,
                        ![p].handler = "cleaning"]
    /\ UNCHANGED <<inline, task, sessions, holder, op>>

(* ... then the cache is cleaned by key, or by connection when there is no *)
(* description yet to take the key from.                                   *)
CleansUp(p) == IF pc[p].described THEN {Key(p)} ELSE {k \in DOMAIN sessions : sessions[k] = p}
OnEndedCleans(p) ==
    /\ pc[p].handler = "cleaning" /\ holder = Nobody
    /\ sessions' = Without(sessions, CleansUp(p))
    /\ pc' = [pc EXCEPT ![p].handler = "idle"]
    /\ UNCHANGED <<inline, task, holder, op>>

-----------------------------------------------------------------------------
(* send_bytes and next.                                                    *)
Call(t, kind) ==
    /\ t \in Users /\ task[t].step = "done" /\ op[t].step # "waiting" /\ op[t].step # "woken"
    /\ op[t].count < MaxOps
    /\ op' = [op EXCEPT ![t] = [step |-> "waiting", kind |-> kind, count |-> @.count + 1]]
    /\ UNCHANGED <<inline, task, pc, sessions, holder>>

(* wait_for_connect_result: the value, or the next change of it.           *)
Wake(t) ==
    /\ op[t].step = "waiting" /\ pc[task[t].got].notified
    /\ op' = [op EXCEPT ![t].step = "woken"]
    /\ UNCHANGED <<inline, task, pc, sessions, holder>>

(* The channel is taken and used: send fails when it is not open, next     *)
(* also closes the connection when reading fails; a placeholder does not   *)
(* detach.                                                                 *)
Use(t) ==
    LET p == task[t].got IN
    /\ op[t].step = "woken"
    /\ \/ /\ pc[p].stream = "real" /\ pc[p].open
          /\ op' = [op EXCEPT ![t].step = "ok"] /\ UNCHANGED pc
       \/ /\ pc[p].stream = "closed" \/ ~pc[p].open
          /\ op' = [op EXCEPT ![t].step = "failed"]
          /\ IF op[t].kind = "read" /\ pc[p].stream # "placeholder"
             THEN pc[p].handler = "idle" /\ pc' = [pc EXCEPT ![p] = Close(@)]
             ELSE UNCHANGED pc
       \/ /\ pc[p].stream = "placeholder" /\ pc[p].open
          /\ op' = [op EXCEPT ![t].step = "misused"] /\ UNCHANGED pc
    /\ UNCHANGED <<inline, task, sessions, holder>>

(* The timeout of a send that waits: the connection is closed.             *)
SendTimesOut(t) ==
    /\ op[t].step = "waiting" /\ op[t].kind = "send" /\ ~pc[task[t].got].notified
    /\ pc[task[t].got].handler = "idle"
    /\ op' = [op EXCEPT ![t].step = "failed"]
    /\ pc' = [pc EXCEPT ![task[t].got] = Close(@)]
    /\ UNCHANGED <<inline, task, sessions, holder>>

-----------------------------------------------------------------------------
RtcInit ==
    /\ inline \in BOOLEAN
    /\ task = [t \in Tasks |-> [step |-> "idle", offer |-> NoOffer, got |-> Nobody]]
    /\ pc = [t \in Tasks |-> NoPc]
    /\ sessions = <<>> /\ holder = Nobody
    /\ op = [t \in Tasks |-> [step |-> "none", kind |-> "send", count |-> 0]]

RtcNext ==
    \E t \in Tasks :
        \/ \E offer \in Offers \cup {NoOffer, Garbled} : New(t, offer)
        \/ Describe(t) \/ Insert(t) \/ SetRemote(t)
        \/ NetworkChange(t) \/ OnDataChannel(t) \/ OnOpen(t) \/ OnEnded(t) \/ OnEndedCleans(t)
        \/ \E kind \in {"send", "read"} : Call(t, kind)
        \/ Wake(t) \/ Use(t) \/ SendTimesOut(t)

(* Tasks and handlers are run by the executor.                             *)
RtcFairness == \A t \in Tasks : WF_rtcVars(OnEnded(t)) /\ WF_rtcVars(Wake(t))
RtcSpec == RtcInit /\ [][RtcNext]_rtcVars /\ RtcFairness

-----------------------------------------------------------------------------
RtcTypeOK ==
    /\ \A t \in Tasks : task[t].got \in Tasks \cup {Nobody} /\ pc[t].drops \in 0..MaxDrops
    /\ \A k \in DOMAIN sessions : sessions[k] \in Tasks
    /\ holder \in Tasks \cup {Nobody}

(* A call of new gives the connection it made, or, when it answers an      *)
(* offer, one that another call made for the same offer, be it found in    *)
(* the cache or given to the call that lost the race.  It is described.    *)
StreamIsToPeer ==
    \A t \in Tasks :
        task[t].got # Nobody =>
            /\ task[t].got # t => task[t].offer # NoOffer /\ task[task[t].got].offer = task[t].offer
            /\ pc[task[t].got].described

(* A task never sends into the placeholder channel once its connection is  *)
(* open.                                                                   *)
ChannelIsReal == \A t \in Tasks : op[t].step # "misused"

(* A task that waits for its connection wakes once its channel is open and *)
(* once the connection has ended, whichever task closed it.                *)
WaitersWake ==
    \A t \in Users :
        (/\ op[t].step = "waiting"
         /\ pc[task[t].got].open \/ pc[task[t].got].state \in Ended)
        ~> op[t].step # "waiting"

=============================================================================
