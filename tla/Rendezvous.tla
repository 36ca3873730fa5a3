----------------------------- MODULE Rendezvous -----------------------------
(***************************************************************************)
(* One dial through the rendezvous server: connect_viewer of               *)
(* crates/rd-engine/src/rendezvous.rs, with the mangled addresses of       *)
(* libs/hbb_common/src/lib.rs, and the targeted LAN probe beside it.       *)
(*                                                                         *)
(* The viewer asks hbbs for a peer up to three times on one control wire,  *)
(* dials the address it is told from the same local port, falls back to a  *)
(* relay asked for on a new control wire, and in the end runs the pinned   *)
(* handshake with whoever answers.  The whole dial runs under one          *)
(* deadline.  Time is counted in units of three seconds.                   *)
(*                                                                         *)
(* hbbs, hbbr and the network are external.  Records of the control wire   *)
(* are not authenticated: with honest = FALSE they say anything but cannot *)
(* hold a certificate that hbbs never signed.  An honest hbbs answers every*)
(* request, late or not at all, and says hello with one KeyExchange.       *)
(***************************************************************************)
EXTENDS Naturals, Sequences, FiniteSetsExt

CONSTANTS PortValues,    \* values of a port: 2^16 in the code, 4 in the model
          MaskFields,    \* fields the port mask of decode spans: 2^7, here 2
          Deadlines,     \* connect_timeout, in units of 3 s
          Addresses,     \* the addresses a peer may have
          Stamps,        \* clock readings AddrMangle mixes in
          MaxDatagrams   \* datagrams a LAN probe looks at: 64 in the code

ASSUME RendezvousConstants ==
    /\ PortValues \in Nat \ {0} /\ MaskFields \in Nat \ {0}
    /\ Deadlines \subseteq Nat /\ MaxDatagrams \in Nat
    /\ Addresses \subseteq [ip : 1..(PortValues * PortValues - 1), port : 1..(PortValues - 1)]
    /\ Stamps \subseteq 0..(PortValues * PortValues - 1)

VARIABLES net,      \* honest, the peer's address, whether the peer has a relay
          config,   \* the trust anchor's deadline and the relay override
          now,      \* time since connect_viewer was called
          dial,     \* the dial in progress
          answers,  \* control records not read yet
          owed,     \* requests on this wire that hbbs has not answered
          outcome,  \* the result of connect_viewer
          lan       \* the LAN probe

dialVars == <<net, config, now, dial, answers, owed, outcome, lan>>

Asked == "asked"        \* the id the viewer dials
Other == "other"        \* a host registered under another id
Hosts == {Asked, Other} \* a host's signing key is named after it
Forged == [id |-> Asked, key |-> Other, signer |-> "anyone"]
Certificates == {[id |-> h, key |-> h, signer |-> "hbbs"] : h \in Hosts}
NoCertificate == [id |-> "", key |-> "", signer |-> "none"]

-----------------------------------------------------------------------------
(* AddrMangle: the address, hidden under a clock reading.  A shift by k    *)
(* bits multiplies by 2^k; the three fields of a number do not overlap.    *)

FieldValues == 2 * PortValues             \* 17 bits: a port and a salt
StampValues == PortValues * PortValues    \* 32 bits: an address, a clock

Encode(a, stamp) ==
    (a.ip + stamp) * (StampValues * FieldValues)
        + stamp * FieldValues + (a.port + (stamp % PortValues))

SumOf(n) == n \div (StampValues * FieldValues)
StampOf(n) == (n \div FieldValues) % StampValues
Salt(n) == StampOf(n) % PortValues

(* decode: subtracts unchecked; its port mask is wider than the field and  *)
(* takes bits of the stamp along, which the cast to u16 drops.             *)
Decode(n) ==
    [ip |-> (SumOf(n) - StampOf(n)) % StampValues,
     port |-> ((n % (MaskFields * FieldValues)) - Salt(n)) % PortValues]

(* peer_address: what must hold before decode may run.  The address it     *)
(* leads to is not 0.0.0.0 (valid_address).                                *)
IsAddress(n, port) ==
    /\ SumOf(n) >= StampOf(n) /\ port > Salt(n)
    /\ SumOf(n) - StampOf(n) < StampValues /\ port - Salt(n) < PortValues
    /\ SumOf(n) # StampOf(n)

\* mutant
DecodableWideMask(n) == IsAddress(n, n % (MaskFields * FieldValues))

Decodable(n) == IsAddress(n, n % FieldValues)

-----------------------------------------------------------------------------
(* The records of a control wire.                                          *)

Records == [kind : {"key_exchange", "punch", "relay", "else"},
            refused : BOOLEAN, udp : BOOLEAN, pk : Certificates \cup {Forged, NoCertificate},
            addr : Nat, relay : BOOLEAN, uuid : {"", "ours", "theirs", "junk"}]

Plain(kind) == [kind |-> kind, refused |-> FALSE, udp |-> FALSE, pk |-> NoCertificate,
                addr |-> 0, relay |-> FALSE, uuid |-> ""]
Refusal(kind) == [kind |-> kind, refused |-> TRUE, udp |-> FALSE, pk |-> NoCertificate,
                  addr |-> 0, relay |-> FALSE, uuid |-> ""]
Punches(pks, addrs, relays, udps) ==
    [kind : {"punch"}, refused : {FALSE}, udp : udps, pk : pks,
     addr : addrs, relay : relays, uuid : {""}]
Relays(pks, relays, uuids) ==
    [kind : {"relay"}, refused : {FALSE}, udp : {FALSE}, pk : pks,
     addr : {0}, relay : relays, uuid : uuids]
Hello == Plain("key_exchange")
Genuine == CHOOSE c \in Certificates : c.id = Asked

(* What an honest hbbs answers to a punch request and to a relay request.  *)
PunchAnswers ==
    Punches({Genuine}, {Encode(net.addr, s) : s \in Stamps}, {net.relay}, {FALSE})
    \cup Relays({Genuine}, {TRUE}, {"theirs"}) \cup {Refusal("punch")}
RelayAnswers ==
    Relays({Genuine, NoCertificate}, {TRUE}, {"", "ours"}) \cup {Refusal("relay")}

(* Anything else that can be on the wire.                                  *)
AnyRecords ==
    {Hello, Plain("else")}
    \cup Punches(Certificates \cup {Forged, NoCertificate}, {0, StampValues}, BOOLEAN, BOOLEAN)
    \cup Punches(Certificates \cup {Forged}, {Encode(net.addr, 1)}, BOOLEAN, {FALSE})
    \cup Relays(Certificates \cup {Forged, NoCertificate}, BOOLEAN,
                {"", "ours", "theirs", "junk"})

-----------------------------------------------------------------------------
NoKey == ""
Steps == {"start", "dial_hbbs", "await_punch", "punch", "dial_again", "await_relay",
          "dial_hbbr", "handshake", "done"}
AwaitingRecord == {"await_punch", "await_relay"}
Dialling == {"dial_hbbs", "punch", "dial_again", "dial_hbbr"}

Pending == [result |-> "pending", end |-> "", route |-> ""]

Nowhere == [ip |-> 0, port |-> 0]
Idle(step) == [step |-> step, attempt |-> 0, skipped |-> 0, until |-> 0,
               key |-> NoKey, relay |-> FALSE, remote |-> Nowhere, end |-> "",
               route |-> "", punchedAt |-> 0, relayAt |-> 0]

(* The type of the dial.                                                   *)
DialTypeOK ==
    /\ config.deadline \in Deadlines /\ config.valid \in BOOLEAN /\ now <= config.deadline
    /\ dial.step \in Steps /\ dial.attempt \in 0..3 /\ dial.skipped \in 0..1
    /\ dial.until \in Nat /\ dial.key \in Hosts \cup {NoKey}
    /\ answers \in Seq(Records) /\ owed \in 0..3
    /\ outcome.result \in {"pending", "ok", "time", "unreachable", "refused", "invalid"}
    /\ lan.step \in {"idle", "probing", "answered", "failed"}
    /\ lan.seen \in 0..MaxDatagrams

(* Server names as the tests of endpoint tell them apart: an address with  *)
(* a port, an address alone, one in brackets, or a DNS name.               *)
ServerNames == [blank : BOOLEAN, form : {"socket", "ip", "bracketed", "dns"},
                host : {"usable", "unspecified", "malformed"}, port : {"none", "zero", "given"}]
valid_address(host, port) == host = "usable" /\ port # "zero"

(* endpoint: no blanks; an address without a port gets the default one; a  *)
(* DNS name has well-formed labels and a port, if any, other than zero.    *)
endpoint(name) ==
    /\ ~name.blank /\ name.host # "malformed"
    /\ CASE name.form = "socket" -> name.port # "none" /\ valid_address(name.host, name.port)
         [] name.form \in {"ip", "bracketed"} -> valid_address(name.host, "default")
         [] name.form = "dns" -> name.port # "zero"

RendezvousInit ==
    /\ \E h, r \in BOOLEAN, a \in Addresses : net = [honest |-> h, relay |-> r, addr |-> a]
    /\ \E d \in Deadlines, server \in ServerNames, o \in BOOLEAN :
          config = [deadline |-> d, valid |-> endpoint(server), override |-> o]
    /\ now = 0 /\ answers = <<>> /\ owed = 0 /\ outcome = Pending
    /\ dial = Idle("start")
    /\ lan = [step |-> "idle", seen |-> 0]

Remaining == config.deadline - now
Half(t) == t \div 2
Least(a, b) == Min({a, b})

Ends(result) ==
    /\ dial' = Idle("done")
    /\ outcome' = [Pending EXCEPT !.result = result]
    /\ answers' = <<>> /\ owed' = 0
    /\ UNCHANGED <<net, config, now, lan>>

(* connect_viewer: an invalid configuration is refused before any dial.    *)
ServerDialBudget == now + Least(Half(Remaining), 1)
ConnectViewer ==
    /\ dial.step = "start" /\ lan.step # "probing"
    /\ IF config.valid /\ config.deadline # 0
       THEN /\ dial' = [dial EXCEPT !.step = "dial_hbbs", !.until = ServerDialBudget]
            /\ UNCHANGED <<net, config, now, answers, owed, outcome, lan>>
       ELSE Ends("refused")

(* The control wire is up: hbbs may say hello, the request goes out.       *)
AttemptBudget(attempt) == now + attempt
PunchRequested ==
    /\ dial.step = "dial_hbbs"
    /\ answers' \in {<<>>, <<Hello>>} /\ owed' = 1
    /\ dial' = [dial EXCEPT !.step = "await_punch", !.attempt = 1,
                            !.until = AttemptBudget(1), !.skipped = 0]
    /\ UNCHANGED <<net, config, now, outcome, lan>>

(* External: hbbs answers a request it still owes, or the wire carries     *)
(* something else.  Records that say anything come one at a time: only the *)
(* next one to be read can matter.                                         *)
HbbsAnswers ==
    /\ dial.step \in AwaitingRecord /\ owed > 0
    /\ net.honest \/ answers = <<>>
    /\ owed' = owed - 1
    /\ \E r \in IF ~net.honest THEN AnyRecords
                ELSE IF dial.step = "await_punch" THEN PunchAnswers ELSE RelayAnswers :
          answers' = Append(answers, r)
    /\ UNCHANGED <<net, config, now, dial, outcome, lan>>

(* External: hbbs closes the control wire.                                 *)
HbbsCloses == dial.step \in AwaitingRecord /\ answers = <<>> /\ Ends("unreachable")

(* receive: one KeyExchange is skipped, a second is refused.               *)
SkipKeyExchange ==
    /\ dial.step \in AwaitingRecord /\ answers # <<>> /\ Head(answers).kind = "key_exchange"
    /\ IF dial.skipped = 1 THEN Ends("invalid")
       ELSE /\ dial' = [dial EXCEPT !.skipped = 1] /\ answers' = Tail(answers)
            /\ UNCHANGED <<net, config, now, owed, outcome, lan>>

(* The receive of one attempt times out: the same request once more on the *)
(* same wire, three times in all.                                          *)
AskAgain ==
    /\ dial.step = "await_punch" /\ now >= dial.until /\ now < config.deadline
    /\ answers = <<>>
    /\ IF dial.attempt = 3 THEN Ends("time")
       ELSE /\ owed' = Least(owed + 1, 3)
            /\ dial' = [dial EXCEPT !.attempt = @ + 1, !.skipped = 0,
                                    !.until = AttemptBudget(dial.attempt + 1)]
            /\ UNCHANGED <<net, config, now, answers, outcome, lan>>

(* peer_key: signed by hbbs, and for the id that was asked.                *)
\* mutant
CertifiesAnyone(pk) == pk.signer = "hbbs"

Certifies(pk) == pk.signer = "hbbs" /\ pk.id = Asked

(* With a relay in hand the hole punch gets half of what is left, one unit *)
(* at most; without one it gets everything.                                *)
\* mutant
PunchBudgetWhole(relay) == Remaining

PunchBudget(relay) == IF relay THEN Least(Half(Remaining), 1) ELSE Remaining

Read(kind) ==
    /\ answers # <<>> /\ Head(answers).kind = kind

(* The control wire is dropped, and with it what was not read.             *)
\* mutant
DropsOneRecord == answers' = Tail(answers) /\ owed' = owed

Drops == answers' = <<>> /\ owed' = 0

PunchHoleResponse ==
    LET r == Head(answers)
        relay == config.override \/ r.relay IN
    /\ dial.step = "await_punch" /\ Read("punch")
    /\ IF r.refused THEN Ends("refused")
       ELSE IF r.udp \/ ~Certifies(r.pk) \/ ~Decodable(r.addr) THEN Ends("invalid")
       ELSE /\ dial' = [dial EXCEPT !.step = "punch", !.key = r.pk.key, !.relay = relay,
                          !.remote = Decode(r.addr), !.punchedAt = now,
                          !.until = now + PunchBudget(relay)]
            /\ Drops /\ UNCHANGED <<net, config, now, outcome, lan>>

(* hbbs chose the relay itself: its uuid is used.                          *)
RelayResponse ==
    LET r == Head(answers) IN
    /\ dial.step = "await_punch" /\ Read("relay")
    /\ IF r.refused THEN Ends("refused")
       ELSE IF ~Certifies(r.pk) \/ ~(config.override \/ r.relay)
               \/ r.uuid \in {"", "junk"}
       THEN Ends("invalid")
       ELSE /\ dial' = [dial EXCEPT !.step = "dial_hbbr", !.key = r.pk.key,
                                    !.until = ServerDialBudget]
            /\ Drops /\ UNCHANGED <<net, config, now, outcome, lan>>

Unexpected ==
    /\ \/ dial.step = "await_punch" /\ Read("else")
       \/ dial.step = "await_relay" /\ answers # <<>>
            /\ Head(answers).kind \in {"else", "punch"}
    /\ Ends("invalid")

-----------------------------------------------------------------------------
(* A dial succeeds: who is at the other end is the network's doing.  An    *)
(* honest server's address and uuid lead to the peer itself.               *)
Reached == IF net.honest THEN {Asked} ELSE Hosts

Connected(route) ==
    /\ \E h \in Reached : dial' = [dial EXCEPT !.step = "handshake", !.end = h, !.route = route]
    /\ UNCHANGED <<net, config, now, answers, owed, outcome, lan>>

PunchConnects == dial.step = "punch" /\ Connected("punch")

(* join_relay: hbbr pairs by uuid and acknowledges nothing; the next       *)
(* record is the peer's own.                                               *)
RelayJoined == dial.step = "dial_hbbr" /\ Connected("relay")

(* The punch fails, or its budget is spent: request_relay dials hbbs anew. *)
PunchFails ==
    /\ dial.step = "punch"
    /\ IF dial.relay
       THEN /\ dial' = [dial EXCEPT !.step = "dial_again", !.until = ServerDialBudget,
                                    !.relayAt = now]
            /\ UNCHANGED <<net, config, now, answers, owed, outcome, lan>>
       ELSE Ends("unreachable")

(* The new control wire carries the relay request with a uuid of our own.  *)
(* Nothing is left of the first wire: it was dropped before the punch.     *)
RelayRequested ==
    /\ dial.step = "dial_again"
    /\ \E hello \in {<<>>, <<Hello>>} : answers' = answers \o hello
    /\ owed' = owed + 1
    /\ dial' = [dial EXCEPT !.step = "await_relay", !.skipped = 0, !.until = config.deadline]
    /\ UNCHANGED <<net, config, now, outcome, lan>>

(* The acknowledgement may leave uuid and key out, never contradict.       *)
Contradicts(r) ==
    \/ r.uuid \notin {"", "ours"}
    \/ r.pk # NoCertificate /\ (~Certifies(r.pk) \/ r.pk.key # dial.key)
RelayAcknowledged ==
    /\ dial.step = "await_relay" /\ Read("relay")
    /\ IF Head(answers).refused \/ Contradicts(Head(answers))
       THEN Ends(IF Head(answers).refused THEN "refused" ELSE "invalid")
       ELSE /\ dial' = [dial EXCEPT !.step = "dial_hbbr", !.until = ServerDialBudget]
            /\ Drops /\ UNCHANGED <<net, config, now, outcome, lan>>

(* A server that cannot be dialled, at once or at the end of its budget.   *)
ServerUnreachable == dial.step \in Dialling \ {"punch"} /\ Ends("unreachable")

(* finish: the host signs the name it claims, its own or the asked one,    *)
(* and passes with the key hbbs certified and the asked name.  There is no *)
(* unverified fallback.                                                    *)
Proves(host, name) == host = dial.key /\ name = Asked

KeyHandshake ==
    /\ dial.step = "handshake"
    /\ \E name \in {dial.end, Asked} :
          IF Proves(dial.end, name)
          THEN /\ dial' = Idle("done")
               /\ outcome' = [result |-> "ok", end |-> dial.end, route |-> dial.route]
               /\ UNCHANGED <<net, config, now, answers, owed, lan>>
          ELSE Ends("invalid")

(* timeout_at(deadline, connect): whatever the dial waits for, it ends.    *)
\* mutant
OverdueButHandshake == now >= config.deadline /\ dial.step # "handshake"

Overdue == now >= config.deadline

DeadlinePasses == dial.step \notin {"start", "done"} /\ Overdue /\ Ends("time")

(* A unit goes by;   no timer that is due is left behind.                  *)
Tick ==
    /\ dial.step \notin {"start", "done"} /\ now < config.deadline
    /\ dial.step \in Dialling \cup {"await_punch"} => now < dial.until
    /\ now' = now + 1
    /\ UNCHANGED <<net, config, dial, answers, owed, outcome, lan>>

-----------------------------------------------------------------------------
(* discover_peer, before a dial: one probe, a bounded number of datagrams. *)
DiscoverPeer == /\ lan.step = "idle" /\ dial.step = "start" /\ lan' = [lan EXCEPT !.step = "probing"]
                /\ UNCHANGED <<net, config, now, dial, answers, owed, outcome>>

(* A datagram of another origin, too long or ill formed is passed over.    *)
Datagram(good) ==
    /\ lan.step = "probing" /\ lan.seen < MaxDatagrams
    /\ lan' = IF good THEN [step |-> "answered", seen |-> 0]
              ELSE [lan EXCEPT !.seen = @ + 1]
    /\ UNCHANGED <<net, config, now, dial, answers, owed, outcome>>

ProbeEnds ==
    /\ lan.step = "probing" /\ lan' = [step |-> "failed", seen |-> 0]
    /\ UNCHANGED <<net, config, now, dial, answers, owed, outcome>>

-----------------------------------------------------------------------------
RendezvousNext ==
    \/ ConnectViewer \/ PunchRequested \/ HbbsAnswers \/ HbbsCloses
    \/ SkipKeyExchange \/ AskAgain \/ PunchHoleResponse \/ RelayResponse
    \/ Unexpected \/ PunchConnects \/ RelayJoined \/ PunchFails
    \/ RelayRequested \/ RelayAcknowledged \/ ServerUnreachable \/ KeyHandshake
    \/ DeadlinePasses \/ Tick
    \/ DiscoverPeer \/ (\E good \in BOOLEAN : Datagram(good)) \/ ProbeEnds

(* The task's own steps: a record that has arrived is read, and what needs *)
(* no answer is done or fails.                                             *)
DialTask == \/ SkipKeyExchange \/ PunchHoleResponse \/ RelayResponse
            \/ Unexpected \/ RelayAcknowledged
            \/ AskAgain \/ ConnectViewer \/ PunchFails \/ ServerUnreachable

(* Time passes, the timers of the runtime fire and the task runs.  Nothing *)
(* is assumed of the network or of the servers.                            *)
RendezvousFairness ==
    WF_dialVars(Tick) /\ WF_dialVars(DeadlinePasses) /\ WF_dialVars(DialTask)

RendezvousSpec == RendezvousInit /\ [][RendezvousNext]_dialVars /\ RendezvousFairness

-----------------------------------------------------------------------------
(* connect_viewer succeeds only with a host that proved the key hbbs       *)
(* signed for the asked id, whatever the control wire carried and whoever  *)
(* the network connected us to.                                            *)
EstablishedIsAsked == outcome.result = "ok" => outcome.end = Asked

(* Against honest servers a dial never fails for what it read: a late      *)
(* answer to an earlier punch request, the hello of a wire, an             *)
(* acknowledgement without uuid or key, and every address the server can   *)
(* encode are all understood, and the hole is punched where the peer is.   *)
HonestIsUnderstood ==
    net.honest => /\ outcome.result # "invalid"
                  /\ dial.step = "punch" => dial.remote = net.addr

(* A silent peer address never eats the time of a relay that is known: the *)
(* relay is asked for with at least half of what was left.                 *)
RelayKeepsHalf ==
    dial.relayAt # 0 \/ dial.step \in {"dial_again", "await_relay"} =>
        2 * (config.deadline - dial.relayAt) >= config.deadline - dial.punchedAt

(* The caller is told by the deadline, whoever stays silent.               *)
DialEnds == (dial.step # "start") ~> (dial.step = "done")
=============================================================================
