------------------------------ MODULE SecureWire ------------------------------
(***************************************************************************)
(* One connection from the first byte to the media transport: the key      *)
(* handshake of crates/rd-engine/src/handshake.rs, the unsplit wire that   *)
(* session.rs keeps in SessionIo, and the two halves that transport.rs     *)
(* makes of it, with the cipher counters of libs/hbb_common/src/tcp.rs.    *)
(*                                                                         *)
(* Two peers that follow the code talk over a byte stream that delivers in *)
(* order and may end at any time.  What they are configured with need not  *)
(* match.  The session between them is reduced to the records that move    *)
(* the wire: Hash, login, the accepting PeerInfo, the permission reports   *)
(* that follow it (as one), then data of either size.                      *)
(***************************************************************************)
EXTENDS Naturals, Sequences

CONSTANTS
    MaxRecords,         \* bound: session records each peer sends
    MaxInFlight         \* bound: records the stream holds per direction

ASSUME SecureWireAssumption == MaxRecords \in Nat /\ MaxInFlight \in Nat \ {0}

VARIABLES
    keys,             \* identities and what verifying them will find
    stage, security, cipher, prefetched, sending, alive, link,
    why,                \* why a peer ended
    said, got           \* session records sent, and received (history)

sessionVars == <<said, got>>
secureVars == <<keys, stage, security, cipher, prefetched, sending, alive, link,
                why, said, got>>

Peers == {"host", "viewer"}
OtherEnd(p) == IF p = "host" THEN "viewer" ELSE "host"

(* ViewerIdentity and HostIdentity; whether a rendezvous server's evidence *)
(* verifies, whether the host's SignedId does, and whether its id is the   *)
(* one expected.                                                           *)
Configs == [viewer : {"LegacyUnverified", "PinnedHost", "Rendezvous"},
            host : {"LegacyPlain", "Signed"},
            evidence : BOOLEAN, signature : BOOLEAN, sameId : BOOLEAN]

Securities == {"none", "LegacyPlain", "RefreshKey", "Encrypted"}
Kinds == {"SignedId", "PublicKey", "EmptyKey", "Empty", "Hash", "Login", "PeerInfo",
          "Permission", "Data", "partial"}
WireRecords == [kind : Kinds, n : Nat, sealed : BOOLEAN, nonce : Nat, large : BOOLEAN]
PlainRecord(kind) ==
    [kind |-> kind, n |-> 0, sealed |-> FALSE, nonce |-> 0, large |-> FALSE]
NoRecord == PlainRecord("partial")

SecureTypeOK ==
    /\ keys \in Configs
    /\ stage \in [Peers -> {"start", "await", "session", "split", "ended"}]
    /\ security \in [Peers -> Securities]
    /\ cipher \in [Peers -> [on : BOOLEAN, enc : Nat, dec : Nat]]
    /\ prefetched \in WireRecords /\ prefetched.kind \in {"Hash", "partial"}
    /\ sending \in [Peers -> WireRecords]
    /\ alive \in [Peers -> BOOLEAN]
    /\ link \in [Peers -> Seq(WireRecords)]
    /\ \A p \in Peers : Len(link[p]) <= MaxInFlight
    /\ why \in [Peers -> {"none", "refused", "left", "eof", "undecodable", "too_large",
                          "unexpected"}]
    /\ said \in [Peers -> 0..MaxRecords]
    /\ got \in [Peers -> Seq(Nat)]

----------------------------------------------------------------------------
(* The stream *)

Room(p) == Len(link[OtherEnd(p)]) < MaxInFlight
HasRoom(p) == alive[p] /\ Room(p)
Puts(p, record) == link' = [link EXCEPT ![OtherEnd(p)] = Append(@, record)]

(* A write that stops short leaves nothing, or a part of its record. *)
StopsShort(p) == UNCHANGED link \/ (Room(p) /\ Puts(p, PlainRecord("partial")))

(* Dropping the socket: what is under way is lost, what was sent stays.    *)
EndsWire(p, reason) ==
    /\ stage' = [stage EXCEPT ![p] = "ended"]
    /\ alive' = [alive EXCEPT ![p] = FALSE]
    /\ why' = [why EXCEPT ![p] = reason]

(* A timeout, a cancelled task, a close.  A write under way leaves a part  *)
(* of its record behind.                                                   *)
Leaves(p) ==
    /\ stage[p] # "ended" /\ alive[p]
    /\ EndsWire(p, "left")
    /\ IF sending[p] = NoRecord THEN UNCHANGED link ELSE StopsShort(p)
    /\ sending' = [sending EXCEPT ![p] = NoRecord]
    /\ UNCHANGED <<keys, security, cipher, prefetched, said, got>>

ReadingBetweenWrites(p) ==     \* mutant
    \/ stage[p] = "session" /\ sending[p] = NoRecord
    \/ stage[p] = "split"

(* The session reads between two dispatches, never during one: the host    *)
(* sends Hash before it reads, and reads nothing between PeerInfo and the  *)
(* last permission report.  The split reader reads at any time.            *)
Reading(p) ==
    \/ /\ stage[p] = "session" /\ sending[p] = NoRecord
       /\ p = "host" => said[p] \notin {0, 2}
    \/ stage[p] = "split"

(* The end of the stream, once everything before it was read. *)
ReadsEnd(p) ==
    /\ alive[p]
    /\ stage[p] = "await" \/ Reading(p)
    /\ ~alive[OtherEnd(p)]
    /\ link[p] # <<>> => Head(link[p]).kind = "partial"
    /\ prefetched = NoRecord \/ p = "host"
    /\ IF stage[p] = "split"
       THEN alive' = [alive EXCEPT ![p] = FALSE] /\ UNCHANGED <<stage, why>>
       ELSE EndsWire(p, "eof")
    /\ UNCHANGED <<keys, security, cipher, prefetched, sending, link, said, got>>

----------------------------------------------------------------------------
(* handshake::viewer *)

Strict == keys.viewer = "PinnedHost"
Verified == Strict \/ (keys.viewer = "Rendezvous" /\ keys.evidence)

Establish(p, outcome) ==
    /\ stage' = [stage EXCEPT ![p] = "session"]
    /\ security' = [security EXCEPT ![p] = outcome]

SetKey(p) == cipher' = [cipher EXCEPT ![p] = [on |-> TRUE, enc |-> 0, dec |-> 0]]

(* Without evidence of the host's key the empty record goes out first. *)
ViewerStarts ==
    /\ stage["viewer"] = "start"
    /\ \/ /\ Verified
          /\ stage' = [stage EXCEPT !["viewer"] = "await"]
          /\ UNCHANGED <<link, security>>
       \/ /\ ~Verified /\ HasRoom("viewer")
          /\ Puts("viewer", PlainRecord("Empty"))
          /\ Establish("viewer", "LegacyPlain")
    /\ UNCHANGED <<keys, cipher, prefetched, sending, alive, why, sessionVars>>

(* What a viewer that does not insist answers, and takes the wire for. *)
Reply(kind) ==
    CASE kind = "SignedId" /\ ~keys.signature -> <<"EmptyKey", "RefreshKey">>
      [] OTHER -> <<"Empty", "LegacyPlain">>

PrefetchedDiscarded(record) == NoRecord     \* mutant

(* A first record that is no SignedId is kept for the session. *)
Prefetched(record) == IF record.kind = "SignedId" THEN NoRecord ELSE record

RefusesAtSignature(kind) == Strict /\ kind = "SignedId"     \* mutant

(* A pinned host must prove itself; anything else drops the socket. *)
Refuses(kind) == Strict

ViewerChooses ==
    /\ stage["viewer"] = "await" /\ alive["viewer"]
    /\ link["viewer"] # <<>>
    /\ LET record == Head(link["viewer"])
           rest == Tail(link["viewer"])
           proven == record.kind = "SignedId" /\ keys.signature /\ keys.sameId
       IN  /\ record.kind # "partial"
           /\ \/ /\ proven /\ HasRoom("viewer")
                 /\ link' = [link EXCEPT !["viewer"] = rest,
                                         !["host"] = Append(@, PlainRecord("PublicKey"))]
                 /\ SetKey("viewer")
                 /\ Establish("viewer", "Encrypted")
                 /\ UNCHANGED <<prefetched, alive, why>>
              \/ /\ ~proven /\ Refuses(record.kind)
                 /\ link' = [link EXCEPT !["viewer"] = rest]
                 /\ EndsWire("viewer", "refused")
                 /\ UNCHANGED <<cipher, prefetched, security>>
              \/ /\ ~proven /\ ~Refuses(record.kind) /\ HasRoom("viewer")
                 /\ link' = [link EXCEPT !["viewer"] = rest,
                               !["host"] = Append(@, PlainRecord(Reply(record.kind)[1]))]
                 /\ Establish("viewer", Reply(record.kind)[2])
                 /\ prefetched' = Prefetched(record)
                 /\ UNCHANGED <<cipher, alive, why>>
    /\ UNCHANGED <<keys, sending, sessionVars>>

----------------------------------------------------------------------------
(* handshake::host *)

HostStarts ==
    /\ stage["host"] = "start"
    /\ \/ /\ keys.host = "LegacyPlain"
          /\ Establish("host", "LegacyPlain")
          /\ UNCHANGED link
       \/ /\ keys.host = "Signed" /\ HasRoom("host")
          /\ Puts("host", PlainRecord("SignedId"))
          /\ stage' = [stage EXCEPT !["host"] = "await"]
          /\ UNCHANGED security
    /\ UNCHANGED <<keys, cipher, prefetched, sending, alive, why, sessionVars>>

HostChooses ==
    /\ stage["host"] = "await" /\ alive["host"]
    /\ link["host"] # <<>>
    /\ LET kind == Head(link["host"]).kind
           outcome == CASE kind = "EmptyKey" -> "RefreshKey"
                        [] kind = "PublicKey" -> "Encrypted"
                        [] kind = "Empty" -> "LegacyPlain"
                        [] OTHER -> "none"
       IN  /\ kind # "partial"
           /\ IF outcome = "none"
              THEN EndsWire("host", "unexpected") /\ UNCHANGED security
              ELSE Establish("host", outcome) /\ UNCHANGED <<alive, why>>
           /\ IF outcome = "Encrypted" THEN SetKey("host") ELSE UNCHANGED cipher
    /\ link' = [link EXCEPT !["host"] = Tail(@)]
    /\ UNCHANGED <<keys, prefetched, sending, sessionVars>>

----------------------------------------------------------------------------
(* Sending: SessionIo::send and WireWriter::send *)

(* The session's next record, when the session has come to it. *)
NextKind(p) ==
    CASE p = "host" /\ said[p] = 0 -> "Hash"
      [] p = "host" /\ said[p] = 1 -> "PeerInfo"
      [] p = "host" /\ said[p] = 2 -> "Permission"
      [] p = "viewer" /\ said[p] = 0 -> "Login"
      [] OTHER -> "Data"

MaySend(p) ==
    CASE NextKind(p) \in {"Hash", "Permission"} -> TRUE
      [] NextKind(p) = "PeerInfo" -> got[p] = <<1>>
      [] NextKind(p) = "Login" -> got[p] = <<1>>
      [] NextKind(p) = "Data" -> stage[p] = "split"

(* The nonce is consumed and the record sealed before the first byte is    *)
(* written.  Only the split transport takes a large record.                *)
SendBegins(p) ==
    /\ stage[p] \in {"session", "split"} /\ alive[p]
    /\ sending[p] = NoRecord
    /\ said[p] < MaxRecords /\ MaySend(p)
    /\ cipher' = [cipher EXCEPT ![p].enc = IF cipher[p].on THEN @ + 1 ELSE @]
    /\ \E large \in IF NextKind(p) = "Data" THEN BOOLEAN ELSE {FALSE} :
         sending' = [sending EXCEPT ![p] =
                       [kind |-> NextKind(p), n |-> said[p] + 1, sealed |-> cipher[p].on,
                        nonce |-> cipher'[p].enc, large |-> large]]
    /\ said' = [said EXCEPT ![p] = @ + 1]
    /\ UNCHANGED <<keys, stage, security, prefetched, alive, link, why, got>>

(* transport::split: the halves go on with the counters they inherit. *)
Split(c) == c

(* The host splits when the permissions are written. *)
SendCompletes(p) ==
    /\ sending[p] # NoRecord /\ HasRoom(p)
    /\ Puts(p, sending[p])
    /\ sending' = [sending EXCEPT ![p] = NoRecord]
    /\ \/ /\ sending[p].kind = "Permission"
          /\ stage' = [stage EXCEPT ![p] = "split"]
          /\ cipher' = [cipher EXCEPT ![p] = Split(@)]
       \/ sending[p].kind # "Permission" /\ UNCHANGED <<stage, cipher>>
    /\ UNCHANGED <<keys, security, prefetched, alive, why, sessionVars>>

SendCancelledKeepingWire(p) ==      \* mutant
    /\ sending[p] # NoRecord /\ HasRoom(p)
    /\ sending' = [sending EXCEPT ![p] = NoRecord]
    /\ Puts(p, PlainRecord("partial"))
    /\ UNCHANGED <<keys, stage, security, cipher, prefetched, alive, why, sessionVars>>

(* The send future is dropped or times out.  SessionIo has taken the wire  *)
(* out of itself; PendingWrite closes the split transport.                 *)
SendCancelled(p) ==
    /\ sending[p] # NoRecord /\ alive[p]
    /\ sending' = [sending EXCEPT ![p] = NoRecord]
    /\ alive' = [alive EXCEPT ![p] = FALSE]
    /\ StopsShort(p)
    /\ UNCHANGED <<keys, stage, security, cipher, prefetched, why, sessionVars>>

SendReleasedByDeadlineOnly(p) == SendCancelled(p)       \* mutant

(* A reader that has ended releases the writer it shares `closed' with. *)
SendReleased(p) ==
    /\ sending[p] # NoRecord /\ ~alive[p]
    /\ sending' = [sending EXCEPT ![p] = NoRecord]
    /\ StopsShort(p)
    /\ UNCHANGED <<keys, stage, security, cipher, prefetched, alive, why, sessionVars>>

----------------------------------------------------------------------------
(* Receiving: SessionIo::recv, WireReader::recv and what the session makes *)
(* of the record.                                                          *)

TooLarge(p, record) == record.large /\ stage[p] # "split"

Decodes(p, record) ==
    record.sealed = cipher[p].on /\ (record.sealed => record.nonce = cipher[p].dec + 1)

(* None is progress for both; a late SignedId for a plain viewer without   *)
(* a Hash.                                                                 *)
Ignored(p, kind) ==
    \/ kind = "Empty"
    \/ /\ kind = "SignedId" /\ p = "viewer"
       /\ got[p] = <<>> /\ security[p] # "Encrypted"

(* The viewer splits when it is let in. *)
Takes(p, record) ==
    LET read == [cipher[p] EXCEPT !.dec = IF record.sealed THEN @ + 1 ELSE @]
        admitted == record.kind = "PeerInfo"
    IN  /\ cipher' = [cipher EXCEPT ![p] = IF admitted THEN Split(read) ELSE read]
        /\ stage' = [stage EXCEPT ![p] = IF admitted THEN "split" ELSE @]
        /\ got' = IF record.n = 0 THEN got ELSE [got EXCEPT ![p] = Append(@, record.n)]
        /\ UNCHANGED <<alive, why>>

Dispatches(p, record) ==
    LET fault == CASE TooLarge(p, record) -> "too_large"
                   [] ~Decodes(p, record) -> "undecodable"
                   [] record.n = 0 /\ ~Ignored(p, record.kind) -> "unexpected"
                   [] OTHER -> "none"
    IN  IF fault = "none" THEN Takes(p, record)
        ELSE EndsWire(p, fault) /\ UNCHANGED <<cipher, got>>

(* The record the handshake had kept comes first. *)
ReceivesPrefetched ==
    /\ Reading("viewer") /\ alive["viewer"]
    /\ prefetched # NoRecord
    /\ prefetched' = NoRecord
    /\ Dispatches("viewer", prefetched)
    /\ UNCHANGED <<keys, security, sending, link, said>>

Receives(p) ==
    /\ Reading(p) /\ alive[p]
    /\ prefetched = NoRecord \/ p = "host"
    /\ link[p] # <<>> /\ Head(link[p]).kind # "partial"
    /\ link' = [link EXCEPT ![p] = Tail(@)]
    /\ Dispatches(p, Head(link[p]))
    /\ UNCHANGED <<keys, security, prefetched, sending, said>>

----------------------------------------------------------------------------
SecureInit ==
    /\ keys \in Configs
    /\ stage = [p \in Peers |-> "start"]
    /\ security = [p \in Peers |-> "none"]
    /\ cipher = [p \in Peers |-> [on |-> FALSE, enc |-> 0, dec |-> 0]]
    /\ prefetched = NoRecord
    /\ sending = [p \in Peers |-> NoRecord]
    /\ alive = [p \in Peers |-> TRUE]
    /\ link = [p \in Peers |-> <<>>]
    /\ why = [p \in Peers |-> "none"]
    /\ said = [p \in Peers |-> 0]
    /\ got = [p \in Peers |-> <<>>]

SecureNext ==
    \/ ViewerStarts \/ ViewerChooses \/ HostStarts \/ HostChooses \/ ReceivesPrefetched
    \/ \E p \in Peers :
         \/ Leaves(p) \/ ReadsEnd(p) \/ SendBegins(p) \/ SendCompletes(p)
         \/ SendCancelled(p) \/ SendReleased(p) \/ Receives(p)

(* A writer whose transport was closed is polled; nobody owes a record or  *)
(* a read.                                                                 *)
SecureFairness == \A p \in Peers : WF_secureVars(SendReleased(p))

SecureSpec == SecureInit /\ [][SecureNext]_secureVars /\ SecureFairness

----------------------------------------------------------------------------
(* Two ends that follow the code never misread each other: every record is *)
(* read in the mode, under the nonce and within the limit it was written   *)
(* for, through the key change, the hand-over to the split transport at    *)
(* two different moments, and sends that were cancelled.                   *)
NeverMisread ==
    \A p \in Peers : why[p] \notin {"undecodable", "too_large", "unexpected"}

(* Each end receives the other's session records once, in order and        *)
(* without a gap, and all of them once the stream is idle: the Hash that   *)
(* came where the handshake expected a SignedId included.                  *)
DeliveredInOrder ==
    \A p \in Peers :
      /\ got[p] = [i \in 1..Len(got[p]) |-> i]
      /\ Len(got[p]) <= said[OtherEnd(p)]
      /\ /\ alive[p] /\ alive[OtherEnd(p)] /\ sending[OtherEnd(p)] = NoRecord
         /\ link[p] = <<>> /\ (p = "viewer" => prefetched = NoRecord)
         => Len(got[p]) = said[OtherEnd(p)]

(* A viewer that pinned its host sends nothing but the key in the clear,   *)
(* and never takes up a plain session.                                     *)
PinnedStaysSealed ==
    Strict =>
      /\ security["viewer"] \in {"none", "Encrypted"}
      /\ \A i \in 1..Len(link["host"]) :
           link["host"][i].sealed \/ link["host"][i].kind \in {"PublicKey", "partial"}

(* Nothing follows a record that was written in part: a cancelled send     *)
(* ends the stream and is never resumed or repeated on it.                 *)
NothingFollowsPart ==
    \A p \in Peers : \A i \in 1..Len(link[p]) :
      link[p][i].kind = "partial" => i = Len(link[p]) /\ ~alive[OtherEnd(p)]

(* A writer that is blocked when its connection ends does not stay so.     *)
WriterIsReleased ==
    \A p \in Peers : (sending[p] # NoRecord /\ ~alive[p]) ~> (sending[p] = NoRecord)

(* The two ends of a keyed stream never misread each other, deliver every  *)
(* record once and in order, never leave the mode a pinned host asks for,  *)
(* and write nothing behind a record that was written in part              *)
(* (handshake.rs, transport.rs, session.rs).                               *)
WireIsFaithful ==
    /\ SecureTypeOK
    /\ NeverMisread /\ DeliveredInOrder /\ PinnedStaysSealed /\ NothingFollowsPart
=============================================================================
