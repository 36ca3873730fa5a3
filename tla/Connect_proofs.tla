---------------------------- MODULE Connect_proofs ----------------------------
(***************************************************************************)
(* Proofs about a connection: the keyed wire between a viewer and a host,  *)
(* the dial that leads to it, and a VNC session.                           *)
(*                                                                         *)
(* The invariant of the wire describes each direction of the stream from   *)
(* what its two ends know: at most one greeting of the handshake, then the *)
(* session records the receiver has not taken yet, numbered without a gap  *)
(* and sealed as the sender seals, and at most one record written in part, *)
(* behind which the sender is gone.                                        *)
(*                                                                         *)
(* A dial against honest servers reads the right thing rightly because of  *)
(* what may stand on its control wire: one hello that was not skipped yet  *)
(* and then answers to the step it is in, since a wire is dropped with     *)
(* what was not read; and because an address survives AddrMangle, whose    *)
(* fields are quotients and remainders (QuotientIsUnique).                 *)
(***************************************************************************)
EXTENDS MCConnect, Integers, TLAPS

-----------------------------------------------------------------------------
Greetings == {"SignedId", "PublicKey", "EmptyKey", "Empty"}

(* The kind of a peer's n-th session record.                               *)
KindOf(p, n) ==
    CASE p = "host" /\ n = 1 -> "Hash"
      [] p = "host" /\ n = 2 -> "PeerInfo"
      [] p = "host" /\ n = 3 -> "Permission"
      [] p = "viewer" /\ n = 1 -> "Login"
      [] OTHER -> "Data"

(* A record is the n-th of its sender's session, sealed or not.            *)
IsNth(p, on, r, n) ==
    /\ r \in WireRecords /\ n \in Nat \ {0}
    /\ r.kind = KindOf(p, n) /\ r.n = n
    /\ r.sealed = on /\ (r.sealed => r.nonce = n)
    /\ r.large => r.kind = "Data"

(* A greeting waits first in the stream.                                   *)
Greets(s) == s # <<>> /\ Head(s).kind \in Greetings
Skip(s) == IF Greets(s) THEN 1 ELSE 0

(* The stream s from p: its session records go on from base, up to the     *)
(* top-th.                                                                 *)
Numbered(p, on, s, base, top) ==
    \A i \in 1..Len(s) :
      \/ i = 1 /\ Greets(s) /\ s[i] = PlainRecord(s[i].kind)
      \/ i = Len(s) /\ s[i] = NoRecord
      \/ IsNth(p, on, s[i], base + i - Skip(s)) /\ base + i - Skip(s) <= top

NoPart(s) == \A i \in 1..Len(s) : s[i].kind # "partial"
PartIsLast(s) == \A i \in 1..Len(s) : s[i].kind = "partial" => i = Len(s)
PlainIsKey(s) == \A i \in 1..Len(s) : s[i].sealed \/ s[i].kind \in {"PublicKey", "partial"}

(* The session records p has taken from the stream.                        *)
Base(p) == Len(got[p]) + IF p = "viewer" /\ prefetched # NoRecord THEN 1 ELSE 0

InHand(p) == IF sending[p] # NoRecord THEN 1 ELSE 0

(* The stream towards p: nothing is missing of what the other end said.    *)
StreamIsNumbered(p) ==
    LET q == OtherEnd(p) IN
    /\ Numbered(q, cipher[q].on, link[p], Base(p), said[q])
    /\ alive[q] => Base(p) + Len(link[p]) - Skip(link[p]) + InHand(q) = said[q]

SecureTypes ==
    /\ keys \in Configs
    /\ stage \in [Peers -> {"start", "await", "session", "split", "ended"}]
    /\ security \in [Peers -> Securities]
    /\ cipher \in [Peers -> [on : BOOLEAN, enc : Nat, dec : Nat]]
    /\ prefetched \in WireRecords
    /\ sending \in [Peers -> WireRecords]
    /\ alive \in [Peers -> BOOLEAN]
    /\ link \in [Peers -> Seq(WireRecords)]
    /\ \A p \in Peers : Len(link[p]) <= MaxInFlight
    /\ why \in [Peers -> {"none", "refused", "left", "eof"}]
    /\ said \in [Peers -> 0..MaxRecords]
    /\ got \in [Peers -> Seq(Nat)]

(* The counters of a cipher are those of the session.                      *)
CountersAgree ==
    \A p \in Peers : cipher[p].on => cipher[p].enc = said[p] /\ cipher[p].dec = Len(got[p])

(* What is being written is the last record the session sent.              *)
SendingIsLast ==
    \A p \in Peers : sending[p] # NoRecord =>
      /\ IsNth(p, cipher[p].on, sending[p], said[p])
      /\ stage[p] \in {"session", "split"}
      /\ NoPart(link[OtherEnd(p)])

GotInOrder ==
    \A p \in Peers : /\ got[p] = [i \in 1..Len(got[p]) |-> i]
                     /\ Len(got[p]) <= said[OtherEnd(p)]

AliveStages ==
    \A p \in Peers : /\ stage[p] = "ended" => ~alive[p]
                     /\ stage[p] \in {"start", "await"} => alive[p]

(* Before its choice the viewer has neither said nor heard anything.       *)
ViewerIsEarly ==
    stage["viewer"] \in {"start", "await"} =>
      /\ ~cipher["viewer"].on /\ prefetched = NoRecord /\ got["viewer"] = <<>>
      /\ said["viewer"] = 0 /\ security["viewer"] = "none" /\ link["host"] = <<>>
      /\ stage["viewer"] = "await" => Verified
      /\ keys.host = "Signed" => said["host"] = 0
                                 /\ stage["host"] \in {"start", "await", "ended"}

HostIsEarly ==
    stage["host"] \in {"start", "await"} =>
      /\ ~cipher["host"].on /\ said["host"] = 0 /\ got["host"] = <<>>
      /\ link["host"] # <<>> => Greets(link["host"])
      /\ link["host"] = <<>> => /\ ~cipher["viewer"].on
                                /\ stage["viewer"] \in {"start", "await", "ended"}
      /\ stage["host"] = "start" => link["viewer"] = <<>> /\ ~cipher["viewer"].on
      /\ stage["host"] = "await" => keys.host = "Signed"

(* What a greeting means to the one who reads it.                          *)
GreetingsFit ==
    /\ Greets(link["host"]) /\ stage["host"] # "ended" =>
         /\ Head(link["host"]).kind \in {"PublicKey", "EmptyKey", "Empty"}
         /\ Head(link["host"]).kind = "PublicKey" <=> cipher["viewer"].on
         /\ stage["host"] \in {"session", "split"} => keys.host = "LegacyPlain"
         /\ keys.host = "LegacyPlain" => Head(link["host"]).kind = "Empty"
    /\ Greets(link["viewer"]) /\ stage["viewer"] # "ended" =>
         /\ Head(link["viewer"]).kind = "SignedId" /\ keys.host = "Signed"
         /\ got["viewer"] = <<>> /\ prefetched = NoRecord /\ ~cipher["viewer"].on

(* Both ends are in one mode before either says anything in it.            *)
ModesAgree ==
    /\ (stage["host"] \in {"session", "split"} \/ said["host"] > 0)
         => cipher["host"].on = cipher["viewer"].on
    /\ keys.host = "LegacyPlain" => ~cipher["host"].on /\ ~cipher["viewer"].on
    /\ security["viewer"] = "Encrypted" => cipher["viewer"].on
    /\ Strict => /\ security["viewer"] \in {"none", "Encrypted"}
                 /\ stage["viewer"] \in {"session", "split"} => cipher["viewer"].on

PrefetchedIsHash ==
    prefetched # NoRecord =>
      /\ IsNth("host", FALSE, prefetched, 1) /\ said["host"] >= 1
      /\ got["viewer"] = <<>> /\ ~cipher["viewer"].on
      /\ stage["viewer"] \in {"session", "ended"}

(* How far the two sessions may be apart.                                  *)
SessionsAdvance ==
    /\ said["viewer"] >= 1 => Len(got["viewer"]) >= 1
    /\ said["viewer"] >= 2 \/ stage["viewer"] = "split" => Len(got["viewer"]) >= 2
    /\ alive["viewer"] /\ Len(got["viewer"]) >= 2 => stage["viewer"] = "split"
    /\ stage["host"] = "split" => said["host"] >= 3
    /\ alive["host"] /\ stage["host"] = "session" =>
         said["host"] <= 3 /\ (said["host"] = 3 => sending["host"] # NoRecord)

(* A part ends its stream, and its sender is gone.                         *)
PartsAreLast ==
    \A p \in Peers : PartIsLast(link[p]) /\ (alive[OtherEnd(p)] => NoPart(link[p]))

StrictIsSealed == Strict => PlainIsKey(link["host"])

StreamsAreNumbered == \A p \in Peers : stage[p] # "ended" => StreamIsNumbered(p)

SecureInv ==
    /\ SecureTypes /\ CountersAgree /\ SendingIsLast /\ GotInOrder /\ AliveStages
    /\ ViewerIsEarly /\ HostIsEarly /\ GreetingsFit /\ ModesAgree /\ PrefetchedIsHash
    /\ SessionsAdvance /\ PartsAreLast /\ StrictIsSealed /\ StreamsAreNumbered

-----------------------------------------------------------------------------
(* Sequences of records.                                                   *)

LEMMA AppendAt ==
    ASSUME NEW R, NEW s \in Seq(R), NEW e \in R
    PROVE  /\ Append(s, e) \in Seq(R) /\ Append(s, e) # <<>>
           /\ Len(s) \in Nat /\ Len(Append(s, e)) = Len(s) + 1
           /\ \A i \in 1..Len(s) : Append(s, e)[i] = s[i]
           /\ Append(s, e)[Len(s) + 1] = e
           /\ Head(Append(s, e)) = IF s = <<>> THEN e ELSE Head(s)
<1>1. /\ Append(s, e) \in Seq(R) /\ Len(s) \in Nat /\ Len(Append(s, e)) = Len(s) + 1
      /\ \A i \in 1..Len(s) : Append(s, e)[i] = s[i]
      /\ Append(s, e)[Len(s) + 1] = e
  OBVIOUS
<1> DEFINE t == Append(s, e)
<1>2. t \in Seq(R) /\ Len(t) = Len(s) + 1 /\ Len(s) \in Nat
  BY <1>1
<1>3. (\A i \in 1..Len(s) : t[i] = s[i]) /\ t[Len(s) + 1] = e
  BY <1>1
<1> HIDE DEF t
<1>4. t # <<>> /\ Head(t) = t[1]
  BY <1>2
<1>5. CASE s = <<>>
  <2>1. Len(s) = 0
    BY <1>5
  <2> QED
    BY <1>1, <1>3, <1>4, <1>5, <2>1 DEF t
<1>6. CASE s # <<>>
  <2>1. 1 \in 1..Len(s) /\ Head(s) = s[1]
    BY <1>6
  <2> QED
    BY <1>1, <1>3, <1>4, <1>6, <2>1 DEF t
<1> QED
  BY <1>5, <1>6

LEMMA TailAt ==
    ASSUME NEW R, NEW s \in Seq(R), s # <<>>
    PROVE  /\ Tail(s) \in Seq(R) /\ Head(s) \in R /\ Head(s) = s[1]
           /\ Len(s) \in Nat \ {0} /\ Len(Tail(s)) = Len(s) - 1
           /\ \A i \in 1..(Len(s) - 1) : Tail(s)[i] = s[i + 1]
           /\ Tail(s) # <<>> => Head(Tail(s)) = s[2] /\ Len(s) >= 2
OBVIOUS

LEMMA PlainIsRecord ==
    ASSUME NEW kind \in Kinds
    PROVE  /\ PlainRecord(kind) \in WireRecords /\ PlainRecord(kind).kind = kind
           /\ PlainRecord(kind).n = 0 /\ ~PlainRecord(kind).sealed
           /\ ~PlainRecord(kind).large
           /\ NoRecord \in WireRecords /\ NoRecord.kind = "partial"
           /\ PlainRecord("partial") = NoRecord
<1>1. "partial" \in Kinds
  BY DEF Kinds
<1>2. NoRecord \in WireRecords /\ NoRecord.kind = "partial"
  BY <1>1 DEF NoRecord, PlainRecord, WireRecords
<1>3. PlainRecord(kind) = [kind |-> kind, n |-> 0, sealed |-> FALSE, nonce |-> 0,
                           large |-> FALSE]
  BY DEF PlainRecord
<1>4. /\ PlainRecord(kind) \in WireRecords /\ PlainRecord(kind).kind = kind
      /\ PlainRecord(kind).n = 0 /\ ~PlainRecord(kind).sealed /\ ~PlainRecord(kind).large
  BY <1>3 DEF WireRecords
<1>5. PlainRecord("partial") = NoRecord
  BY DEF NoRecord
<1> QED
  BY <1>2, <1>4, <1>5

LEMMA SessionKinds ==
    ASSUME NEW p, NEW n
    PROVE  /\ KindOf(p, n) \in {"Hash", "PeerInfo", "Permission", "Login", "Data"}
           /\ KindOf(p, n) \notin Greetings /\ KindOf(p, n) # "partial"
BY DEF KindOf, Greetings

LEMMA NthIsNoOther ==
    ASSUME NEW p, NEW on, NEW r, NEW n, IsNth(p, on, r, n)
    PROVE  r \in WireRecords /\ r # NoRecord /\ r.kind \notin Greetings /\ r.kind # "partial"
BY SessionKinds DEF IsNth, NoRecord, PlainRecord

-----------------------------------------------------------------------------
(* Numbered streams.                                                       *)

LEMMA EmptyIsNumbered ==
    ASSUME NEW p, NEW on, NEW base, NEW top
    PROVE  Numbered(p, on, <<>>, base, top) /\ Skip(<<>>) = 0 /\ ~Greets(<<>>)
BY DEF Numbered, Skip, Greets

LEMMA NumberedHigher ==
    ASSUME NEW p, NEW on, NEW s \in Seq(WireRecords), NEW base \in Nat, NEW top \in Nat,
           NEW higher \in Nat, top <= higher, Numbered(p, on, s, base, top)
    PROVE  Numbered(p, on, s, base, higher)
<1> SUFFICES ASSUME NEW i \in 1..Len(s)
             PROVE  \/ i = 1 /\ Greets(s) /\ s[i] = PlainRecord(s[i].kind)
                    \/ i = Len(s) /\ s[i] = NoRecord
                    \/ IsNth(p, on, s[i], base + i - Skip(s)) /\ base + i - Skip(s) <= higher
  BY DEF Numbered
<1>1. base + i - Skip(s) \in Int
  BY DEF Skip
<1> QED
  BY <1>1 DEF Numbered

(* A stream without session records is numbered in either mode.            *)
LEMMA NumberedInAnyMode ==
    ASSUME NEW p, NEW on, NEW other, NEW s, NEW base, Numbered(p, on, s, base, 0)
    PROVE  Numbered(p, other, s, base, 0)
<1> SUFFICES ASSUME NEW i \in 1..Len(s)
             PROVE  \/ i = 1 /\ Greets(s) /\ s[i] = PlainRecord(s[i].kind)
                    \/ i = Len(s) /\ s[i] = NoRecord
  BY DEF Numbered
<1>1. ~(IsNth(p, on, s[i], base + i - Skip(s)) /\ base + i - Skip(s) <= 0)
  BY DEF IsNth
<1> QED
  BY <1>1 DEF Numbered

LEMMA AppendKeepsGreeting ==
    ASSUME NEW s \in Seq(WireRecords), NEW r \in WireRecords, r.kind \notin Greetings
    PROVE  Greets(Append(s, r)) = Greets(s) /\ Skip(Append(s, r)) = Skip(s)
<1>1. Append(s, r) # <<>> /\ Head(Append(s, r)) = IF s = <<>> THEN r ELSE Head(s)
  BY AppendAt
<1> QED
  BY <1>1 DEF Greets, Skip

(* Another record, or a part of one, goes behind a stream without parts.   *)
LEMMA NumberedAppend ==
    ASSUME NEW p, NEW on, NEW s \in Seq(WireRecords), NEW base \in Nat, NEW top \in Nat,
           Numbered(p, on, s, base, top), NoPart(s), NEW r \in WireRecords,
           \/ r = NoRecord
           \/ IsNth(p, on, r, base + Len(s) + 1 - Skip(s)) /\ base + Len(s) + 1 - Skip(s) <= top
    PROVE  /\ Numbered(p, on, Append(s, r), base, top)
           /\ Skip(Append(s, r)) = Skip(s) /\ Greets(Append(s, r)) = Greets(s)
<1>1. r.kind \notin Greetings
  BY NthIsNoOther DEF NoRecord, PlainRecord, Greetings
<1>2. Skip(Append(s, r)) = Skip(s) /\ Greets(Append(s, r)) = Greets(s)
  BY <1>1, AppendKeepsGreeting
<1> DEFINE t == Append(s, r)
<1>3. /\ Len(s) \in Nat /\ Len(t) = Len(s) + 1 /\ t[Len(s) + 1] = r
      /\ \A i \in 1..Len(s) : t[i] = s[i]
  BY AppendAt
<1>4. Skip(t) = Skip(s) /\ Greets(t) = Greets(s)
  BY <1>2
<1> HIDE DEF t
<1>5. ASSUME NEW i \in 1..Len(t)
      PROVE  \/ i = 1 /\ Greets(t) /\ t[i] = PlainRecord(t[i].kind)
             \/ i = Len(t) /\ t[i] = NoRecord
             \/ IsNth(p, on, t[i], base + i - Skip(t)) /\ base + i - Skip(t) <= top
  <2>1. CASE i = Len(s) + 1
    <3>1. Skip(s) \in {0, 1}
      BY DEF Skip
    <3>2. base + i - Skip(t) = base + Len(s) + 1 - Skip(s)
      BY <1>3, <1>4, <2>1, <3>1
    <3>3. t[i] = r /\ i = Len(t)
      BY <1>3, <2>1
    <3> QED
      BY <3>2, <3>3
  <2>2. CASE i \in 1..Len(s)
    <3>1. s[i] # NoRecord
      BY <2>2 DEF NoPart, NoRecord, PlainRecord
    <3>2. \/ i = 1 /\ Greets(s) /\ s[i] = PlainRecord(s[i].kind)
          \/ IsNth(p, on, s[i], base + i - Skip(s)) /\ base + i - Skip(s) <= top
      BY <2>2, <3>1 DEF Numbered
    <3> QED
      BY <1>3, <1>4, <2>2, <3>2
  <2>3. i \in 1..Len(s) \/ i = Len(s) + 1
    BY <1>3
  <2> QED
    BY <2>1, <2>2, <2>3
<1>6. Numbered(p, on, t, base, top)
  BY <1>5 DEF Numbered
<1> QED
  BY <1>2, <1>6 DEF t

LEMMA NumberedGreeting ==
    ASSUME NEW p, NEW on, NEW base, NEW top, NEW kind \in Greetings
    PROVE  LET s == Append(<<>>, PlainRecord(kind)) IN
           /\ Numbered(p, on, s, base, top) /\ Skip(s) = 1 /\ Greets(s)
           /\ Head(s).kind = kind /\ Len(s) = 1 /\ NoPart(s) /\ s \in Seq(WireRecords)
<1> DEFINE r == PlainRecord(kind)
           s == Append(<<>>, r)
<1>1. kind \in Kinds /\ kind # "partial"
  BY DEF Greetings, Kinds
<1>2. r \in WireRecords /\ r.kind = kind
  BY <1>1, PlainIsRecord
<1>3. r = PlainRecord(r.kind)
  BY <1>2
<1> HIDE DEF r
<1>4. <<>> \in Seq(WireRecords)
  OBVIOUS
<1>5. Len(s) = 1 /\ s[1] = r /\ Head(s) = r /\ s # <<>> /\ s \in Seq(WireRecords)
  BY <1>2, <1>4, AppendAt
<1> HIDE DEF s
<1>6. Greets(s) /\ Skip(s) = 1
  BY <1>2, <1>5 DEF Greets, Skip
<1>7. Numbered(p, on, s, base, top)
  BY <1>3, <1>5, <1>6 DEF Numbered
<1>8. NoPart(s)
  BY <1>1, <1>2, <1>5 DEF NoPart
<1> QED
  BY <1>2, <1>5, <1>6, <1>7, <1>8 DEF r, s

(* What follows the first record is no greeting.                           *)
LEMMA TailIsPlain ==
    ASSUME NEW p, NEW on, NEW s \in Seq(WireRecords), s # <<>>, NEW base, NEW top,
           Numbered(p, on, s, base, top)
    PROVE  ~Greets(Tail(s)) /\ Skip(Tail(s)) = 0
<1>1. /\ Len(s) \in Nat \ {0}
      /\ Tail(s) # <<>> => Head(Tail(s)) = s[2] /\ Len(s) >= 2
  BY TailAt
<1>2. Tail(s) # <<>> => s[2].kind \notin Greetings
  <2> SUFFICES ASSUME Tail(s) # <<>> PROVE s[2].kind \notin Greetings
    OBVIOUS
  <2>1. 2 \in 1..Len(s)
    BY <1>1
  <2>2. s[2] = NoRecord \/ IsNth(p, on, s[2], base + 2 - Skip(s))
    BY <2>1 DEF Numbered
  <2> QED
    BY <2>2, NthIsNoOther DEF NoRecord, PlainRecord, Greetings
<1> QED
  BY <1>1, <1>2 DEF Greets, Skip

(* The receiver takes the greeting.                                        *)
LEMMA NumberedTakeGreeting ==
    ASSUME NEW p, NEW on, NEW s \in Seq(WireRecords), NEW base \in Nat, NEW top \in Nat,
           Numbered(p, on, s, base, top), Greets(s)
    PROVE  /\ Numbered(p, on, Tail(s), base, top) /\ Skip(Tail(s)) = 0 /\ ~Greets(Tail(s))
           /\ Head(s) = PlainRecord(Head(s).kind) /\ Head(s).kind \in Greetings
           /\ Len(Tail(s)) - Skip(Tail(s)) = Len(s) - Skip(s)
<1>1. s # <<>> /\ Head(s).kind \in Greetings
  BY DEF Greets
<1>2. /\ Head(s) = s[1] /\ Len(s) \in Nat \ {0} /\ Len(Tail(s)) = Len(s) - 1
      /\ \A i \in 1..(Len(s) - 1) : Tail(s)[i] = s[i + 1]
  BY <1>1, TailAt
<1>3. ~Greets(Tail(s)) /\ Skip(Tail(s)) = 0
  BY <1>1, TailIsPlain
<1>4. Head(s) = PlainRecord(Head(s).kind)
  <2>1. 1 \in 1..Len(s)
    BY <1>2
  <2>2. s[1] # NoRecord /\ ~IsNth(p, on, s[1], base + 1 - Skip(s))
    BY <1>1, <1>2, NthIsNoOther DEF NoRecord, PlainRecord, Greetings
  <2> QED
    BY <1>2, <2>1, <2>2 DEF Numbered
<1>5. Skip(s) = 1
  BY DEF Skip
<1> DEFINE t == Tail(s)
<1>6. ASSUME NEW i \in 1..Len(t)
      PROVE  \/ i = Len(t) /\ t[i] = NoRecord
             \/ IsNth(p, on, t[i], base + i) /\ base + i <= top
  <2>1. i + 1 \in 1..Len(s) /\ i + 1 # 1 /\ t[i] = s[i + 1] /\ i \in Nat
    BY <1>2
  <2>2. base + (i + 1) - 1 = base + i
    BY <2>1
  <2>3. \/ i + 1 = Len(s) /\ s[i + 1] = NoRecord
        \/ IsNth(p, on, s[i + 1], base + i) /\ base + i <= top
    BY <1>5, <2>1, <2>2 DEF Numbered
  <2>4. i + 1 = Len(s) => i = Len(t)
    BY <1>2, <2>1
  <2> HIDE DEF t
  <2> QED
    BY <2>1, <2>3, <2>4
<1>7. Numbered(p, on, t, base, top)
  <2>1. Skip(t) = 0
    BY <1>3
  <2> HIDE DEF t
  <2>2. \A i \in 1..Len(t) : base + i - Skip(t) = base + i
    BY <2>1
  <2> QED
    BY <1>6, <2>2 DEF Numbered
<1> QED
  BY <1>1, <1>2, <1>3, <1>4, <1>5, <1>7

(* The receiver takes the next session record.                             *)
LEMMA NumberedTakeNext ==
    ASSUME NEW p, NEW on, NEW s \in Seq(WireRecords), NEW base \in Nat, NEW top \in Nat,
           Numbered(p, on, s, base, top), s # <<>>, ~Greets(s), Head(s).kind # "partial"
    PROVE  /\ IsNth(p, on, Head(s), base + 1) /\ base + 1 <= top
           /\ Numbered(p, on, Tail(s), base + 1, top)
           /\ Skip(Tail(s)) = 0 /\ ~Greets(Tail(s)) /\ Skip(s) = 0
           /\ Len(Tail(s)) = Len(s) - 1
<1>1. /\ Head(s) = s[1] /\ Len(s) \in Nat \ {0} /\ Len(Tail(s)) = Len(s) - 1
      /\ \A i \in 1..(Len(s) - 1) : Tail(s)[i] = s[i + 1]
  BY TailAt
<1>2. ~Greets(Tail(s)) /\ Skip(Tail(s)) = 0
  BY TailIsPlain
<1>3. Skip(s) = 0
  BY DEF Skip
<1>4. IsNth(p, on, Head(s), base + 1) /\ base + 1 <= top
  <2>1. 1 \in 1..Len(s) /\ base + 1 - 0 = base + 1
    BY <1>1
  <2>2. s[1] # NoRecord
    BY <1>1 DEF NoRecord, PlainRecord
  <2> QED
    BY <1>1, <1>3, <2>1, <2>2 DEF Numbered
<1> DEFINE t == Tail(s)
<1>5. ASSUME NEW i \in 1..Len(t)
      PROVE  \/ i = Len(t) /\ t[i] = NoRecord
             \/ IsNth(p, on, t[i], base + 1 + i) /\ base + 1 + i <= top
  <2>1. i + 1 \in 1..Len(s) /\ t[i] = s[i + 1] /\ i \in Nat
    BY <1>1
  <2>2. base + (i + 1) - 0 = base + 1 + i
    BY <2>1
  <2>3. \/ i + 1 = Len(s) /\ s[i + 1] = NoRecord
        \/ IsNth(p, on, s[i + 1], base + 1 + i) /\ base + 1 + i <= top
    BY <1>3, <2>1, <2>2 DEF Numbered
  <2>4. Len(t) = Len(s) - 1 /\ Len(s) \in Nat
    BY <1>1
  <2> HIDE DEF t
  <2>5. i + 1 = Len(s) => i = Len(t)
    BY <2>1, <2>4
  <2> QED
    BY <2>1, <2>3, <2>5
<1>6. Numbered(p, on, t, base + 1, top)
  <2>1. Skip(t) = 0
    BY <1>2
  <2> HIDE DEF t
  <2>2. \A i \in 1..Len(t) : base + 1 + i - Skip(t) = base + 1 + i
    BY <2>1
  <2> QED
    BY <1>5, <2>2 DEF Numbered
<1> QED
  BY <1>1, <1>2, <1>3, <1>4, <1>6

(* Parts, and what a pinned viewer sends, in a stream that grows or is read. *)
LEMMA PartsOfAppend ==
    ASSUME NEW s \in Seq(WireRecords), NEW r \in WireRecords, NoPart(s)
    PROVE  /\ PartIsLast(Append(s, r))
           /\ r.kind # "partial" => NoPart(Append(s, r))
<1> DEFINE t == Append(s, r)
<1>1. /\ Len(s) \in Nat /\ Len(t) = Len(s) + 1 /\ t[Len(s) + 1] = r
      /\ \A i \in 1..Len(s) : t[i] = s[i]
  BY AppendAt
<1> HIDE DEF t
<1>2. ASSUME NEW i \in 1..Len(t)
      PROVE  (i = Len(t) /\ t[i] = r) \/ t[i].kind # "partial"
  BY <1>1 DEF NoPart
<1>3. PartIsLast(t) /\ (r.kind # "partial" => NoPart(t))
  BY <1>2 DEF PartIsLast, NoPart
<1> QED
  BY <1>3 DEF t

LEMMA PartsOfTail ==
    ASSUME NEW s \in Seq(WireRecords), s # <<>>
    PROVE  /\ NoPart(s) => NoPart(Tail(s))
           /\ PartIsLast(s) => PartIsLast(Tail(s))
           /\ PlainIsKey(s) => PlainIsKey(Tail(s))
<1> DEFINE t == Tail(s)
<1>1. /\ Len(s) \in Nat \ {0} /\ Len(t) = Len(s) - 1
      /\ \A i \in 1..(Len(s) - 1) : t[i] = s[i + 1]
  BY TailAt
<1> HIDE DEF t
<1>2. ASSUME NEW i \in 1..Len(t)
      PROVE  t[i] = s[i + 1] /\ i + 1 \in 1..Len(s) /\ (i + 1 = Len(s) => i = Len(t))
  BY <1>1
<1>3. NoPart(s) => NoPart(t)
  BY <1>2 DEF NoPart
<1>4. PartIsLast(s) => PartIsLast(t)
  BY <1>2 DEF PartIsLast
<1>5. PlainIsKey(s) => PlainIsKey(t)
  BY <1>2 DEF PlainIsKey
<1> QED
  BY <1>3, <1>4, <1>5 DEF t

LEMMA PlainOfAppend ==
    ASSUME NEW s \in Seq(WireRecords), NEW r \in WireRecords, PlainIsKey(s),
           r.sealed \/ r.kind \in {"PublicKey", "partial"}
    PROVE  PlainIsKey(Append(s, r))
<1> DEFINE t == Append(s, r)
<1>1. /\ Len(s) \in Nat /\ Len(t) = Len(s) + 1 /\ t[Len(s) + 1] = r
      /\ \A i \in 1..Len(s) : t[i] = s[i]
  BY AppendAt
<1> HIDE DEF t
<1>2. ASSUME NEW i \in 1..Len(t)
      PROVE  t[i].sealed \/ t[i].kind \in {"PublicKey", "partial"}
  <2>1. CASE i = Len(s) + 1
    BY <1>1, <2>1
  <2>2. CASE i \in 1..Len(s)
    BY <1>1, <2>2 DEF PlainIsKey
  <2> QED
    BY <1>1, <2>1, <2>2
<1> QED
  BY <1>2 DEF PlainIsKey, t

LEMMA BothEnds ==
    ASSUME NEW p \in Peers
    PROVE  /\ OtherEnd(p) \in Peers /\ OtherEnd(p) # p /\ OtherEnd(OtherEnd(p)) = p
           /\ Peers = {p, OtherEnd(p)}
BY DEF Peers, OtherEnd

-----------------------------------------------------------------------------
(* A peer goes: it drops the socket, its reader meets the end of the       *)
(* stream, or its write is given up.                                       *)
BreaksOff(p) ==
    LET q == OtherEnd(p) IN
    /\ ~alive'[p] /\ alive'[q] = alive[q]
    /\ stage'[p] = "ended" \/ (stage'[p] = stage[p] /\ stage[p] \in {"session", "split"})
    /\ stage'[q] = stage[q]
    /\ \/ sending'[p] = NoRecord
       \/ sending'[p] = sending[p] /\ stage'[p] = stage[p] /\ link'[q] = link[q]
    /\ sending'[q] = sending[q]
    /\ link'[p] = link[p]
    /\ link'[q] = link[q] \/ (sending[p] # NoRecord /\ link'[q] = Append(link[q], NoRecord))
    /\ UNCHANGED <<keys, security, cipher, prefetched, said, got>>

LEMMA Counts ==
    ASSUME SecureTypes, NEW p \in Peers
    PROVE  /\ Len(got[p]) \in Nat /\ Base(p) \in Nat /\ said[p] \in Nat /\ InHand(p) \in {0, 1}
           /\ link[p] \in Seq(WireRecords) /\ Len(link[p]) \in Nat
           /\ Skip(link[p]) \in {0, 1}
<1>1. got[p] \in Seq(Nat) /\ said[p] \in 0..MaxRecords /\ link[p] \in Seq(WireRecords)
  BY DEF SecureTypes
<1>2. Len(got[p]) \in Nat /\ Len(link[p]) \in Nat /\ said[p] \in Nat
  BY <1>1, SecureWireAssumption
<1>3. Base(p) \in Nat
  <2> DEFINE n == Len(got[p])
             one == p = "viewer" /\ prefetched # NoRecord
  <2>1. n \in Nat /\ Base(p) = n + (IF one THEN 1 ELSE 0)
    BY <1>2 DEF Base
  <2> HIDE DEF n, one
  <2> QED
    BY <2>1
<1>4. InHand(p) \in {0, 1}
  BY DEF InHand
<1>5. Skip(link[p]) \in {0, 1}
  BY DEF Skip
<1> QED
  BY <1>1, <1>2, <1>3, <1>4, <1>5

LEMMA BreaksOffStep ==
    ASSUME SecureInv, SecureTypes', NEW p \in Peers, BreaksOff(p)
    PROVE  SecureInv'
<1> DEFINE q == OtherEnd(p)
<1>1. q \in Peers /\ q # p /\ OtherEnd(q) = p /\ Peers = {p, q}
  BY BothEnds
<1>2. link[q] \in Seq(WireRecords) /\ NoRecord \in WireRecords
      /\ NoRecord.kind = "partial" /\ NoRecord.kind \notin Greetings
  BY <1>1, PlainIsRecord DEF SecureInv, SecureTypes, Kinds, Greetings
<1>3. sending[p] # NoRecord => NoPart(link[q]) /\ stage[p] \in {"session", "split"}
                               /\ IsNth(p, cipher[p].on, sending[p], said[p])
  BY DEF SecureInv, SendingIsLast
<1>4. /\ Greets(link'[q]) = Greets(link[q]) /\ Skip(link'[q]) = Skip(link[q])
      /\ Greets(link[q]) => Head(link'[q]) = Head(link[q])
      /\ link'[q] # link[q] => link'[q] # <<>>
  <2>1. CASE link'[q] = link[q]
    BY <2>1
  <2>2. CASE link'[q] = Append(link[q], NoRecord)
    <3>1. Append(link[q], NoRecord) # <<>>
          /\ Head(Append(link[q], NoRecord))
               = IF link[q] = <<>> THEN NoRecord ELSE Head(link[q])
      BY <1>2, AppendAt
    <3>2. Greets(Append(link[q], NoRecord)) = Greets(link[q])
          /\ Skip(Append(link[q], NoRecord)) = Skip(link[q])
      BY <1>2, AppendKeepsGreeting
    <3> QED
      BY <2>2, <3>1, <3>2 DEF Greets
  <2> QED
    BY <2>1, <2>2 DEF BreaksOff
<1>5. CountersAgree' /\ GotInOrder' /\ PrefetchedIsHash'
  BY <1>1
     DEF SecureInv, CountersAgree, GotInOrder, PrefetchedIsHash, BreaksOff, IsNth, Peers, OtherEnd
<1>6. SendingIsLast'
  <2>1. sending'[p] # NoRecord => sending'[p] = sending[p] /\ stage'[p] = stage[p] /\ link'[q] = link[q]
    BY DEF BreaksOff
  <2> QED
    BY <1>1, <2>1 DEF SecureInv, SendingIsLast, BreaksOff
<1>7. AliveStages'
  BY <1>1 DEF SecureInv, AliveStages, BreaksOff
<1>8. ViewerIsEarly'
  BY <1>3, <1>4 DEF SecureInv, ViewerIsEarly, BreaksOff, Peers, OtherEnd, Verified, Strict
<1>9. HostIsEarly'
  BY <1>3, <1>4 DEF SecureInv, HostIsEarly, BreaksOff, Peers, OtherEnd
<1>10. GreetingsFit'
  BY <1>3, <1>4 DEF SecureInv, GreetingsFit, BreaksOff, Peers, OtherEnd
<1>11. ModesAgree'
  BY DEF SecureInv, ModesAgree, BreaksOff, Peers, OtherEnd, Strict
<1>12. SessionsAdvance'
  BY DEF SecureInv, SessionsAdvance, BreaksOff, Peers, OtherEnd
<1>13. PartsAreLast'
  <2>1. link'[q] # link[q] => PartIsLast(link'[q])
    BY <1>2, <1>3, PartsOfAppend DEF BreaksOff
  <2> QED
    BY <1>1, <2>1 DEF SecureInv, PartsAreLast, BreaksOff
<1>14. StrictIsSealed'
  <2>1. PlainIsKey(link[q]) => PlainIsKey(link'[q])
    BY <1>2, PlainOfAppend DEF BreaksOff
  <2> QED
    BY <2>1 DEF SecureInv, StrictIsSealed, BreaksOff, Strict, Peers, OtherEnd
<1>15. StreamsAreNumbered'
  <2>1. stage'[p] # "ended" => StreamIsNumbered(p)'
    BY <1>1 DEF SecureInv, StreamsAreNumbered, StreamIsNumbered, BreaksOff, Base, InHand
  <2>2. ASSUME stage'[q] # "ended" PROVE StreamIsNumbered(q)'
    <3>1. Numbered(p, cipher[p].on, link[q], Base(q), said[p])
      BY <1>1, <2>2 DEF SecureInv, StreamsAreNumbered, StreamIsNumbered, BreaksOff
    <3>2. Base(q) \in Nat /\ said[p] \in Nat
      BY <1>1, Counts DEF SecureInv
    <3>3. Numbered(p, cipher[p].on, link'[q], Base(q), said[p])
      BY <1>2, <1>3, <3>1, <3>2, NumberedAppend DEF BreaksOff
    <3> QED
      BY <1>1, <3>3 DEF BreaksOff, StreamIsNumbered, Base
  <2> QED
    BY <1>1, <2>1, <2>2 DEF StreamsAreNumbered
<1> QED
  BY <1>5, <1>6, <1>7, <1>8, <1>9, <1>10, <1>11, <1>12, <1>13, <1>14, <1>15 DEF SecureInv
(* What those who break off write behind them.                             *)
LEMMA StopsShortTypes ==
    ASSUME SecureTypes, NEW p \in Peers, StopsShort(p)
    PROVE  LET q == OtherEnd(p) IN
           /\ link' \in [Peers -> Seq(WireRecords)] /\ \A r \in Peers : Len(link'[r]) <= MaxInFlight
           /\ link'[p] = link[p] /\ (link'[q] = link[q] \/ link'[q] = Append(link[q], NoRecord))
<1> DEFINE q == OtherEnd(p)
           s == Append(link[q], NoRecord)
<1>1. CASE UNCHANGED link
  BY <1>1 DEF SecureTypes
<1>2. CASE Room(p) /\ Puts(p, PlainRecord("partial"))
  <2>1. link' = [link EXCEPT ![q] = s] /\ Len(link[q]) < MaxInFlight
    BY <1>2 DEF Puts, Room, NoRecord
  <2>2. link \in [Peers -> Seq(WireRecords)] /\ q \in Peers /\ Peers = {p, q} /\ p = OtherEnd(q)
    BY BothEnds DEF SecureTypes
  <2>3. s \in Seq(WireRecords) /\ Len(s) = Len(link[q]) + 1 /\ Len(link[q]) \in Nat
    BY <2>2, AppendAt, PlainIsRecord DEF Kinds
  <2>4. link' \in [Peers -> Seq(WireRecords)] /\ link'[q] = s /\ link'[p] = link[p]
    BY <2>1, <2>2, <2>3, BothEnds
  <2>5. Len(link'[q]) = Len(link[q]) + 1
    BY <2>3, <2>4
  <2>6. Len(link'[q]) <= MaxInFlight
    BY <2>1, <2>3, <2>5, SecureWireAssumption
  <2> QED
    BY <2>2, <2>4, <2>6 DEF SecureTypes
<1> QED
  BY <1>1, <1>2 DEF StopsShort

LEMMA EndsWireTypes ==
    ASSUME SecureTypes, NEW p \in Peers, NEW reason \in {"refused", "left", "eof"},
           EndsWire(p, reason)
    PROVE  LET q == OtherEnd(p) IN
           /\ stage' \in [Peers -> {"start", "await", "session", "split", "ended"}]
           /\ alive' \in [Peers -> BOOLEAN]
           /\ why' \in [Peers -> {"none", "refused", "left", "eof"}]
           /\ stage'[p] = "ended" /\ stage'[q] = stage[q] /\ ~alive'[p] /\ alive'[q] = alive[q]
<1>1. /\ stage' \in [Peers -> {"start", "await", "session", "split", "ended"}]
      /\ stage'[p] = "ended" /\ stage'[OtherEnd(p)] = stage[OtherEnd(p)]
  BY BothEnds DEF EndsWire, SecureTypes
<1>2. alive' \in [Peers -> BOOLEAN] /\ ~alive'[p] /\ alive'[OtherEnd(p)] = alive[OtherEnd(p)]
  BY BothEnds DEF EndsWire, SecureTypes
<1>3. why' \in [Peers -> {"none", "refused", "left", "eof"}]
  BY DEF EndsWire, SecureTypes
<1> QED
  BY <1>1, <1>2, <1>3

LEMMA SendingDropped ==
    ASSUME SecureTypes, NEW p \in Peers, sending' = [sending EXCEPT ![p] = NoRecord]
    PROVE  /\ sending' \in [Peers -> WireRecords]
           /\ sending'[p] = NoRecord /\ sending'[OtherEnd(p)] = sending[OtherEnd(p)]
<1>1. NoRecord \in WireRecords
  BY PlainIsRecord DEF Kinds
<1> QED
  BY <1>1, BothEnds DEF SecureTypes

LEMMA LeavesStep ==
    ASSUME SecureInv, NEW p \in Peers, Leaves(p)
    PROVE  SecureInv'
<1>1. SecureTypes
  BY DEF SecureInv
<1>2. sending[p] # NoRecord => StopsShort(p)
  BY DEF Leaves
<1>3. sending[p] = NoRecord => UNCHANGED link
  BY DEF Leaves
<1>4. SecureTypes'
  BY <1>1, <1>2, <1>3, EndsWireTypes, SendingDropped, StopsShortTypes
     DEF Leaves, SecureTypes
<1>5. BreaksOff(p)
  BY <1>1, <1>2, <1>3, EndsWireTypes, SendingDropped, StopsShortTypes DEF Leaves, BreaksOff
<1> QED
  BY <1>4, <1>5, BreaksOffStep

LEMMA ReadsEndStep ==
    ASSUME SecureInv, NEW p \in Peers, ReadsEnd(p)
    PROVE  SecureInv'
<1>1. SecureTypes
  BY DEF SecureInv
<1>2. stage[p] # "split" => sending[p] = NoRecord
  BY DEF ReadsEnd, Reading, SecureInv, SendingIsLast
<1>3. CASE stage[p] = "split"
  <2>1. alive' \in [Peers -> BOOLEAN] /\ ~alive'[p] /\ alive'[OtherEnd(p)] = alive[OtherEnd(p)]
    BY <1>1, <1>3, BothEnds DEF ReadsEnd, SecureTypes
  <2>2. SecureTypes'
    BY <1>1, <1>3, <2>1 DEF ReadsEnd, SecureTypes
  <2>3. BreaksOff(p)
    BY <1>3, <2>1 DEF ReadsEnd, BreaksOff
  <2> QED
    BY <2>2, <2>3, BreaksOffStep
<1>4. CASE stage[p] # "split"
  <2>1. EndsWire(p, "eof")
    BY <1>4 DEF ReadsEnd
  <2>2. SecureTypes'
    BY <1>1, <2>1, EndsWireTypes DEF ReadsEnd, SecureTypes
  <2>3. BreaksOff(p)
    BY <1>1, <1>2, <1>4, <2>1, EndsWireTypes DEF ReadsEnd, BreaksOff
  <2> QED
    BY <2>2, <2>3, BreaksOffStep
<1> QED
  BY <1>3, <1>4

LEMMA SendCancelledStep ==
    ASSUME SecureInv, NEW p \in Peers, SendCancelled(p)
    PROVE  SecureInv'
<1>1. SecureTypes /\ stage[p] \in {"session", "split"}
  BY DEF SecureInv, SendingIsLast, SendCancelled
<1>2. alive' \in [Peers -> BOOLEAN] /\ ~alive'[p] /\ alive'[OtherEnd(p)] = alive[OtherEnd(p)]
  BY <1>1, BothEnds DEF SendCancelled, SecureTypes, sessionVars
<1>3. SecureTypes'
  BY <1>1, <1>2, SendingDropped, StopsShortTypes DEF SendCancelled, SecureTypes, sessionVars
<1>4. BreaksOff(p)
  BY <1>1, <1>2, SendingDropped, StopsShortTypes DEF SendCancelled, BreaksOff, sessionVars
<1> QED
  BY <1>3, <1>4, BreaksOffStep

LEMMA SendReleasedStep ==
    ASSUME SecureInv, NEW p \in Peers, SendReleased(p)
    PROVE  SecureInv'
<1>1. SecureTypes /\ stage[p] \in {"session", "split"}
  BY DEF SecureInv, SendingIsLast, SendReleased
<1>2. SecureTypes'
  BY <1>1, SendingDropped, StopsShortTypes DEF SendReleased, SecureTypes, sessionVars
<1>3. BreaksOff(p)
  BY <1>1, SendingDropped, StopsShortTypes DEF SendReleased, BreaksOff, sessionVars
<1> QED
  BY <1>2, <1>3, BreaksOffStep
-----------------------------------------------------------------------------
(* The session's next record is the one after the last.                    *)
LEMMA NextIsNth ==
    ASSUME SecureTypes, NEW p \in Peers
    PROVE  NextKind(p) = KindOf(p, said[p] + 1) /\ NextKind(p) \in Kinds
<1>1. said[p] \in Nat
  BY Counts
<1>2. NextKind(p) = KindOf(p, said[p] + 1)
  BY <1>1 DEF NextKind, KindOf, Peers
<1> QED
  BY <1>2, SessionKinds DEF Kinds

LEMMA SendBeginsStep ==
    ASSUME SecureInv, NEW p \in Peers, SendBegins(p)
    PROVE  SecureInv'
<1> DEFINE q == OtherEnd(p)
           n == said[p] + 1
           on == cipher[p].on
<1>1. q \in Peers /\ q # p /\ OtherEnd(q) = p /\ Peers = {p, q}
  BY BothEnds
<1>2. /\ SecureTypes /\ said[p] \in Nat /\ n \in Nat \ {0} /\ n <= MaxRecords
      /\ stage[p] \in {"session", "split"} /\ alive[p] /\ sending[p] = NoRecord
  BY Counts, SecureWireAssumption DEF SecureInv, SendBegins
<1>3. /\ cipher[p] \in [on : BOOLEAN, enc : Nat, dec : Nat]
      /\ on \in BOOLEAN /\ cipher[p].enc \in Nat
      /\ on => cipher[p].enc = said[p]
  <2>1. cipher[p] \in [on : BOOLEAN, enc : Nat, dec : Nat]
    BY <1>2 DEF SecureTypes
  <2> QED
    BY <2>1 DEF SecureInv, CountersAgree
<1>4. /\ cipher' \in [Peers -> [on : BOOLEAN, enc : Nat, dec : Nat]]
      /\ cipher'[p].on = on /\ cipher'[p].dec = cipher[p].dec /\ cipher'[q] = cipher[q]
      /\ cipher'[p].enc \in Nat /\ (on => cipher'[p].enc = n)
  <2> DEFINE enc == IF on THEN cipher[p].enc + 1 ELSE cipher[p].enc
             c == [cipher[p] EXCEPT !.enc = enc]
  <2>1. enc \in Nat /\ (on => enc = n)
    BY <1>2, <1>3
  <2>2. cipher' = [cipher EXCEPT ![p] = c]
    BY DEF SendBegins
  <2> HIDE DEF enc
  <2>3. /\ c \in [on : BOOLEAN, enc : Nat, dec : Nat]
        /\ c.on = on /\ c.enc = enc /\ c.dec = cipher[p].dec
    BY <1>3, <2>1
  <2> HIDE DEF c, on
  <2>4. /\ cipher' \in [Peers -> [on : BOOLEAN, enc : Nat, dec : Nat]]
        /\ cipher'[p] = c /\ cipher'[q] = cipher[q]
    BY <1>1, <1>2, <2>2, <2>3 DEF SecureTypes
  <2> QED
    BY <2>1, <2>3, <2>4
<1>5. /\ sending' \in [Peers -> WireRecords] /\ sending'[q] = sending[q]
      /\ IsNth(p, on, sending'[p], n) /\ sending'[p] # NoRecord
  <2>1. PICK large \in BOOLEAN :
          /\ large => NextKind(p) = "Data"
          /\ sending' = [sending EXCEPT ![p] =
                          [kind |-> NextKind(p), n |-> n, sealed |-> on,
                           nonce |-> cipher'[p].enc, large |-> large]]
    BY DEF SendBegins
  <2> DEFINE r == [kind |-> NextKind(p), n |-> n, sealed |-> on,
                   nonce |-> cipher'[p].enc, large |-> large]
  <2>2. NextKind(p) = KindOf(p, n) /\ NextKind(p) \in Kinds
    BY <1>2, NextIsNth
  <2> HIDE DEF n, on
  <2>3. r \in WireRecords
    BY <1>2, <1>3, <1>4, <2>2 DEF WireRecords
  <2>4. IsNth(p, on, r, n)
    BY <1>2, <1>4, <2>1, <2>2, <2>3 DEF IsNth
  <2> HIDE DEF r
  <2>5. sending' = [sending EXCEPT ![p] = r]
    BY <2>1 DEF r
  <2>6. sending' \in [Peers -> WireRecords] /\ sending'[q] = sending[q] /\ sending'[p] = r
    BY <1>1, <1>2, <2>3, <2>5 DEF SecureTypes
  <2> QED
    BY <2>4, <2>6, NthIsNoOther
<1>6. said' \in [Peers -> 0..MaxRecords] /\ said'[p] = n /\ said'[q] = said[q]
  BY <1>1, <1>2 DEF SendBegins, SecureTypes
<1>7. UNCHANGED <<keys, stage, security, prefetched, alive, link, why, got>>
  BY DEF SendBegins
<1>8. SecureTypes'
  BY <1>2, <1>4, <1>5, <1>6, <1>7 DEF SecureTypes
<1> HIDE DEF n, on
<1>9. n = said[p] + 1 /\ on = cipher[p].on
  BY DEF n, on
<1>10. CountersAgree'
  BY <1>1, <1>4, <1>6, <1>7, <1>9 DEF SecureInv, CountersAgree
<1>11. SendingIsLast'
  BY <1>1, <1>2, <1>4, <1>5, <1>6, <1>7, <1>9 DEF SecureInv, SendingIsLast, PartsAreLast
<1>12. GotInOrder'
  <2>1. Len(got[q]) <= said'[p] /\ Len(got[p]) <= said'[q]
    BY <1>1, <1>2, <1>6, <1>9, Counts DEF SecureInv, GotInOrder
  <2> QED
    BY <1>1, <1>7, <2>1 DEF SecureInv, GotInOrder
<1>13. AliveStages'
  BY <1>7 DEF SecureInv, AliveStages
<1>14. \A r \in Peers : cipher'[r].on = cipher[r].on
  BY <1>1, <1>4, <1>9
<1>15. ViewerIsEarly' /\ HostIsEarly' /\ GreetingsFit' /\ PrefetchedIsHash'
  <2>1. "viewer" \in Peers /\ "host" \in Peers /\ p \in {"viewer", "host"}
        /\ said'["host"] >= said["host"]
    BY <1>1, <1>2, <1>6, <1>9, Counts DEF Peers
  <2>2. ViewerIsEarly'
    BY <1>1, <1>2, <1>6, <1>7, <1>14, <2>1
       DEF SecureInv, ViewerIsEarly, Verified, Strict, OtherEnd
  <2>3. HostIsEarly'
    BY <1>1, <1>2, <1>6, <1>7, <1>14, <2>1 DEF SecureInv, HostIsEarly, OtherEnd
  <2>4. GreetingsFit'
    BY <1>7, <1>14, <2>1 DEF SecureInv, GreetingsFit
  <2>5. PrefetchedIsHash'
    <3>1. said["host"] \in Nat /\ said'["host"] \in Nat
      BY <1>2, <1>6, <1>8, <2>1, Counts, SecureWireAssumption DEF SecureTypes
    <3>2. said["host"] >= 1 => said'["host"] >= 1
      BY <2>1, <3>1
    <3> QED
      BY <1>7, <1>14, <2>1, <3>2 DEF SecureInv, PrefetchedIsHash
  <2> QED
    BY <2>2, <2>3, <2>4, <2>5
<1>16. ModesAgree'
  BY <1>2, <1>6, <1>7, <1>14 DEF SecureInv, ModesAgree, Strict, Peers, OtherEnd
<1>17. SessionsAdvance'
  <2>1. said["host"] \in Nat /\ said["viewer"] \in Nat /\ Len(got["viewer"]) \in Nat
    BY <1>2, Counts DEF Peers
  <2>2. CASE p = "viewer"
    <3>1. said["viewer"] = 0 => Len(got["viewer"]) = 1
      <4>1. Len(<<1>>) = 1
        OBVIOUS
      <4> QED
        BY <2>2, <4>1 DEF SendBegins, MaySend, NextKind
    <3>2. said["viewer"] > 0 => stage["viewer"] = "split"
      <4>1. said["viewer"] > 0 => NextKind("viewer") = "Data"
        BY <2>1 DEF NextKind
      <4> QED
        BY <2>2, <4>1 DEF SendBegins, MaySend
    <3>3. said'["viewer"] = said["viewer"] + 1 /\ said'["host"] = said["host"]
          /\ sending'["host"] = sending["host"]
      BY <1>5, <1>6, <1>9, <2>2 DEF OtherEnd
    <3>4. SessionsAdvance
      BY DEF SecureInv
    <3>5. /\ Len(got["viewer"]) >= 1
          /\ said'["viewer"] >= 2 => Len(got["viewer"]) >= 2
      <4>1. stage["viewer"] = "split" => Len(got["viewer"]) >= 2
        BY <3>4 DEF SessionsAdvance
      <4> DEFINE m == Len(got["viewer"])
                 k == said["viewer"]
      <4>2. m \in Nat /\ k \in Nat /\ said'["viewer"] = k + 1 /\ (k = 0 => m = 1)
            /\ (k > 0 => m >= 2)
        BY <2>1, <3>1, <3>2, <3>3, <4>1
      <4> HIDE DEF m, k
      <4>3. m >= 1 /\ (said'["viewer"] >= 2 => m >= 2)
        BY <4>2
      <4> QED
        BY <4>3 DEF m
    <3> QED
      BY <1>7, <3>3, <3>4, <3>5 DEF SessionsAdvance
  <2>3. CASE p = "host"
    <3>1. said'["host"] = said["host"] + 1 /\ said'["viewer"] = said["viewer"]
          /\ sending'["host"] # NoRecord /\ sending["host"] = NoRecord
      BY <1>2, <1>5, <1>6, <1>9, <2>3 DEF OtherEnd
    <3> QED
      BY <1>7, <2>1, <3>1 DEF SecureInv, SessionsAdvance
  <2> QED
    BY <2>2, <2>3 DEF Peers
<1>18. PartsAreLast' /\ StrictIsSealed'
  BY <1>7 DEF SecureInv, PartsAreLast, StrictIsSealed, Strict
<1>19. StreamsAreNumbered'
  <2>1. Base(p)' = Base(p) /\ Base(q)' = Base(q) /\ InHand(q)' = InHand(q)
        /\ InHand(p) = 0 /\ InHand(p)' = 1
    BY <1>2, <1>5, <1>7 DEF Base, InHand
  <2>2. stage'[p] # "ended" => StreamIsNumbered(p)'
    <3>1. stage[p] # "ended" => StreamIsNumbered(p)
      BY DEF SecureInv, StreamsAreNumbered
    <3> QED
      BY <1>1, <1>6, <1>7, <1>14, <2>1, <3>1 DEF StreamIsNumbered
  <2>3. ASSUME stage'[q] # "ended" PROVE StreamIsNumbered(q)'
    <3>1. /\ Numbered(p, cipher[p].on, link[q], Base(q), said[p])
          /\ Base(q) + Len(link[q]) - Skip(link[q]) + InHand(p) = said[p]
      BY <1>1, <1>2, <1>7, <2>3 DEF SecureInv, StreamsAreNumbered, StreamIsNumbered
    <3>2. Base(q) \in Nat /\ link[q] \in Seq(WireRecords) /\ Len(link[q]) \in Nat
          /\ Skip(link[q]) \in {0, 1}
      BY <1>1, <1>2, Counts
    <3>3. n <= n /\ said[p] <= n
      BY <1>2, <1>9
    <3>4. Numbered(p, cipher[p].on, link[q], Base(q), n)
      BY <1>2, <3>1, <3>2, <3>3, NumberedHigher
    <3>5. Base(q) + Len(link[q]) - Skip(link[q]) + 1 = n
      BY <1>2, <1>9, <2>1, <3>1, <3>2
    <3> QED
      BY <1>1, <1>6, <1>7, <1>14, <2>1, <3>4, <3>5 DEF StreamIsNumbered
  <2> QED
    BY <1>1, <2>2, <2>3 DEF StreamsAreNumbered
<1> QED
  BY <1>8, <1>10, <1>11, <1>12, <1>13, <1>15, <1>16, <1>17, <1>18, <1>19 DEF SecureInv
LEMMA SendCompletesStep ==
    ASSUME SecureInv, NEW p \in Peers, SendCompletes(p)
    PROVE  SecureInv'
<1> DEFINE q == OtherEnd(p)
           r == sending[p]
           s == Append(link[q], r)
<1>1. q \in Peers /\ q # p /\ OtherEnd(q) = p /\ Peers = {p, q}
  BY BothEnds
<1>2. /\ SecureTypes /\ alive[p] /\ r # NoRecord /\ Len(link[q]) < MaxInFlight
      /\ stage[p] \in {"session", "split"} /\ NoPart(link[q])
      /\ IsNth(p, cipher[p].on, r, said[p])
  BY DEF SecureInv, SendingIsLast, SendCompletes, HasRoom, Room
<1>3. r \in WireRecords /\ r.kind \notin Greetings /\ r.kind # "partial"
      /\ r.sealed = cipher[p].on /\ r.kind = KindOf(p, said[p]) /\ said[p] \in Nat
  BY <1>2, NthIsNoOther, Counts DEF IsNth
<1>4. link[q] \in Seq(WireRecords) /\ Len(link[q]) \in Nat /\ Base(q) \in Nat
      /\ Skip(link[q]) \in {0, 1}
  BY <1>1, <1>2, Counts
<1>5. /\ s \in Seq(WireRecords) /\ s # <<>> /\ Len(s) = Len(link[q]) + 1
      /\ Head(s) = IF link[q] = <<>> THEN r ELSE Head(link[q])
  BY <1>3, <1>4, AppendAt
<1>6. Greets(s) = Greets(link[q]) /\ Skip(s) = Skip(link[q])
  BY <1>3, <1>4, AppendKeepsGreeting
<1>7. /\ NoPart(s) /\ PartIsLast(s)
      /\ PlainIsKey(link[q]) /\ r.sealed => PlainIsKey(s)
  BY <1>2, <1>3, <1>4, PartsOfAppend, PlainOfAppend
<1> HIDE DEF s
<1>8. link' = [link EXCEPT ![q] = s]
  BY DEF SendCompletes, Puts, s
<1>9. /\ link' \in [Peers -> Seq(WireRecords)] /\ link'[q] = s /\ link'[p] = link[p]
      /\ \A e \in Peers : Len(link'[e]) <= MaxInFlight
  <2>1. link' \in [Peers -> Seq(WireRecords)] /\ link'[q] = s /\ link'[p] = link[p]
    BY <1>1, <1>2, <1>5, <1>8 DEF SecureTypes
  <2>2. Len(s) <= MaxInFlight
    BY <1>2, <1>4, <1>5, SecureWireAssumption
  <2> QED
    BY <1>1, <1>2, <2>1, <2>2 DEF SecureTypes
<1>10. /\ sending' \in [Peers -> WireRecords]
       /\ sending'[p] = NoRecord /\ sending'[q] = sending[q]
  BY <1>2, SendingDropped DEF SendCompletes
<1>11. cipher' = cipher
  BY <1>2 DEF SendCompletes, Split, SecureTypes
<1>12. /\ stage' \in [Peers -> {"start", "await", "session", "split", "ended"}]
       /\ stage'[q] = stage[q]
       /\ r.kind = "Permission" => stage'[p] = "split"
       /\ r.kind # "Permission" => stage'[p] = stage[p]
  BY <1>1, <1>2 DEF SendCompletes, SecureTypes
<1>13. UNCHANGED <<keys, security, prefetched, alive, why, said, got>>
  BY DEF SendCompletes, sessionVars
<1>14. r.kind = "Permission" <=> (p = "host" /\ said[p] = 3)
  BY <1>3 DEF KindOf
<1> HIDE DEF r
<1>15. SecureTypes'
  BY <1>2, <1>9, <1>10, <1>11, <1>12, <1>13 DEF SecureTypes
<1>16. CountersAgree' /\ GotInOrder' /\ ModesAgree'
  <2>1. stage'["host"] \in {"session", "split"} => stage["host"] \in {"session", "split"}
    BY <1>1, <1>2, <1>12, <1>14 DEF Peers
  <2>2. stage'["viewer"] = stage["viewer"]
    BY <1>1, <1>12, <1>14 DEF Peers, OtherEnd
  <2> QED
    BY <1>11, <1>13, <2>1, <2>2
       DEF SecureInv, CountersAgree, GotInOrder, ModesAgree, Strict
<1>17. SendingIsLast'
  BY <1>1, <1>9, <1>10, <1>11, <1>12, <1>13 DEF SecureInv, SendingIsLast
<1>18. AliveStages'
  BY <1>1, <1>2, <1>12, <1>13 DEF SecureInv, AliveStages
<1>19. ViewerIsEarly'
  BY <1>1, <1>2, <1>9, <1>11, <1>12, <1>13
     DEF SecureInv, ViewerIsEarly, Verified, Strict, Peers, OtherEnd
<1>20. HostIsEarly'
  BY <1>1, <1>2, <1>5, <1>6, <1>9, <1>11, <1>12, <1>13
     DEF SecureInv, HostIsEarly, Peers, OtherEnd
<1>21. GreetingsFit'
  BY <1>1, <1>2, <1>5, <1>6, <1>9, <1>11, <1>12, <1>13
     DEF SecureInv, GreetingsFit, Greets, Peers, OtherEnd
<1>22. PrefetchedIsHash'
  BY <1>1, <1>2, <1>11, <1>12, <1>13, <1>14 DEF SecureInv, PrefetchedIsHash, Peers, OtherEnd
<1>23. SessionsAdvance'
  <2>1. SessionsAdvance /\ said["host"] \in Nat
    BY <1>2, Counts DEF SecureInv, Peers
  <2>2. CASE p = "viewer"
    <3>1. /\ stage'["viewer"] = stage["viewer"] /\ stage'["host"] = stage["host"]
          /\ sending'["host"] = sending["host"]
      BY <1>10, <1>12, <1>14, <2>2 DEF OtherEnd
    <3> QED
      BY <1>13, <2>1, <3>1 DEF SessionsAdvance
  <2>3. CASE p = "host"
    <3>1. /\ stage'["viewer"] = stage["viewer"]
          /\ said["host"] = 3 => stage'["host"] = "split"
          /\ said["host"] # 3 => stage'["host"] = stage["host"]
      BY <1>12, <1>14, <2>3 DEF OtherEnd
    <3> QED
      BY <1>13, <2>1, <3>1 DEF SessionsAdvance
  <2> QED
    BY <2>2, <2>3 DEF Peers
<1>24. PartsAreLast'
  BY <1>1, <1>7, <1>9, <1>13 DEF SecureInv, PartsAreLast
<1>25. StrictIsSealed'
  BY <1>1, <1>2, <1>3, <1>7, <1>9, <1>13
     DEF SecureInv, StrictIsSealed, ModesAgree, Strict, Peers, OtherEnd, r
<1>26. StreamsAreNumbered'
  <2>1. Base(p)' = Base(p) /\ Base(q)' = Base(q) /\ InHand(q)' = InHand(q)
        /\ InHand(p) = 1 /\ InHand(p)' = 0
    BY <1>2, <1>10, <1>13 DEF Base, InHand, r
  <2>2. stage'[p] # "ended" => StreamIsNumbered(p)'
    <3>1. stage[p] # "ended" => StreamIsNumbered(p)
      BY DEF SecureInv, StreamsAreNumbered
    <3> QED
      BY <1>1, <1>2, <1>9, <1>11, <1>13, <2>1, <3>1 DEF StreamIsNumbered
  <2>3. ASSUME stage'[q] # "ended" PROVE StreamIsNumbered(q)'
    <3>1. /\ Numbered(p, cipher[p].on, link[q], Base(q), said[p])
          /\ Base(q) + Len(link[q]) - Skip(link[q]) + InHand(p) = said[p]
      BY <1>1, <1>2, <1>12, <2>3 DEF SecureInv, StreamsAreNumbered, StreamIsNumbered
    <3>2. Base(q) + Len(link[q]) + 1 - Skip(link[q]) = said[p]
      BY <1>4, <2>1, <3>1
    <3>3. Base(q) + Len(link[q]) + 1 - Skip(link[q]) <= said[p]
      BY <1>3, <3>2
    <3>4. Numbered(p, cipher[p].on, s, Base(q), said[p])
      BY <1>2, <1>3, <1>4, <3>1, <3>2, <3>3, NumberedAppend DEF s
    <3>5. Base(q) + Len(s) - Skip(s) + 0 = said[p]
      BY <1>4, <1>5, <1>6, <3>2
    <3> QED
      BY <1>1, <1>9, <1>11, <1>13, <2>1, <3>4, <3>5 DEF StreamIsNumbered
  <2> QED
    BY <1>1, <2>2, <2>3 DEF StreamsAreNumbered
<1> QED
  BY <1>15, <1>16, <1>17, <1>18, <1>19, <1>20, <1>21, <1>22, <1>23, <1>24, <1>25, <1>26
     DEF SecureInv
-----------------------------------------------------------------------------
(* Reading.                                                                *)

LEMMA OrderGrows ==
    ASSUME NEW g \in Seq(Nat), g = [i \in 1..Len(g) |-> i]
    PROVE  LET h == Append(g, Len(g) + 1) IN
           h \in Seq(Nat) /\ Len(h) = Len(g) + 1 /\ h = [i \in 1..Len(h) |-> i]
<1> DEFINE e == Len(g) + 1
           h == Append(g, e)
<1>1. Len(g) \in Nat /\ e \in Nat
  OBVIOUS
<1>2. /\ h \in Seq(Nat) /\ Len(h) = Len(g) + 1 /\ h[Len(g) + 1] = e
      /\ \A i \in 1..Len(g) : h[i] = g[i]
  BY <1>1, AppendAt
<1>3. e = Len(g) + 1
  OBVIOUS
<1> HIDE DEF h, e
<1>4. h = [i \in 1..Len(h) |-> h[i]]
  BY <1>2
<1>5. ASSUME NEW i \in 1..Len(h) PROVE h[i] = i
  <2>1. CASE i = Len(g) + 1
    BY <1>2, <1>3, <2>1
  <2>2. CASE i \in 1..Len(g)
    BY <1>2, <2>2
  <2> QED
    BY <1>1, <1>2, <2>1, <2>2
<1>6. h = [i \in 1..Len(h) |-> i]
  BY <1>4, <1>5
<1> QED
  BY <1>2, <1>6 DEF h, e

(* The next session record, in the receiver's mode, is taken.              *)
LEMMA TakesNext ==
    ASSUME SecureInv, NEW p \in Peers, NEW r,
           IsNth(OtherEnd(p), cipher[p].on, r, Len(got[p]) + 1),
           r.large => stage[p] = "split", Dispatches(p, r), stage[p] \in {"session", "split"}
    PROVE  LET q == OtherEnd(p)
               n == Len(got[p]) + 1
           IN  /\ cipher' \in [Peers -> [on : BOOLEAN, enc : Nat, dec : Nat]]
               /\ cipher'[q] = cipher[q] /\ cipher'[p].on = cipher[p].on
               /\ cipher'[p].enc = cipher[p].enc
               /\ cipher[p].on => cipher'[p].dec = n
               /\ stage' \in [Peers -> {"start", "await", "session", "split", "ended"}]
               /\ stage'[q] = stage[q]
               /\ r.kind = "PeerInfo" => stage'[p] = "split"
               /\ r.kind # "PeerInfo" => stage'[p] = stage[p]
               /\ got' \in [Peers -> Seq(Nat)]
               /\ got'[q] = got[q] /\ Len(got'[p]) = n
               /\ got'[p] = [i \in 1..n |-> i]
               /\ UNCHANGED <<alive, why>>
<1> DEFINE q == OtherEnd(p)
           n == Len(got[p]) + 1
           on == cipher[p].on
           read == [cipher[p] EXCEPT !.dec = IF r.sealed THEN @ + 1 ELSE @]
<1>1. q \in Peers /\ q # p /\ Peers = {p, q}
  BY BothEnds
<1>2. SecureTypes /\ Len(got[p]) \in Nat /\ n \in Nat \ {0}
  BY Counts DEF SecureInv
<1>3. /\ r \in WireRecords /\ r.n = n /\ r.sealed = on /\ (r.sealed => r.nonce = n)
  BY DEF IsNth
<1>4. cipher[p] \in [on : BOOLEAN, enc : Nat, dec : Nat]
  BY <1>2 DEF SecureTypes
<1>5. on \in BOOLEAN /\ cipher[p].enc \in Nat /\ cipher[p].dec \in Nat
  BY <1>4
<1>6. on => cipher[p].dec + 1 = n
  BY DEF SecureInv, CountersAgree
<1>7. Decodes(p, r) /\ ~TooLarge(p, r) /\ r.n # 0
  BY <1>2, <1>3, <1>6 DEF Decodes, TooLarge
<1>8. Takes(p, r)
  BY <1>7 DEF Dispatches
<1>9. cipher' = [cipher EXCEPT ![p] = read]
  BY <1>8 DEF Takes, Split
<1>10. /\ read \in [on : BOOLEAN, enc : Nat, dec : Nat]
       /\ read.on = on /\ read.enc = cipher[p].enc /\ (on => read.dec = n)
  <2> DEFINE dec == IF r.sealed THEN cipher[p].dec + 1 ELSE cipher[p].dec
  <2>1. dec \in Nat /\ (on => dec = n)
    BY <1>3, <1>5, <1>6
  <2>2. read = [cipher[p] EXCEPT !.dec = dec]
    OBVIOUS
  <2> HIDE DEF dec, read
  <2> QED
    BY <1>4, <2>1, <2>2
<1> HIDE DEF read
<1>11. /\ cipher' \in [Peers -> [on : BOOLEAN, enc : Nat, dec : Nat]]
       /\ cipher'[q] = cipher[q] /\ cipher'[p] = read
  BY <1>1, <1>2, <1>9, <1>10 DEF SecureTypes
<1>12. /\ stage' \in [Peers -> {"start", "await", "session", "split", "ended"}]
       /\ stage'[q] = stage[q]
       /\ r.kind = "PeerInfo" => stage'[p] = "split"
       /\ r.kind # "PeerInfo" => stage'[p] = stage[p]
  BY <1>1, <1>2, <1>8 DEF Takes, SecureTypes
<1> DEFINE g == Append(got[p], n)
<1>13. got[p] \in Seq(Nat) /\ got[p] = [i \in 1..Len(got[p]) |-> i]
  BY <1>2 DEF SecureInv, GotInOrder, SecureTypes
<1>14. g \in Seq(Nat) /\ Len(g) = n /\ g = [i \in 1..Len(g) |-> i]
  BY <1>13, OrderGrows
<1> HIDE DEF g
<1>15. got' = [got EXCEPT ![p] = g]
  BY <1>3, <1>7, <1>8 DEF Takes, g
<1>16. got' \in [Peers -> Seq(Nat)] /\ got'[q] = got[q] /\ got'[p] = g
  BY <1>1, <1>2, <1>14, <1>15 DEF SecureTypes
<1>17. UNCHANGED <<alive, why>>
  BY <1>8 DEF Takes
<1> QED
  BY <1>10, <1>11, <1>12, <1>14, <1>16, <1>17

(* A greeting that comes to a session is passed over.                      *)
LEMMA TakesNothing ==
    ASSUME SecureTypes, NEW p \in Peers, NEW kind \in Greetings, ~cipher[p].on,
           Ignored(p, kind), Dispatches(p, PlainRecord(kind))
    PROVE  UNCHANGED <<cipher, stage, got, alive, why>>
<1> DEFINE r == PlainRecord(kind)
<1>1. /\ r.kind = kind /\ r.n = 0 /\ ~r.sealed /\ ~r.large
      /\ kind # "PeerInfo"
  BY PlainIsRecord DEF Greetings, Kinds
<1>2. cipher[p] \in [on : BOOLEAN, enc : Nat, dec : Nat] /\ r \in WireRecords
  BY PlainIsRecord DEF SecureTypes, Greetings, Kinds
<1>3. cipher[p].on = FALSE /\ r.sealed = FALSE
  BY <1>1, <1>2 DEF WireRecords
<1> HIDE DEF r
<1>4. Takes(p, r)
  BY <1>1, <1>3 DEF Dispatches, Decodes, TooLarge, r
<1>5. [cipher[p] EXCEPT !.dec = @] = cipher[p]
  BY <1>2
<1>6. cipher' = [cipher EXCEPT ![p] = cipher[p]]
  BY <1>1, <1>3, <1>4, <1>5 DEF Takes
<1>7. cipher' = cipher
  BY <1>6 DEF SecureTypes
<1>8. stage' = [stage EXCEPT ![p] = stage[p]] /\ got' = got /\ UNCHANGED <<alive, why>>
  BY <1>1, <1>4 DEF Takes
<1>9. stage' = stage
  BY <1>8 DEF SecureTypes
<1> QED
  BY <1>7, <1>8, <1>9
(* What reading leaves of the stream.                                      *)
LEMMA ReadOne ==
    ASSUME SecureInv, NEW p \in Peers, link[p] # <<>>, link' = [link EXCEPT ![p] = Tail(link[p])]
    PROVE  /\ link' \in [Peers -> Seq(WireRecords)]
           /\ \A e \in Peers : Len(link'[e]) <= MaxInFlight
           /\ link'[p] = Tail(link[p]) /\ link'[OtherEnd(p)] = link[OtherEnd(p)]
           /\ PartIsLast(link'[p]) /\ (NoPart(link[p]) => NoPart(link'[p]))
           /\ PlainIsKey(link[p]) => PlainIsKey(link'[p])
<1> DEFINE t == Tail(link[p])
<1>1. SecureTypes /\ link[p] \in Seq(WireRecords) /\ PartIsLast(link[p])
  BY Counts DEF SecureInv, PartsAreLast
<1>2. t \in Seq(WireRecords) /\ Len(t) = Len(link[p]) - 1 /\ Len(link[p]) \in Nat
  BY <1>1, TailAt
<1>3. PartIsLast(t) /\ (NoPart(link[p]) => NoPart(t)) /\ (PlainIsKey(link[p]) => PlainIsKey(t))
  BY <1>1, PartsOfTail
<1> HIDE DEF t
<1>4. link' = [link EXCEPT ![p] = t]
  BY DEF t
<1>5. /\ link' \in [Peers -> Seq(WireRecords)] /\ link'[p] = t
      /\ link'[OtherEnd(p)] = link[OtherEnd(p)]
  BY <1>1, <1>2, <1>4, BothEnds DEF SecureTypes
<1>6. Len(t) <= MaxInFlight
  BY <1>1, <1>2, SecureWireAssumption DEF SecureTypes
<1>7. \A e \in Peers : Len(link'[e]) <= MaxInFlight
  BY <1>1, <1>5, <1>6, BothEnds DEF SecureTypes
<1> QED
  BY <1>3, <1>5, <1>7 DEF t

(* A late greeting is read by the session.                                 *)
LEMMA ReceivesGreetingStep ==
    ASSUME SecureInv, NEW p \in Peers, Receives(p), Greets(link[p])
    PROVE  SecureInv'
<1> DEFINE q == OtherEnd(p)
           s == link[p]
           kind == Head(s).kind
<1>1. q \in Peers /\ q # p /\ OtherEnd(q) = p /\ Peers = {p, q}
  BY BothEnds
<1>2. SecureTypes /\ alive[p] /\ stage[p] \in {"session", "split"} /\ s # <<>>
  BY DEF SecureInv, Receives, Reading
<1>3. s \in Seq(WireRecords) /\ Len(s) \in Nat /\ Base(p) \in Nat /\ said[q] \in Nat
  BY <1>1, <1>2, Counts
<1>4. StreamIsNumbered(p)
  BY <1>2 DEF SecureInv, StreamsAreNumbered
<1>5. /\ Numbered(q, cipher[q].on, Tail(s), Base(p), said[q])
      /\ ~Greets(Tail(s)) /\ Skip(Tail(s)) = 0
      /\ Head(s) = PlainRecord(kind) /\ kind \in Greetings
      /\ Len(Tail(s)) - Skip(Tail(s)) = Len(s) - Skip(s)
  BY <1>3, <1>4, NumberedTakeGreeting DEF StreamIsNumbered
<1>6. ~cipher[p].on /\ Ignored(p, kind)
  BY <1>2 DEF SecureInv, GreetingsFit, ModesAgree, Ignored, Peers
<1>7. Dispatches(p, PlainRecord(kind))
  BY <1>5 DEF Receives
<1>8. UNCHANGED <<cipher, stage, got, alive, why>>
  BY <1>2, <1>5, <1>6, <1>7, TakesNothing
<1>9. UNCHANGED <<keys, security, prefetched, sending, said>>
  BY DEF Receives
<1>10. /\ link' \in [Peers -> Seq(WireRecords)]
       /\ \A e \in Peers : Len(link'[e]) <= MaxInFlight
       /\ link'[p] = Tail(s) /\ link'[q] = link[q]
       /\ PartIsLast(link'[p]) /\ (NoPart(s) => NoPart(link'[p]))
       /\ PlainIsKey(s) => PlainIsKey(link'[p])
  BY <1>2, ReadOne DEF Receives
<1> HIDE DEF s, kind
<1>11. s = link[p]
  BY DEF s
<1>12. SecureTypes'
  BY <1>2, <1>8, <1>9, <1>10 DEF SecureTypes
<1>13. CountersAgree' /\ GotInOrder' /\ AliveStages' /\ PrefetchedIsHash' /\ ModesAgree'
       /\ SessionsAdvance'
  BY <1>8, <1>9 DEF SecureInv, CountersAgree, GotInOrder, AliveStages, PrefetchedIsHash,
                    ModesAgree, SessionsAdvance, Strict
<1>14. SendingIsLast'
  BY <1>1, <1>8, <1>9, <1>10, <1>11 DEF SecureInv, SendingIsLast
<1>15. ViewerIsEarly'
  BY <1>2, <1>8, <1>9, <1>10, <1>11
     DEF SecureInv, ViewerIsEarly, Verified, Strict, Peers, OtherEnd
<1>16. HostIsEarly'
  BY <1>2, <1>8, <1>9, <1>10, <1>11 DEF SecureInv, HostIsEarly, Peers, OtherEnd
<1>17. GreetingsFit'
  BY <1>1, <1>5, <1>8, <1>9, <1>10 DEF SecureInv, GreetingsFit, Peers, OtherEnd
<1>18. PartsAreLast'
  BY <1>1, <1>8, <1>10, <1>11 DEF SecureInv, PartsAreLast
<1>19. StrictIsSealed'
  BY <1>8, <1>9, <1>10, <1>11 DEF SecureInv, StrictIsSealed, Strict, Peers, OtherEnd
<1>20. StreamsAreNumbered'
  <2>1. \A e \in Peers : Base(e)' = Base(e) /\ InHand(e)' = InHand(e)
    BY <1>8, <1>9 DEF Base, InHand
  <2>2. StreamIsNumbered(p)'
    <3>1. Base(p) + Len(Tail(s)) - Skip(Tail(s)) + InHand(q)
            = Base(p) + Len(s) - Skip(s) + InHand(q)
      <4> DEFINE b == Base(p)
                 k == Len(Tail(s))
                 l == Len(s)
                 i == Skip(Tail(s))
                 j == Skip(s)
                 e == InHand(q)
      <4>1. b \in Nat /\ k \in Nat /\ l \in Nat /\ e \in Nat /\ i \in Nat /\ j \in Nat
        BY <1>1, <1>2, <1>3, <1>5, <1>11, TailAt, Counts
      <4>2. k - i = l - j
        BY <1>5
      <4> HIDE DEF b, k, l, i, j, e
      <4>3. b + k - i + e = b + l - j + e
        BY <4>1, <4>2
      <4> QED
        BY <4>3 DEF b, k, l, i, j, e
    <3> QED
      BY <1>1, <1>4, <1>5, <1>8, <1>9, <1>10, <1>11, <2>1, <3>1 DEF StreamIsNumbered
  <2>3. stage'[q] # "ended" => StreamIsNumbered(q)'
    BY <1>1, <1>8, <1>9, <1>10, <2>1 DEF SecureInv, StreamsAreNumbered, StreamIsNumbered
  <2> QED
    BY <1>1, <2>2, <2>3 DEF StreamsAreNumbered
<1> QED
  BY <1>12, <1>13, <1>14, <1>15, <1>16, <1>17, <1>18, <1>19, <1>20 DEF SecureInv
(* The session's next record is read.                                      *)
LEMMA ReceivesNextStep ==
    ASSUME SecureInv, NEW p \in Peers, Receives(p), ~Greets(link[p])
    PROVE  SecureInv'
<1> DEFINE q == OtherEnd(p)
           s == link[p]
           r == Head(s)
           n == Len(got[p]) + 1
<1>1. q \in Peers /\ q # p /\ OtherEnd(q) = p /\ Peers = {p, q}
  BY BothEnds
<1>2. /\ SecureTypes /\ alive[p] /\ stage[p] \in {"session", "split"}
      /\ s # <<>> /\ r.kind # "partial" /\ Dispatches(p, r)
      /\ prefetched = NoRecord \/ p = "host"
  BY DEF SecureInv, Receives, Reading
<1>3. /\ s \in Seq(WireRecords) /\ Len(s) \in Nat /\ said[q] \in Nat
      /\ Len(got[p]) \in Nat /\ Base(p) \in Nat
  BY <1>1, <1>2, Counts
<1>4. Base(p) = Len(got[p])
  <2>1. ~(p = "viewer" /\ prefetched # NoRecord)
    BY <1>2
  <2> DEFINE m == Len(got[p])
             one == p = "viewer" /\ prefetched # NoRecord
  <2>2. m \in Nat /\ ~one /\ Base(p) = m + (IF one THEN 1 ELSE 0)
    BY <1>3, <2>1 DEF Base
  <2> HIDE DEF m, one
  <2>3. Base(p) = m
    BY <2>2
  <2> QED
    BY <2>3 DEF m
<1>5. StreamIsNumbered(p)
  BY <1>2 DEF SecureInv, StreamsAreNumbered
<1>6. /\ IsNth(q, cipher[q].on, r, n) /\ n <= said[q]
      /\ Numbered(q, cipher[q].on, Tail(s), n, said[q])
      /\ ~Greets(Tail(s)) /\ Skip(Tail(s)) = 0 /\ Skip(s) = 0
      /\ Len(Tail(s)) = Len(s) - 1
  BY <1>2, <1>3, <1>4, <1>5, NumberedTakeNext DEF StreamIsNumbered
<1>7. r.kind = KindOf(q, n) /\ (r.large => r.kind = "Data")
  BY <1>6 DEF IsNth
<1>8. cipher[p].on = cipher[q].on
  <2>1. p = "viewer" => said["host"] > 0
    BY <1>3, <1>6 DEF OtherEnd
  <2> QED
    BY <1>2, <2>1 DEF SecureInv, ModesAgree, Peers, OtherEnd
<1>9. r.large => stage[p] = "split"
  <2> SUFFICES ASSUME r.large, stage[p] = "session" PROVE FALSE
    BY <1>2
  <2>1. KindOf(q, n) = "Data"
    BY <1>7
  <2>2. CASE p = "viewer"
    <3>1. ~(Len(got["viewer"]) >= 2)
      BY <1>2, <2>2 DEF SecureInv, SessionsAdvance
    <3>2. n = 1 \/ n = 2
      BY <1>3, <2>2, <3>1
    <3> QED
      BY <2>1, <2>2, <3>2 DEF KindOf, OtherEnd
  <2>3. CASE p = "host"
    <3>1. /\ said["host"] \in Nat /\ said["host"] \notin {0, 2} /\ said["host"] <= 3
          /\ said["host"] # 3
      BY <1>2, <2>3, Counts DEF SecureInv, SessionsAdvance, Receives, Reading
    <3>2. said["host"] = 1
      BY <3>1
    <3>3. n # 1
      BY <2>1, <2>3 DEF KindOf, OtherEnd
    <3>4. said["viewer"] >= 2
      BY <1>3, <1>6, <2>3, <3>3 DEF OtherEnd
    <3>5. Len(got["viewer"]) >= 2 /\ Len(got["viewer"]) <= said["host"]
      BY <3>4 DEF SecureInv, SessionsAdvance, GotInOrder, Peers, OtherEnd
    <3>6. Len(got["viewer"]) \in Nat
      BY <1>2, Counts DEF Peers
    <3> QED
      BY <3>2, <3>5, <3>6
  <2> QED
    BY <2>2, <2>3 DEF Peers
<1>10. /\ cipher' \in [Peers -> [on : BOOLEAN, enc : Nat, dec : Nat]]
       /\ cipher'[q] = cipher[q] /\ cipher'[p].on = cipher[p].on
       /\ cipher'[p].enc = cipher[p].enc
       /\ cipher[p].on => cipher'[p].dec = n
       /\ stage' \in [Peers -> {"start", "await", "session", "split", "ended"}]
       /\ stage'[q] = stage[q]
       /\ r.kind = "PeerInfo" => stage'[p] = "split"
       /\ r.kind # "PeerInfo" => stage'[p] = stage[p]
       /\ got' \in [Peers -> Seq(Nat)]
       /\ got'[q] = got[q] /\ Len(got'[p]) = n
       /\ got'[p] = [i \in 1..n |-> i]
       /\ UNCHANGED <<alive, why>>
  BY <1>2, <1>6, <1>8, <1>9, TakesNext
<1>11. UNCHANGED <<keys, security, prefetched, sending, said>>
  BY DEF Receives
<1>12. /\ link' \in [Peers -> Seq(WireRecords)]
       /\ \A e \in Peers : Len(link'[e]) <= MaxInFlight
       /\ link'[p] = Tail(s) /\ link'[q] = link[q]
       /\ PartIsLast(link'[p]) /\ (NoPart(s) => NoPart(link'[p]))
       /\ PlainIsKey(s) => PlainIsKey(link'[p])
  BY <1>2, ReadOne DEF Receives
<1> HIDE DEF s, r, n
<1>13. s = link[p] /\ n = Len(got[p]) + 1
  BY DEF s, n
<1>14. SecureTypes'
  BY <1>2, <1>10, <1>11, <1>12 DEF SecureTypes
<1>15. CountersAgree'
  BY <1>1, <1>10, <1>11 DEF SecureInv, CountersAgree
<1>16. SendingIsLast'
  BY <1>1, <1>2, <1>10, <1>11, <1>12, <1>13 DEF SecureInv, SendingIsLast
<1>17. GotInOrder'
  BY <1>1, <1>6, <1>10, <1>11 DEF SecureInv, GotInOrder
<1>18. AliveStages'
  BY <1>1, <1>2, <1>10 DEF SecureInv, AliveStages
<1>19. stage'[p] \in {"session", "split"} /\ (\A e \in Peers : cipher'[e].on = cipher[e].on)
  BY <1>1, <1>2, <1>10
<1>20. ViewerIsEarly'
  BY <1>1, <1>2, <1>10, <1>11, <1>12, <1>13, <1>19
     DEF SecureInv, ViewerIsEarly, Verified, Strict, Peers, OtherEnd
<1>21. HostIsEarly'
  <2>1. CASE p = "host"
    BY <1>19, <2>1 DEF HostIsEarly
  <2>2. CASE p = "viewer"
    <3>1. said["host"] # 0
      BY <1>3, <1>6, <1>13, <2>2 DEF OtherEnd
    <3>2. stage'["host"] \notin {"start", "await"}
      BY <1>10, <2>2, <3>1 DEF SecureInv, HostIsEarly, OtherEnd
    <3> QED
      BY <3>2 DEF HostIsEarly
  <2> QED
    BY <2>1, <2>2 DEF Peers
<1>22. GreetingsFit'
  <2>1. CASE p = "host"
    BY <1>6, <1>10, <1>11, <1>12, <1>19, <2>1 DEF SecureInv, GreetingsFit, OtherEnd
  <2>2. CASE p = "viewer"
    BY <1>6, <1>10, <1>11, <1>12, <1>19, <2>2 DEF SecureInv, GreetingsFit, OtherEnd
  <2> QED
    BY <2>1, <2>2 DEF Peers
<1>23. ModesAgree'
  BY <1>1, <1>2, <1>10, <1>11, <1>19 DEF SecureInv, ModesAgree, Strict, Peers, OtherEnd
<1>24. PrefetchedIsHash'
  BY <1>1, <1>2, <1>10, <1>11, <1>19 DEF SecureInv, PrefetchedIsHash, Peers, OtherEnd
<1>25. SessionsAdvance'
  <2>1. SessionsAdvance
    BY DEF SecureInv
  <2>2. CASE p = "host"
    <3>1. r.kind # "PeerInfo"
      BY <1>7, <2>2 DEF KindOf, OtherEnd
    <3>2. /\ got'["viewer"] = got["viewer"] /\ stage'["viewer"] = stage["viewer"]
          /\ stage'["host"] = stage["host"]
      BY <1>10, <2>2, <3>1 DEF OtherEnd
    <3> QED
      BY <1>10, <1>11, <2>1, <3>2 DEF SessionsAdvance
  <2>3. CASE p = "viewer"
    <3> DEFINE m == Len(got["viewer"])
    <3>1. /\ m \in Nat /\ n = m + 1 /\ Len(got'["viewer"]) = n
          /\ stage'["host"] = stage["host"]
      BY <1>3, <1>10, <1>13, <2>3 DEF OtherEnd
    <3>2. r.kind = "PeerInfo" <=> n = 2
      BY <1>3, <1>7, <1>13, <2>3 DEF KindOf, OtherEnd
    <3>3. /\ said["viewer"] >= 1 => m >= 1
          /\ said["viewer"] >= 2 \/ stage["viewer"] = "split" => m >= 2
          /\ m >= 2 => stage["viewer"] = "split"
      BY <1>2, <2>1, <2>3 DEF SessionsAdvance
    <3> HIDE DEF m
    <3>4. /\ stage'["viewer"] = "split" => n >= 2
          /\ n >= 2 => stage'["viewer"] = "split"
      BY <1>10, <2>3, <3>1, <3>2, <3>3
    <3>5. /\ said["viewer"] >= 1 => n >= 1
          /\ said["viewer"] >= 2 => n >= 2
      BY <3>1, <3>3
    <3> QED
      BY <1>10, <1>11, <2>1, <3>1, <3>4, <3>5 DEF SessionsAdvance
  <2> QED
    BY <2>2, <2>3 DEF Peers
<1>26. PartsAreLast'
  BY <1>1, <1>10, <1>12, <1>13 DEF SecureInv, PartsAreLast
<1>27. StrictIsSealed'
  BY <1>11, <1>12, <1>13 DEF SecureInv, StrictIsSealed, Strict, Peers, OtherEnd
<1>28. StreamsAreNumbered'
  <2>1. Base(q)' = Base(q) /\ (\A e \in Peers : InHand(e)' = InHand(e))
    BY <1>10, <1>11 DEF Base, InHand
  <2>2. Base(p)' = n
    <3> DEFINE one == p = "viewer" /\ prefetched # NoRecord
    <3>1. n \in Nat /\ ~one /\ Base(p)' = n + (IF one THEN 1 ELSE 0)
      BY <1>2, <1>3, <1>10, <1>11, <1>13 DEF Base
    <3> HIDE DEF one
    <3> QED
      BY <3>1
  <2>3. StreamIsNumbered(p)'
    <3>1. alive[q] => n + Len(Tail(s)) - 0 + InHand(q) = said[q]
      <4>1. alive[q] => Len(got[p]) + Len(s) - 0 + InHand(q) = said[q]
        BY <1>4, <1>5, <1>6, <1>13 DEF StreamIsNumbered
      <4>2. InHand(q) \in Nat
        BY <1>1, <1>2, Counts
      <4> DEFINE m == Len(got[p])
                 k == Len(s)
                 e == InHand(q)
                 l == Len(Tail(s))
      <4>3. m \in Nat /\ k \in Nat /\ e \in Nat /\ n = m + 1 /\ l = k - 1
        BY <1>3, <1>6, <1>13, <4>2
      <4> HIDE DEF m, k, e, l
      <4>4. n + l - 0 + e = m + k - 0 + e
        BY <4>3
      <4> QED
        BY <4>1, <4>4 DEF m, k, e, l
    <3> QED
      BY <1>1, <1>6, <1>10, <1>11, <1>12, <2>1, <2>2, <3>1 DEF StreamIsNumbered
  <2>4. stage'[q] # "ended" => StreamIsNumbered(q)'
    BY <1>1, <1>10, <1>11, <1>12, <1>19, <2>1
       DEF SecureInv, StreamsAreNumbered, StreamIsNumbered
  <2> QED
    BY <1>1, <2>3, <2>4 DEF StreamsAreNumbered
<1> QED
  BY <1>14, <1>15, <1>16, <1>17, <1>18, <1>20, <1>21, <1>22, <1>23, <1>24, <1>25, <1>26, <1>27, <1>28
     DEF SecureInv
LEMMA ReceivesStep ==
    ASSUME SecureInv, NEW p \in Peers, Receives(p)
    PROVE  SecureInv'
BY ReceivesGreetingStep, ReceivesNextStep

(* The session's first record is the Hash the handshake kept.              *)
LEMMA ReceivesPrefetchedStep ==
    ASSUME SecureInv, ReceivesPrefetched
    PROVE  SecureInv'
<1>1. /\ SecureTypes /\ alive["viewer"] /\ prefetched # NoRecord /\ prefetched' = NoRecord
      /\ stage["viewer"] = "session" /\ Dispatches("viewer", prefetched)
      /\ UNCHANGED <<keys, security, sending, link, said>>
  BY DEF SecureInv, ReceivesPrefetched, Reading, PrefetchedIsHash
<1>2. /\ IsNth("host", FALSE, prefetched, 1) /\ said["host"] >= 1
      /\ got["viewer"] = <<>> /\ ~cipher["viewer"].on
  BY <1>1 DEF SecureInv, PrefetchedIsHash
<1>3. "viewer" \in Peers /\ "host" \in Peers /\ OtherEnd("viewer") = "host"
      /\ OtherEnd("host") = "viewer" /\ Peers = {"viewer", "host"}
  BY DEF Peers, OtherEnd
<1>4. cipher["viewer"].on = FALSE
  <2>1. cipher["viewer"] \in [on : BOOLEAN, enc : Nat, dec : Nat]
    BY <1>1, <1>3 DEF SecureTypes
  <2> QED
    BY <1>2, <2>1
<1>5. Len(got["viewer"]) = 0
  BY <1>2
<1>6. /\ Len(got["viewer"]) + 1 = 1
      /\ IsNth(OtherEnd("viewer"), cipher["viewer"].on, prefetched, Len(got["viewer"]) + 1)
  <2>1. Len(got["viewer"]) + 1 = 1
    BY <1>5
  <2> QED
    BY <1>2, <1>3, <1>4, <2>1
<1>7. prefetched.kind = "Hash" /\ ~prefetched.large
  BY <1>2 DEF IsNth, KindOf
<1>8. /\ cipher' \in [Peers -> [on : BOOLEAN, enc : Nat, dec : Nat]]
      /\ cipher'["host"] = cipher["host"] /\ cipher'["viewer"].on = cipher["viewer"].on
      /\ stage' \in [Peers -> {"start", "await", "session", "split", "ended"}]
      /\ stage'["host"] = stage["host"] /\ stage'["viewer"] = stage["viewer"]
      /\ got' \in [Peers -> Seq(Nat)]
      /\ got'["host"] = got["host"] /\ Len(got'["viewer"]) = 1
      /\ got'["viewer"] = [i \in 1..1 |-> i]
      /\ UNCHANGED <<alive, why>>
  <2> DEFINE q == OtherEnd("viewer")
             n == Len(got["viewer"]) + 1
  <2>1. /\ cipher' \in [Peers -> [on : BOOLEAN, enc : Nat, dec : Nat]]
        /\ cipher'[q] = cipher[q] /\ cipher'["viewer"].on = cipher["viewer"].on
        /\ stage' \in [Peers -> {"start", "await", "session", "split", "ended"}]
        /\ stage'[q] = stage[q] /\ stage'["viewer"] = stage["viewer"]
        /\ got' \in [Peers -> Seq(Nat)]
        /\ got'[q] = got[q] /\ Len(got'["viewer"]) = n
        /\ got'["viewer"] = [i \in 1..n |-> i]
        /\ UNCHANGED <<alive, why>>
    BY <1>1, <1>3, <1>6, <1>7, TakesNext
  <2>2. q = "host" /\ n = 1
    BY <1>3, <1>6
  <2> HIDE DEF q, n
  <2> QED
    BY <2>1, <2>2
<1>9. ~Greets(link["viewer"])
  BY <1>1 DEF SecureInv, GreetingsFit
<1>10. \A e \in Peers : cipher'[e].on = cipher[e].on /\ stage'[e] = stage[e]
  BY <1>3, <1>8
<1>11. SecureTypes'
  <2>1. NoRecord \in WireRecords
    BY PlainIsRecord DEF Kinds
  <2> QED
    BY <1>1, <1>8, <2>1 DEF SecureTypes
<1>12. CountersAgree' /\ GotInOrder' /\ SendingIsLast' /\ AliveStages'
  <2>1. CountersAgree'
    BY <1>1, <1>2, <1>3, <1>8 DEF SecureInv, CountersAgree
  <2>2. GotInOrder'
    <3>1. Len(got'["viewer"]) <= said'["host"]
      BY <1>1, <1>2, <1>8
    <3>2. got'["viewer"] = [i \in 1..Len(got'["viewer"]) |-> i]
      BY <1>8
    <3>3. /\ got'["host"] = [i \in 1..Len(got'["host"]) |-> i]
          /\ Len(got'["host"]) <= said'["viewer"]
      BY <1>1, <1>3, <1>8 DEF SecureInv, GotInOrder
    <3> QED
      BY <1>3, <3>1, <3>2, <3>3 DEF GotInOrder
  <2>3. SendingIsLast'
    BY <1>1, <1>10 DEF SecureInv, SendingIsLast
  <2>4. AliveStages'
    BY <1>8, <1>10 DEF SecureInv, AliveStages
  <2> QED
    BY <2>1, <2>2, <2>3, <2>4
<1>13. ViewerIsEarly' /\ HostIsEarly' /\ GreetingsFit' /\ PrefetchedIsHash'
  <2>1. ViewerIsEarly' /\ PrefetchedIsHash'
    BY <1>1, <1>8 DEF ViewerIsEarly, PrefetchedIsHash
  <2>2. HostIsEarly'
    BY <1>1, <1>3, <1>8 DEF SecureInv, HostIsEarly
  <2>3. GreetingsFit'
    BY <1>1, <1>3, <1>8, <1>9 DEF SecureInv, GreetingsFit
  <2> QED
    BY <2>1, <2>2, <2>3
<1>14. ModesAgree' /\ SessionsAdvance'
  <2>1. ModesAgree'
    BY <1>1, <1>3, <1>10 DEF SecureInv, ModesAgree, Strict
  <2>2. SessionsAdvance'
    BY <1>1, <1>5, <1>8 DEF SecureInv, SessionsAdvance
  <2> QED
    BY <2>1, <2>2
<1>15. PartsAreLast' /\ StrictIsSealed'
  BY <1>1, <1>8 DEF SecureInv, PartsAreLast, StrictIsSealed, Strict
<1>16. StreamsAreNumbered'
  <2>1. \A e \in Peers : InHand(e)' = InHand(e)
    BY <1>1 DEF InHand
  <2>2. Base("viewer")' = 1 /\ Base("viewer") = 1 /\ Base("host")' = Base("host")
    BY <1>1, <1>3, <1>5, <1>8 DEF Base
  <2> QED
    BY <1>1, <1>3, <1>8, <1>10, <2>1, <2>2
       DEF SecureInv, StreamsAreNumbered, StreamIsNumbered
<1> QED
  BY <1>11, <1>12, <1>13, <1>14, <1>15, <1>16 DEF SecureInv

-----------------------------------------------------------------------------
(* The handshake.                                                          *)

(* The viewer's only word of the handshake, on a stream nothing was sent   *)
(* on before.                                                              *)
LEMMA FirstWord ==
    ASSUME SecureInv, stage["viewer"] \in {"start", "await"}, NEW kind \in Greetings,
           NEW on, stage["host"] # "ended"
    PROVE  LET s == Append(<<>>, PlainRecord(kind)) IN
           /\ Numbered("viewer", on, s, Base("host"), said["viewer"])
           /\ Base("host") + Len(s) - Skip(s) + InHand("viewer") = said["viewer"]
<1> DEFINE s == Append(<<>>, PlainRecord(kind))
<1>1. /\ link["host"] = <<>> /\ alive["viewer"] /\ StreamIsNumbered("host")
      /\ "host" \in Peers /\ OtherEnd("host") = "viewer"
  BY DEF SecureInv, ViewerIsEarly, AliveStages, StreamsAreNumbered, Peers, OtherEnd
<1>2. Base("host") + Len(<<>>) - Skip(<<>>) + InHand("viewer") = said["viewer"]
  BY <1>1 DEF StreamIsNumbered
<1>3. Len(<<>>) = 0 /\ Skip(<<>>) = 0
  BY EmptyIsNumbered
<1>4. /\ Numbered("viewer", on, s, Base("host"), said["viewer"])
      /\ Skip(s) = 1 /\ Len(s) = 1
  BY NumberedGreeting
<1> HIDE DEF s
<1>5. Base("host") \in Nat /\ InHand("viewer") \in Nat
  BY <1>1, Counts DEF SecureInv, Peers
<1>6. Base("host") + Len(s) - Skip(s) + InHand("viewer") = said["viewer"]
  BY <1>2, <1>3, <1>4, <1>5
<1> QED
  BY <1>4, <1>6 DEF s

LEMMA HostStartsStep ==
    ASSUME SecureInv, HostStarts
    PROVE  SecureInv'
<1>1. /\ SecureTypes /\ stage["host"] = "start" /\ ~cipher["host"].on /\ said["host"] = 0
      /\ got["host"] = <<>> /\ link["viewer"] = <<>> /\ ~cipher["viewer"].on
      /\ UNCHANGED <<keys, cipher, prefetched, sending, alive, why, said, got>>
  BY DEF SecureInv, HostStarts, HostIsEarly, sessionVars
<1>2. "viewer" \in Peers /\ "host" \in Peers /\ OtherEnd("viewer") = "host"
      /\ OtherEnd("host") = "viewer" /\ Peers = {"viewer", "host"}
  BY DEF Peers, OtherEnd
<1>3. sending["host"] = NoRecord /\ alive["host"]
  BY <1>1, <1>2 DEF SecureInv, SendingIsLast, AliveStages
<1>4. CountersAgree' /\ GotInOrder'
  BY <1>1 DEF SecureInv, CountersAgree, GotInOrder
<1>5. CASE keys.host = "LegacyPlain" /\ Establish("host", "LegacyPlain") /\ UNCHANGED link
  <2>1. /\ stage' \in [Peers -> {"start", "await", "session", "split", "ended"}]
        /\ security' \in [Peers -> Securities]
        /\ stage'["host"] = "session" /\ stage'["viewer"] = stage["viewer"]
        /\ security'["viewer"] = security["viewer"]
    BY <1>1, <1>2, <1>5 DEF Establish, SecureTypes, Securities
  <2>2. SecureTypes'
    BY <1>1, <1>5, <2>1 DEF SecureTypes
  <2>3. SendingIsLast' /\ AliveStages'
    BY <1>1, <1>2, <1>3, <1>5, <2>1 DEF SecureInv, SendingIsLast, AliveStages
  <2>4. ViewerIsEarly' /\ HostIsEarly'
    BY <1>1, <1>5, <2>1 DEF SecureInv, ViewerIsEarly, HostIsEarly, Verified, Strict
  <2>5. GreetingsFit' /\ PrefetchedIsHash'
    BY <1>1, <1>5, <2>1 DEF SecureInv, GreetingsFit, PrefetchedIsHash
  <2>6. ModesAgree'
    <3>1. ~cipher["host"].on /\ ~cipher["viewer"].on
      BY <1>1
    <3>2. cipher["host"].on = FALSE /\ cipher["viewer"].on = FALSE
      <4>1. cipher["host"] \in [on : BOOLEAN, enc : Nat, dec : Nat]
            /\ cipher["viewer"] \in [on : BOOLEAN, enc : Nat, dec : Nat]
        BY <1>1, <1>2 DEF SecureTypes
      <4> QED
        BY <3>1, <4>1
    <3> QED
      BY <1>1, <1>5, <2>1, <3>2 DEF SecureInv, ModesAgree, Strict
  <2>7. SessionsAdvance'
    BY <1>1, <2>1 DEF SecureInv, SessionsAdvance
  <2>8. PartsAreLast' /\ StrictIsSealed'
    BY <1>1, <1>5 DEF SecureInv, PartsAreLast, StrictIsSealed, Strict
  <2>9. StreamsAreNumbered'
    BY <1>1, <1>2, <1>5, <2>1
       DEF SecureInv, StreamsAreNumbered, StreamIsNumbered, Base, InHand
  <2> QED
    BY <1>4, <2>2, <2>3, <2>4, <2>5, <2>6, <2>7, <2>8, <2>9 DEF SecureInv
<1>6. CASE /\ keys.host = "Signed" /\ HasRoom("host") /\ Puts("host", PlainRecord("SignedId"))
           /\ stage' = [stage EXCEPT !["host"] = "await"] /\ UNCHANGED security
  <2> DEFINE s == Append(<<>>, PlainRecord("SignedId"))
  <2>1. /\ Numbered("host", cipher["host"].on, s, Base("viewer"), said["host"])
        /\ Skip(s) = 1 /\ Greets(s) /\ Head(s).kind = "SignedId" /\ Len(s) = 1 /\ NoPart(s)
        /\ s \in Seq(WireRecords)
    BY NumberedGreeting DEF Greetings
  <2> HIDE DEF s
  <2>2. link' = [link EXCEPT !["viewer"] = s]
    BY <1>1, <1>2, <1>6 DEF Puts, s
  <2>3. /\ link' \in [Peers -> Seq(WireRecords)] /\ link'["viewer"] = s
        /\ link'["host"] = link["host"]
    BY <1>1, <1>2, <2>1, <2>2 DEF SecureTypes
  <2>4. \A e \in Peers : Len(link'[e]) <= MaxInFlight
    <3>1. 1 <= MaxInFlight
      BY SecureWireAssumption
    <3> QED
      BY <1>1, <1>2, <2>1, <2>3, <3>1 DEF SecureTypes
  <2>5. /\ stage' \in [Peers -> {"start", "await", "session", "split", "ended"}]
        /\ stage'["host"] = "await" /\ stage'["viewer"] = stage["viewer"]
    BY <1>1, <1>2, <1>6 DEF SecureTypes
  <2>6. SecureTypes'
    BY <1>1, <1>6, <2>3, <2>4, <2>5 DEF SecureTypes
  <2>7. SendingIsLast' /\ AliveStages'
    BY <1>1, <1>2, <1>3, <2>3, <2>5 DEF SecureInv, SendingIsLast, AliveStages
  <2>8. ViewerIsEarly' /\ HostIsEarly'
    BY <1>1, <1>6, <2>3, <2>5 DEF SecureInv, ViewerIsEarly, HostIsEarly, Verified, Strict
  <2>9. got["viewer"] = <<>> /\ prefetched = NoRecord
    <3>1. prefetched = NoRecord
      BY <1>1 DEF SecureInv, PrefetchedIsHash
    <3>2. Len(got["viewer"]) <= 0 /\ got["viewer"] = [i \in 1..Len(got["viewer"]) |-> i]
      BY <1>1, <1>2 DEF SecureInv, GotInOrder
    <3>3. Len(got["viewer"]) \in Nat /\ got["viewer"] \in Seq(Nat)
      BY <1>1, <1>2, Counts DEF SecureTypes
    <3>4. Len(got["viewer"]) = 0
      BY <3>2, <3>3
    <3> QED
      BY <3>1, <3>3, <3>4
  <2>10. GreetingsFit' /\ PrefetchedIsHash'
    BY <1>1, <1>6, <2>1, <2>3, <2>5, <2>9 DEF SecureInv, GreetingsFit, PrefetchedIsHash
  <2>11. ModesAgree'
    BY <1>1, <1>6, <2>5 DEF SecureInv, ModesAgree, Strict
  <2>12. SessionsAdvance'
    BY <1>1, <2>5 DEF SecureInv, SessionsAdvance
  <2>13. PartIsLast(s)
    BY <2>1 DEF PartIsLast, NoPart
  <2>14. PartsAreLast' /\ StrictIsSealed'
    BY <1>1, <1>2, <2>1, <2>3, <2>13 DEF SecureInv, PartsAreLast, StrictIsSealed, Strict
  <2>15. StreamsAreNumbered'
    <3>1. \A e \in Peers : Base(e)' = Base(e) /\ InHand(e)' = InHand(e)
      BY <1>1 DEF Base, InHand
    <3>2. Base("viewer") = 0 /\ InHand("host") = 0
      <4>1. Len(<<>>) = 0
        OBVIOUS
      <4> QED
        BY <1>3, <2>9, <4>1 DEF Base, InHand
    <3>3. StreamIsNumbered("viewer")'
      <4>1. Numbered("host", cipher["host"].on, s, Base("viewer"), said["host"])
            /\ Base("viewer") + Len(s) - Skip(s) + InHand("host") = said["host"]
        BY <1>1, <2>1, <3>2
      <4> QED
        BY <1>1, <1>2, <2>3, <3>1, <4>1 DEF StreamIsNumbered
    <3>4. stage'["host"] # "ended" => StreamIsNumbered("host")'
      BY <1>1, <1>2, <2>3, <2>5, <3>1 DEF SecureInv, StreamsAreNumbered, StreamIsNumbered
    <3> QED
      BY <1>2, <3>3, <3>4 DEF StreamsAreNumbered
  <2> QED
    BY <1>4, <2>6, <2>7, <2>8, <2>10, <2>11, <2>12, <2>14, <2>15 DEF SecureInv
<1> QED
  BY <1>5, <1>6 DEF HostStarts
(* The viewer chooses a mode and says so; what it has read of the host's   *)
(* stream meanwhile is up to the callers of this lemma.                    *)
LEMMA ViewerSpeaks ==
    ASSUME SecureInv, SecureTypes', stage["viewer"] \in {"start", "await"},
           NEW kind \in {"PublicKey", "EmptyKey", "Empty"},
           stage'["viewer"] = "session", stage'["host"] = stage["host"],
           link'["host"] = Append(<<>>, PlainRecord(kind)),
           PartIsLast(link'["viewer"]), NoPart(link["viewer"]) => NoPart(link'["viewer"]),
           Greets(link'["viewer"]) =>
             link'["viewer"] = link["viewer"] /\ UNCHANGED <<cipher, prefetched>>,
           stage["host"] = "start" => link'["viewer"] = <<>> /\ ~cipher'["viewer"].on,
           StreamIsNumbered("viewer")', PrefetchedIsHash',
           cipher'["host"] = cipher["host"],
           \/ kind = "PublicKey" /\ keys.host = "Signed"
              /\ cipher'["viewer"] = [on |-> TRUE, enc |-> 0, dec |-> 0]
              /\ security'["viewer"] = "Encrypted"
           \/ kind # "PublicKey" /\ cipher'["viewer"] = cipher["viewer"] /\ ~Strict
              /\ (keys.host = "LegacyPlain" => kind = "Empty")
              /\ security'["viewer"] # "Encrypted",
           UNCHANGED <<keys, sending, alive, said, got>>
    PROVE  SecureInv'
<1>1. "viewer" \in Peers /\ "host" \in Peers /\ OtherEnd("viewer") = "host"
      /\ OtherEnd("host") = "viewer" /\ Peers = {"viewer", "host"}
  BY DEF Peers, OtherEnd
<1>2. /\ SecureTypes /\ ~cipher["viewer"].on /\ prefetched = NoRecord /\ got["viewer"] = <<>>
      /\ said["viewer"] = 0 /\ link["host"] = <<>>
      /\ keys.host = "Signed" => said["host"] = 0 /\ stage["host"] \in {"start", "await", "ended"}
      /\ alive["viewer"] /\ sending["viewer"] = NoRecord
  BY <1>1 DEF SecureInv, ViewerIsEarly, AliveStages, SendingIsLast
<1> DEFINE s == Append(<<>>, PlainRecord(kind))
<1>3. /\ Skip(s) = 1 /\ Greets(s) /\ Head(s).kind = kind /\ Len(s) = 1 /\ NoPart(s)
      /\ s \in Seq(WireRecords)
  BY NumberedGreeting DEF Greetings
<1>4. /\ s # <<>> /\ s[1].kind = kind /\ PartIsLast(s)
  BY <1>3 DEF PartIsLast, NoPart
<1> HIDE DEF s
<1>5. link'["host"] = s
  BY DEF s
<1>6. Len(got["viewer"]) = 0
  BY <1>2
<1>7. CountersAgree' /\ GotInOrder'
  <2>1. CountersAgree'
    BY <1>1, <1>2, <1>6 DEF SecureInv, CountersAgree
  <2>2. GotInOrder'
    BY DEF SecureInv, GotInOrder
  <2> QED
    BY <2>1, <2>2
<1>8. SendingIsLast' /\ AliveStages'
  BY <1>1, <1>2, <1>3, <1>5 DEF SecureInv, SendingIsLast, AliveStages
<1>9. ViewerIsEarly'
  BY DEF ViewerIsEarly
<1>10. HostIsEarly'
  BY <1>3, <1>4, <1>5 DEF SecureInv, HostIsEarly
<1>11. GreetingsFit'
  <2>1. keys.host \in {"LegacyPlain", "Signed"}
    BY <1>2 DEF SecureTypes, Configs
  <2>2. kind = "PublicKey" <=> cipher'["viewer"].on
    BY <1>2
  <2>3. keys.host = "LegacyPlain" => kind = "Empty"
    OBVIOUS
  <2>4. stage'["host"] \in {"session", "split"} => keys.host = "LegacyPlain"
    BY <1>2, <2>1
  <2>5. Greets(link'["viewer"]) =>
          /\ Head(link'["viewer"]).kind = "SignedId" /\ keys.host = "Signed"
          /\ got["viewer"] = <<>> /\ prefetched' = NoRecord /\ ~cipher'["viewer"].on
    BY <1>2 DEF SecureInv, GreetingsFit
  <2> QED
    BY <1>3, <1>5, <2>2, <2>3, <2>4, <2>5 DEF GreetingsFit
<1>12. ModesAgree'
  BY <1>2 DEF SecureInv, ModesAgree, Strict
<1>13. SessionsAdvance'
  BY <1>2, <1>6 DEF SecureInv, SessionsAdvance
<1>14. PartsAreLast'
  BY <1>1, <1>3, <1>4, <1>5 DEF SecureInv, PartsAreLast
<1>15. StrictIsSealed'
  BY <1>3, <1>4, <1>5 DEF StrictIsSealed, PlainIsKey, Strict
<1>16. StreamsAreNumbered'
  <2> SUFFICES ASSUME stage'["host"] # "ended" PROVE StreamIsNumbered("host")'
    BY <1>1 DEF StreamsAreNumbered
  <2>1. /\ Numbered("viewer", cipher'["viewer"].on, s, Base("host"), said["viewer"])
        /\ Base("host") + Len(s) - Skip(s) + InHand("viewer") = said["viewer"]
    BY FirstWord DEF Greetings, s
  <2>2. Base("host")' = Base("host") /\ InHand("viewer")' = InHand("viewer")
    BY <1>1 DEF Base, InHand
  <2> QED
    BY <1>1, <1>5, <2>1, <2>2 DEF StreamIsNumbered
<1> QED
  BY <1>7, <1>8, <1>9, <1>10, <1>11, <1>12, <1>13, <1>14, <1>15, <1>16 DEF SecureInv

LEMMA ViewerStartsStep ==
    ASSUME SecureInv, ViewerStarts
    PROVE  SecureInv'
<1>1. /\ SecureTypes /\ stage["viewer"] = "start" /\ security["viewer"] = "none"
      /\ UNCHANGED <<keys, cipher, prefetched, sending, alive, why, said, got>>
  BY DEF SecureInv, ViewerStarts, ViewerIsEarly, sessionVars
<1>2. "viewer" \in Peers /\ "host" \in Peers /\ OtherEnd("viewer") = "host"
      /\ OtherEnd("host") = "viewer" /\ Peers = {"viewer", "host"}
  BY DEF Peers, OtherEnd
<1>3. sending["viewer"] = NoRecord /\ alive["viewer"] /\ link["host"] = <<>>
  BY <1>1, <1>2 DEF SecureInv, SendingIsLast, AliveStages, ViewerIsEarly
<1>4. CASE /\ Verified /\ stage' = [stage EXCEPT !["viewer"] = "await"]
           /\ UNCHANGED <<link, security>>
  <2>1. /\ stage' \in [Peers -> {"start", "await", "session", "split", "ended"}]
        /\ stage'["viewer"] = "await" /\ stage'["host"] = stage["host"]
    BY <1>1, <1>2, <1>4 DEF SecureTypes
  <2>2. SecureTypes'
    BY <1>1, <1>4, <2>1 DEF SecureTypes
  <2>3. CountersAgree' /\ GotInOrder' /\ PartsAreLast' /\ StrictIsSealed'
    BY <1>1, <1>4
       DEF SecureInv, CountersAgree, GotInOrder, PartsAreLast, StrictIsSealed, Strict
  <2>4. SendingIsLast' /\ AliveStages'
    BY <1>1, <1>2, <1>3, <1>4, <2>1 DEF SecureInv, SendingIsLast, AliveStages
  <2>5. ViewerIsEarly' /\ HostIsEarly'
    BY <1>1, <1>4, <2>1 DEF SecureInv, ViewerIsEarly, HostIsEarly, Verified, Strict
  <2>6. GreetingsFit' /\ PrefetchedIsHash'
    BY <1>1, <1>4, <2>1 DEF SecureInv, GreetingsFit, PrefetchedIsHash
  <2>7. ModesAgree' /\ SessionsAdvance'
    BY <1>1, <1>4, <2>1 DEF SecureInv, ModesAgree, SessionsAdvance, Strict
  <2>8. StreamsAreNumbered'
    BY <1>1, <1>2, <1>4, <2>1
       DEF SecureInv, StreamsAreNumbered, StreamIsNumbered, Base, InHand
  <2> QED
    BY <2>2, <2>3, <2>4, <2>5, <2>6, <2>7, <2>8 DEF SecureInv
<1>5. CASE /\ ~Verified /\ HasRoom("viewer") /\ Puts("viewer", PlainRecord("Empty"))
           /\ Establish("viewer", "LegacyPlain")
  <2> DEFINE s == Append(<<>>, PlainRecord("Empty"))
  <2>1. Len(s) = 1 /\ s \in Seq(WireRecords)
    BY NumberedGreeting DEF Greetings
  <2> HIDE DEF s
  <2>2. link' = [link EXCEPT !["host"] = s]
    BY <1>2, <1>3, <1>5 DEF Puts, s
  <2>3. /\ link' \in [Peers -> Seq(WireRecords)] /\ link'["host"] = s
        /\ link'["viewer"] = link["viewer"]
    BY <1>1, <1>2, <2>1, <2>2 DEF SecureTypes
  <2>4. \A e \in Peers : Len(link'[e]) <= MaxInFlight
    <3>1. 1 <= MaxInFlight
      BY SecureWireAssumption
    <3> QED
      BY <1>1, <1>2, <2>1, <2>3, <3>1 DEF SecureTypes
  <2>5. /\ stage' \in [Peers -> {"start", "await", "session", "split", "ended"}]
        /\ stage'["viewer"] = "session" /\ stage'["host"] = stage["host"]
        /\ security' \in [Peers -> Securities] /\ security'["viewer"] = "LegacyPlain"
    BY <1>1, <1>2, <1>5 DEF Establish, SecureTypes, Securities
  <2>6. SecureTypes'
    BY <1>1, <2>3, <2>4, <2>5 DEF SecureTypes
  <2>7. PrefetchedIsHash'
    BY <1>1, <2>5 DEF SecureInv, ViewerIsEarly, PrefetchedIsHash
  <2>8. StreamIsNumbered("viewer")'
    BY <1>1, <1>2, <2>3 DEF SecureInv, StreamsAreNumbered, StreamIsNumbered, Base, InHand
  <2>9. PartIsLast(link'["viewer"])
    BY <1>2, <2>3 DEF SecureInv, PartsAreLast
  <2>10. stage["host"] = "start" => link'["viewer"] = <<>> /\ ~cipher'["viewer"].on
    BY <1>1, <2>3 DEF SecureInv, HostIsEarly
  <2>11. ~Strict
    BY <1>5 DEF Verified
  <2> QED
    BY <1>1, <2>3, <2>5, <2>6, <2>7, <2>8, <2>9, <2>10, <2>11, ViewerSpeaks DEF s
<1> QED
  BY <1>4, <1>5 DEF ViewerStarts
(* What the host's first record is, and what is behind it.                 *)
LEMMA FirstRecord ==
    ASSUME SecureInv, stage["viewer"] = "await", link["viewer"] # <<>>,
           Head(link["viewer"]).kind # "partial"
    PROVE  LET record == Head(link["viewer"])
               rest == Tail(link["viewer"])
               after == IF record.kind = "SignedId" THEN 0 ELSE 1
           IN  /\ rest \in Seq(WireRecords) /\ Len(rest) <= MaxInFlight /\ ~Greets(rest)
               /\ PartIsLast(rest) /\ (NoPart(link["viewer"]) => NoPart(rest))
               /\ Numbered("host", cipher["host"].on, rest, after, said["host"])
               /\ alive["host"] =>
                    after + Len(rest) - Skip(rest) + InHand("host") = said["host"]
               /\ record.kind = "SignedId" => keys.host = "Signed"
               /\ record.kind # "SignedId" =>
                    /\ keys.host = "LegacyPlain" /\ said["host"] >= 1
                    /\ record.kind = "Hash" /\ IsNth("host", FALSE, record, 1)
<1> DEFINE s == link["viewer"]
           record == Head(s)
           rest == Tail(s)
           b == Base("viewer")
<1>1. "viewer" \in Peers /\ "host" \in Peers /\ OtherEnd("viewer") = "host"
  BY DEF Peers, OtherEnd
<1>2. /\ SecureTypes /\ prefetched = NoRecord /\ got["viewer"] = <<>>
      /\ keys.host = "Signed" => said["host"] = 0
      /\ PartIsLast(s)
  BY <1>1 DEF SecureInv, ViewerIsEarly, PartsAreLast
<1>3. /\ s \in Seq(WireRecords) /\ Len(s) \in Nat /\ said["host"] \in Nat
      /\ InHand("host") \in Nat /\ Len(s) <= MaxInFlight
  BY <1>1, <1>2, Counts DEF SecureTypes
<1>4. b = 0
  <2>1. Len(<<>>) = 0
    OBVIOUS
  <2> QED
    BY <1>2, <2>1 DEF Base
<1>5. rest \in Seq(WireRecords) /\ Len(rest) \in Nat /\ Len(rest) = Len(s) - 1
  BY <1>3, TailAt
<1>6. PartIsLast(rest) /\ (NoPart(s) => NoPart(rest))
  BY <1>2, <1>3, PartsOfTail
<1>7. /\ Numbered("host", cipher["host"].on, s, 0, said["host"])
      /\ alive["host"] => 0 + Len(s) - Skip(s) + InHand("host") = said["host"]
  BY <1>1, <1>4 DEF SecureInv, StreamsAreNumbered, StreamIsNumbered
<1>8. Len(rest) <= MaxInFlight
  BY <1>3, <1>5, SecureWireAssumption
<1>9. CASE Greets(s)
  <2>1. record.kind = "SignedId" /\ keys.host = "Signed"
    BY <1>9 DEF SecureInv, GreetingsFit
  <2>2. /\ Numbered("host", cipher["host"].on, rest, 0, said["host"])
        /\ ~Greets(rest) /\ Skip(rest) = 0 /\ Skip(s) = 1
    BY <1>3, <1>7, <1>9, NumberedTakeGreeting DEF Skip
  <2>3. alive["host"] => 0 + Len(rest) - Skip(rest) + InHand("host") = said["host"]
    BY <1>3, <1>5, <1>7, <2>2
  <2> QED
    BY <1>5, <1>6, <1>8, <2>1, <2>2, <2>3
<1>10. CASE ~Greets(s)
  <2>1. b \in Nat /\ b + 1 = 1 /\ Numbered("host", cipher["host"].on, s, b, said["host"])
    BY <1>4, <1>7
  <2> HIDE DEF b
  <2>2. /\ IsNth("host", cipher["host"].on, record, 1) /\ 1 <= said["host"]
        /\ Numbered("host", cipher["host"].on, rest, 1, said["host"])
        /\ ~Greets(rest) /\ Skip(rest) = 0 /\ Skip(s) = 0
    <3> DEFINE c == b + 1
    <3>1. /\ IsNth("host", cipher["host"].on, record, c) /\ c <= said["host"]
          /\ Numbered("host", cipher["host"].on, rest, c, said["host"])
          /\ ~Greets(rest) /\ Skip(rest) = 0 /\ Skip(s) = 0
      BY <1>3, <1>10, <2>1, NumberedTakeNext
    <3>2. c = 1
      BY <2>1
    <3> HIDE DEF c
    <3> QED
      BY <3>1, <3>2
  <2>3. record.kind = "Hash"
    BY <2>2 DEF IsNth, KindOf
  <2>4. keys.host = "LegacyPlain"
    BY <1>2, <1>3, <2>2 DEF SecureTypes, Configs
  <2>5. cipher["host"].on = FALSE
    <3>1. cipher["host"] \in [on : BOOLEAN, enc : Nat, dec : Nat] /\ ~cipher["host"].on
      BY <1>1, <1>2, <2>4 DEF SecureTypes, SecureInv, ModesAgree
    <3> QED
      BY <3>1
  <2>6. alive["host"] => 1 + Len(rest) - Skip(rest) + InHand("host") = said["host"]
    BY <1>3, <1>5, <1>7, <2>2
  <2>7. said["host"] >= 1
    BY <1>3, <2>2
  <2> QED
    BY <1>5, <1>6, <1>8, <2>2, <2>3, <2>4, <2>5, <2>6, <2>7
<1> QED
  BY <1>9, <1>10

LEMMA ViewerChoosesStep ==
    ASSUME SecureInv, ViewerChooses
    PROVE  SecureInv'
<1> DEFINE record == Head(link["viewer"])
           rest == Tail(link["viewer"])
           proven == record.kind = "SignedId" /\ keys.signature /\ keys.sameId
           after == IF record.kind = "SignedId" THEN 0 ELSE 1
<1>1. /\ SecureTypes /\ stage["viewer"] = "await" /\ alive["viewer"]
      /\ link["viewer"] # <<>> /\ record.kind # "partial"
      /\ UNCHANGED <<keys, sending, said, got>>
  BY DEF SecureInv, ViewerChooses, sessionVars
<1>2. "viewer" \in Peers /\ "host" \in Peers /\ OtherEnd("viewer") = "host"
      /\ OtherEnd("host") = "viewer" /\ Peers = {"viewer", "host"}
  BY DEF Peers, OtherEnd
<1>3. /\ rest \in Seq(WireRecords) /\ Len(rest) <= MaxInFlight /\ ~Greets(rest)
      /\ PartIsLast(rest) /\ (NoPart(link["viewer"]) => NoPart(rest))
      /\ Numbered("host", cipher["host"].on, rest, after, said["host"])
      /\ alive["host"] => after + Len(rest) - Skip(rest) + InHand("host") = said["host"]
      /\ record.kind = "SignedId" => keys.host = "Signed"
      /\ record.kind # "SignedId" =>
           /\ keys.host = "LegacyPlain" /\ said["host"] >= 1
           /\ record.kind = "Hash" /\ IsNth("host", FALSE, record, 1)
  BY <1>1, FirstRecord
<1>4. /\ ~cipher["viewer"].on /\ prefetched = NoRecord /\ got["viewer"] = <<>>
      /\ said["viewer"] = 0 /\ security["viewer"] = "none" /\ link["host"] = <<>>
      /\ sending["viewer"] = NoRecord /\ stage["host"] # "start"
      /\ Len(got["viewer"]) = 0
  <2>1. Len(<<>>) = 0
    OBVIOUS
  <2> QED
    BY <1>1, <1>2, <2>1 DEF SecureInv, ViewerIsEarly, SendingIsLast, HostIsEarly
<1> HIDE DEF record, rest, proven, after
(* An answer leaves, and the session begins.                               *)
<1>5. ASSUME NEW kind \in {"PublicKey", "EmptyKey", "Empty"}, HasRoom("viewer"),
             NEW ending \in Securities,
             link' = [link EXCEPT !["viewer"] = rest,
                                  !["host"] = Append(@, PlainRecord(kind))],
             Establish("viewer", ending), UNCHANGED <<alive, why>>,
             prefetched' = IF record.kind = "SignedId" THEN NoRecord ELSE record,
             cipher' \in [Peers -> [on : BOOLEAN, enc : Nat, dec : Nat]],
             cipher'["host"] = cipher["host"],
             \/ kind = "PublicKey" /\ keys.host = "Signed" /\ ending = "Encrypted"
                /\ cipher'["viewer"] = [on |-> TRUE, enc |-> 0, dec |-> 0]
             \/ kind # "PublicKey" /\ cipher'["viewer"] = cipher["viewer"] /\ ~Strict
                /\ (keys.host = "LegacyPlain" => kind = "Empty") /\ ending # "Encrypted"
      PROVE  SecureInv'
  <2> DEFINE s == Append(<<>>, PlainRecord(kind))
             emptied == [link EXCEPT !["viewer"] = rest]
  <2>1. Len(s) = 1 /\ s \in Seq(WireRecords)
    BY NumberedGreeting DEF Greetings
  <2>2. /\ emptied \in [Peers -> Seq(WireRecords)] /\ emptied["viewer"] = rest /\ emptied["host"] = <<>>
    BY <1>1, <1>2, <1>3, <1>4 DEF SecureTypes
  <2>3. link' = [emptied EXCEPT !["host"] = s]
    BY <1>4, <1>5, <2>2
  <2> HIDE DEF s, emptied
  <2>4. /\ link' \in [Peers -> Seq(WireRecords)] /\ link'["host"] = s /\ link'["viewer"] = rest
    BY <1>2, <2>1, <2>2, <2>3
  <2>5. \A e \in Peers : Len(link'[e]) <= MaxInFlight
    <3>1. 1 <= MaxInFlight
      BY SecureWireAssumption
    <3> QED
      BY <1>2, <1>3, <2>1, <2>4, <3>1
  <2>6. /\ stage' \in [Peers -> {"start", "await", "session", "split", "ended"}]
        /\ stage'["viewer"] = "session" /\ stage'["host"] = stage["host"]
        /\ security' \in [Peers -> Securities] /\ security'["viewer"] = ending
    BY <1>1, <1>2, <1>5 DEF Establish, SecureTypes
  <2>7. prefetched' \in WireRecords
    BY <1>3, <1>5, PlainIsRecord DEF IsNth, Kinds
  <2>8. SecureTypes'
    BY <1>1, <1>5, <2>4, <2>5, <2>6, <2>7 DEF SecureTypes
  <2>9. PrefetchedIsHash'
    <3>1. CASE record.kind = "SignedId"
      BY <1>5, <3>1 DEF PrefetchedIsHash
    <3>2. CASE record.kind # "SignedId"
      BY <1>1, <1>3, <1>4, <1>5, <2>6, <3>2 DEF PrefetchedIsHash
    <3> QED
      BY <3>1, <3>2
  <2>10. Base("viewer")' = after
    <3>1. CASE record.kind = "SignedId"
      BY <1>1, <1>4, <1>5, <3>1 DEF Base, after
    <3>2. CASE record.kind # "SignedId"
      <4>1. record # NoRecord
        BY <1>3, <3>2, NthIsNoOther
      <4> QED
        BY <1>1, <1>4, <1>5, <3>2, <4>1 DEF Base, after
    <3> QED
      BY <3>1, <3>2
  <2>11. StreamIsNumbered("viewer")'
    <3>1. InHand("host")' = InHand("host")
      BY <1>1 DEF InHand
    <3> QED
      BY <1>1, <1>2, <1>3, <1>5, <2>4, <2>10, <3>1 DEF StreamIsNumbered
  <2> QED
    BY <1>1, <1>3, <1>4, <1>5, <2>4, <2>6, <2>8, <2>9, <2>11, ViewerSpeaks DEF s
<1>6. CASE proven
  <2>1. /\ HasRoom("viewer") /\ SetKey("viewer") /\ Establish("viewer", "Encrypted")
        /\ link' = [link EXCEPT !["viewer"] = rest,
                                !["host"] = Append(@, PlainRecord("PublicKey"))]
        /\ UNCHANGED <<prefetched, alive, why>>
    BY <1>6 DEF ViewerChooses, record, rest, proven
  <2>2. record.kind = "SignedId" /\ keys.host = "Signed"
    BY <1>3, <1>6 DEF proven
  <2>3. /\ cipher' \in [Peers -> [on : BOOLEAN, enc : Nat, dec : Nat]]
        /\ cipher'["host"] = cipher["host"]
        /\ cipher'["viewer"] = [on |-> TRUE, enc |-> 0, dec |-> 0]
    BY <1>1, <1>2, <2>1 DEF SetKey, SecureTypes
  <2> QED
    BY <1>4, <1>5, <2>1, <2>2, <2>3 DEF Securities
<1>7. CASE ~proven /\ Strict
  <2>1. link' = [link EXCEPT !["viewer"] = rest] /\ EndsWire("viewer", "refused")
        /\ UNCHANGED <<cipher, prefetched, security>>
    BY <1>7 DEF ViewerChooses, Refuses, record, rest, proven
  <2>2. /\ stage' \in [Peers -> {"start", "await", "session", "split", "ended"}]
        /\ alive' \in [Peers -> BOOLEAN]
        /\ why' \in [Peers -> {"none", "refused", "left", "eof"}]
        /\ stage'["viewer"] = "ended" /\ stage'["host"] = stage["host"]
        /\ ~alive'["viewer"] /\ alive'["host"] = alive["host"]
    BY <1>1, <1>2, <2>1, EndsWireTypes
  <2>3. /\ link' \in [Peers -> Seq(WireRecords)] /\ link'["viewer"] = rest
        /\ link'["host"] = link["host"]
    BY <1>1, <1>2, <1>3, <2>1 DEF SecureTypes
  <2>4. SecureTypes'
    BY <1>1, <1>2, <1>3, <2>1, <2>2, <2>3 DEF SecureTypes
  <2>5. CountersAgree' /\ GotInOrder'
    BY <1>1, <2>1 DEF SecureInv, CountersAgree, GotInOrder
  <2>6. SendingIsLast' /\ AliveStages'
    BY <1>1, <1>2, <1>3, <1>4, <2>1, <2>2, <2>3 DEF SecureInv, SendingIsLast, AliveStages
  <2>7. ViewerIsEarly' /\ HostIsEarly'
    BY <1>1, <1>4, <2>1, <2>2, <2>3 DEF SecureInv, ViewerIsEarly, HostIsEarly
  <2>8. GreetingsFit' /\ PrefetchedIsHash'
    BY <1>1, <1>3, <1>4, <2>1, <2>2, <2>3 DEF SecureInv, GreetingsFit, PrefetchedIsHash
  <2>9. ModesAgree' /\ SessionsAdvance'
    BY <1>1, <2>1, <2>2 DEF SecureInv, ModesAgree, SessionsAdvance, Strict
  <2>10. PartsAreLast' /\ StrictIsSealed'
    BY <1>1, <1>2, <1>3, <2>2, <2>3 DEF SecureInv, PartsAreLast, StrictIsSealed, Strict
  <2>11. StreamsAreNumbered'
    BY <1>1, <1>2, <2>1, <2>2, <2>3
       DEF SecureInv, StreamsAreNumbered, StreamIsNumbered, Base, InHand
  <2> QED
    BY <2>4, <2>5, <2>6, <2>7, <2>8, <2>9, <2>10, <2>11 DEF SecureInv
<1>8. CASE ~proven /\ ~Strict
  <2> DEFINE reply == Reply(record.kind)
  <2>1. /\ HasRoom("viewer") /\ Establish("viewer", reply[2])
        /\ link' = [link EXCEPT !["viewer"] = rest,
                                !["host"] = Append(@, PlainRecord(reply[1]))]
        /\ prefetched' = Prefetched(record)
        /\ UNCHANGED <<cipher, alive, why>>
    BY <1>8 DEF ViewerChooses, Refuses, record, rest, proven
  <2>2. /\ reply[1] \in {"EmptyKey", "Empty"} /\ reply[2] \in {"RefreshKey", "LegacyPlain"}
        /\ keys.host = "LegacyPlain" => reply[1] = "Empty"
    BY <1>3 DEF Reply
  <2>3. prefetched' = IF record.kind = "SignedId" THEN NoRecord ELSE record
    BY <2>1 DEF Prefetched
  <2> HIDE DEF reply
  <2>4. reply[2] \in Securities /\ reply[2] # "Encrypted" /\ reply[1] # "PublicKey"
        /\ reply[1] \in {"PublicKey", "EmptyKey", "Empty"}
    BY <2>2 DEF Securities
  <2> QED
    BY <1>1, <1>5, <1>8, <2>1, <2>2, <2>3, <2>4 DEF SecureTypes
<1> QED
  BY <1>6, <1>7, <1>8
LEMMA HostChoosesStep ==
    ASSUME SecureInv, HostChooses
    PROVE  SecureInv'
<1> DEFINE s == link["host"]
           kind == Head(s).kind
<1>1. /\ SecureTypes /\ stage["host"] = "await" /\ alive["host"] /\ s # <<>>
      /\ UNCHANGED <<keys, prefetched, sending, said, got>>
      /\ link' = [link EXCEPT !["host"] = Tail(s)]
  BY DEF SecureInv, HostChooses, sessionVars
<1>2. "viewer" \in Peers /\ "host" \in Peers /\ OtherEnd("viewer") = "host"
      /\ OtherEnd("host") = "viewer" /\ Peers = {"viewer", "host"}
  BY DEF Peers, OtherEnd
<1>3. /\ ~cipher["host"].on /\ said["host"] = 0 /\ got["host"] = <<>> /\ Greets(s)
      /\ keys.host = "Signed" /\ sending["host"] = NoRecord
      /\ kind \in {"PublicKey", "EmptyKey", "Empty"}
      /\ kind = "PublicKey" <=> cipher["viewer"].on
  BY <1>1, <1>2 DEF SecureInv, HostIsEarly, GreetingsFit, SendingIsLast
<1>4. /\ link' \in [Peers -> Seq(WireRecords)]
      /\ \A e \in Peers : Len(link'[e]) <= MaxInFlight
      /\ link'["host"] = Tail(s) /\ link'["viewer"] = link["viewer"]
      /\ PartIsLast(link'["host"]) /\ (NoPart(s) => NoPart(link'["host"]))
      /\ PlainIsKey(s) => PlainIsKey(link'["host"])
  BY <1>1, <1>2, ReadOne
<1>5. /\ s \in Seq(WireRecords) /\ Len(s) \in Nat /\ Base("host") \in Nat /\ said["viewer"] \in Nat
      /\ InHand("viewer") \in Nat
  BY <1>1, <1>2, Counts
<1>6. StreamIsNumbered("host")
  BY <1>1, <1>2 DEF SecureInv, StreamsAreNumbered
<1>7. /\ Numbered("viewer", cipher["viewer"].on, Tail(s), Base("host"), said["viewer"])
      /\ ~Greets(Tail(s)) /\ Skip(Tail(s)) = 0
      /\ Len(Tail(s)) - Skip(Tail(s)) = Len(s) - Skip(s)
  BY <1>2, <1>3, <1>5, <1>6, NumberedTakeGreeting DEF StreamIsNumbered
<1>8. Len(Tail(s)) \in Nat /\ Skip(s) = 1 /\ Len(Tail(s)) = Len(s) - 1
  BY <1>1, <1>3, <1>5, TailAt DEF Skip
<1>9. PICK ending \in Securities : Establish("host", ending) /\ UNCHANGED <<alive, why>>
  BY <1>3 DEF HostChooses, Securities
<1>10. /\ stage' \in [Peers -> {"start", "await", "session", "split", "ended"}]
       /\ stage'["host"] = "session" /\ stage'["viewer"] = stage["viewer"]
       /\ security' \in [Peers -> Securities] /\ security'["viewer"] = security["viewer"]
  BY <1>1, <1>2, <1>9 DEF Establish, SecureTypes
<1>11. IF kind = "PublicKey" THEN SetKey("host") ELSE UNCHANGED cipher
  BY <1>3 DEF HostChooses
<1>12. /\ cipher' \in [Peers -> [on : BOOLEAN, enc : Nat, dec : Nat]]
       /\ cipher'["viewer"] = cipher["viewer"]
       /\ kind = "PublicKey" => cipher'["host"] = [on |-> TRUE, enc |-> 0, dec |-> 0]
       /\ kind # "PublicKey" => cipher'["host"] = cipher["host"]
  <2>1. CASE kind = "PublicKey"
    <3>1. cipher' = [cipher EXCEPT !["host"] = [on |-> TRUE, enc |-> 0, dec |-> 0]]
      BY <1>11, <2>1 DEF SetKey
    <3> QED
      BY <1>1, <1>2, <2>1, <3>1 DEF SecureTypes
  <2>2. CASE kind # "PublicKey"
    BY <1>1, <1>11, <2>2 DEF SecureTypes
  <2> QED
    BY <2>1, <2>2
<1> HIDE DEF s, kind
<1>13. s = link["host"]
  BY DEF s
<1>14. cipher'["host"].on = cipher["viewer"].on
  <2>1. /\ cipher["host"] \in [on : BOOLEAN, enc : Nat, dec : Nat]
        /\ cipher["viewer"] \in [on : BOOLEAN, enc : Nat, dec : Nat]
    BY <1>1, <1>2 DEF SecureTypes
  <2>2. cipher["host"].on = FALSE /\ cipher["viewer"].on \in BOOLEAN
    BY <1>3, <2>1
  <2>3. CASE kind = "PublicKey"
    <3>1. cipher["viewer"].on = TRUE /\ cipher'["host"].on = TRUE
      BY <1>3, <1>12, <2>2, <2>3
    <3> QED
      BY <3>1
  <2>4. CASE kind # "PublicKey"
    <3>1. cipher["viewer"].on = FALSE /\ cipher'["host"].on = FALSE
      BY <1>3, <1>12, <2>2, <2>4
    <3> QED
      BY <3>1
  <2> QED
    BY <2>3, <2>4
<1>15. SecureTypes'
  BY <1>1, <1>4, <1>9, <1>10, <1>12 DEF SecureTypes
<1>16. CountersAgree' /\ GotInOrder'
  <2>1. Len(got["host"]) = 0
    BY <1>3
  <2>2. CountersAgree'
    BY <1>1, <1>2, <1>3, <1>12, <2>1 DEF SecureInv, CountersAgree
  <2>3. GotInOrder'
    BY <1>1 DEF SecureInv, GotInOrder
  <2> QED
    BY <2>2, <2>3
<1>17. SendingIsLast' /\ AliveStages'
  BY <1>1, <1>2, <1>3, <1>4, <1>9, <1>10, <1>12, <1>13
     DEF SecureInv, SendingIsLast, AliveStages
<1>18. ViewerIsEarly' /\ HostIsEarly'
  BY <1>1, <1>10, <1>13 DEF SecureInv, ViewerIsEarly, HostIsEarly
<1>19. GreetingsFit' /\ PrefetchedIsHash'
  BY <1>1, <1>4, <1>7, <1>10, <1>12 DEF SecureInv, GreetingsFit, PrefetchedIsHash
<1>20. ModesAgree'
  BY <1>1, <1>3, <1>10, <1>12, <1>14 DEF SecureInv, ModesAgree, Strict
<1>21. SessionsAdvance'
  BY <1>1, <1>3, <1>9, <1>10 DEF SecureInv, SessionsAdvance
<1>22. PartsAreLast' /\ StrictIsSealed'
  BY <1>1, <1>2, <1>4, <1>9, <1>13 DEF SecureInv, PartsAreLast, StrictIsSealed, Strict
<1>23. StreamsAreNumbered'
  <2>1. \A e \in Peers : Base(e)' = Base(e) /\ InHand(e)' = InHand(e)
    BY <1>1 DEF Base, InHand
  <2>2. StreamIsNumbered("host")'
    <3>1. alive["viewer"] => Base("host") + Len(Tail(s)) - Skip(Tail(s)) + InHand("viewer")
                               = said["viewer"]
      <4>1. alive["viewer"] => Base("host") + Len(s) - 1 + InHand("viewer") = said["viewer"]
        BY <1>2, <1>6, <1>8, <1>13 DEF StreamIsNumbered
      <4> QED
        BY <1>5, <1>7, <1>8, <4>1
    <3> QED
      BY <1>1, <1>2, <1>4, <1>7, <1>9, <1>12, <2>1, <3>1 DEF StreamIsNumbered
  <2>3. ASSUME stage'["viewer"] # "ended" PROVE StreamIsNumbered("viewer")'
    <3>1. StreamIsNumbered("viewer")
      BY <1>2, <1>10, <2>3 DEF SecureInv, StreamsAreNumbered
    <3>2. Numbered("host", cipher'["host"].on, link["viewer"], Base("viewer"), 0)
      BY <1>2, <1>3, <3>1, NumberedInAnyMode DEF StreamIsNumbered
    <3> QED
      BY <1>1, <1>2, <1>3, <1>4, <1>9, <2>1, <3>1, <3>2 DEF StreamIsNumbered
  <2> QED
    BY <1>2, <2>2, <2>3 DEF StreamsAreNumbered
<1> QED
  BY <1>15, <1>16, <1>17, <1>18, <1>19, <1>20, <1>21, <1>22, <1>23 DEF SecureInv

-----------------------------------------------------------------------------
LEMMA SecureInitially ==
    ASSUME SecureInit
    PROVE  SecureInv
<1>1. Peers = {"viewer", "host"} /\ OtherEnd("viewer") = "host" /\ OtherEnd("host") = "viewer"
  BY DEF Peers, OtherEnd
<1>2. NoRecord \in WireRecords
  BY PlainIsRecord DEF Kinds
<1>3. Len(<<>>) = 0 /\ <<>> \in Seq(WireRecords) /\ <<>> \in Seq(Nat)
  OBVIOUS
<1>4. \A p \in Peers : /\ stage[p] = "start" /\ ~cipher[p].on /\ sending[p] = NoRecord /\ alive[p]
                       /\ link[p] = <<>> /\ said[p] = 0 /\ got[p] = <<>>
  BY DEF SecureInit
<1>5. SecureTypes
  BY <1>2, <1>3, SecureWireAssumption DEF SecureInit, SecureTypes, Securities
<1>6. CountersAgree /\ SendingIsLast /\ AliveStages /\ PrefetchedIsHash
  BY <1>4 DEF SecureInit, CountersAgree, SendingIsLast, AliveStages, PrefetchedIsHash
<1>7. GotInOrder
  BY <1>1, <1>3, <1>4 DEF GotInOrder
<1>8. ViewerIsEarly /\ HostIsEarly
  BY <1>1, <1>4 DEF SecureInit, ViewerIsEarly, HostIsEarly, Greets
<1>9. GreetingsFit /\ SessionsAdvance
  BY <1>1, <1>3, <1>4 DEF GreetingsFit, SessionsAdvance, Greets
<1>10. ModesAgree
  BY <1>1, <1>4 DEF SecureInit, ModesAgree
<1>11. PartsAreLast /\ StrictIsSealed
  BY <1>1, <1>3, <1>4 DEF PartsAreLast, StrictIsSealed, PartIsLast, NoPart, PlainIsKey
<1>12. StreamsAreNumbered
  <2>1. \A p \in Peers : Base(p) = 0 /\ InHand(p) = 0
    BY <1>3, <1>4 DEF SecureInit, Base, InHand
  <2>2. ASSUME NEW p \in Peers PROVE StreamIsNumbered(p)
    <3> DEFINE q == OtherEnd(p)
    <3>1. p \in Peers /\ q \in Peers /\ link[p] = <<>> /\ said[q] = 0
          /\ Base(p) = 0 /\ InHand(q) = 0
      BY <1>1, <1>4, <2>1, <2>2
    <3> HIDE DEF q
    <3>2. Numbered(q, cipher[q].on, link[p], Base(p), said[q]) /\ Skip(link[p]) = 0
      BY <3>1, EmptyIsNumbered
    <3>3. Base(p) + Len(link[p]) - Skip(link[p]) + InHand(q) = said[q]
      BY <1>3, <3>1, <3>2
    <3> QED
      BY <3>2, <3>3 DEF StreamIsNumbered, q
  <2> QED
    BY <2>2 DEF StreamsAreNumbered
<1> QED
  BY <1>5, <1>6, <1>7, <1>8, <1>9, <1>10, <1>11, <1>12 DEF SecureInv

LEMMA SecureStep ==
    ASSUME SecureInv, [SecureNext]_secureVars
    PROVE  SecureInv'
<1>1. CASE UNCHANGED secureVars
  <2>1. /\ SecureTypes' /\ CountersAgree' /\ SendingIsLast' /\ GotInOrder' /\ AliveStages'
    BY <1>1
       DEF secureVars, SecureInv, SecureTypes, CountersAgree, SendingIsLast, GotInOrder,
                AliveStages
  <2>2. ViewerIsEarly'
    BY <1>1 DEF secureVars, SecureInv, ViewerIsEarly, Verified, Strict
  <2>3. HostIsEarly' /\ GreetingsFit'
    BY <1>1 DEF secureVars, SecureInv, HostIsEarly, GreetingsFit
  <2>4. ModesAgree' /\ PrefetchedIsHash'
    BY <1>1 DEF secureVars, SecureInv, ModesAgree, PrefetchedIsHash, Strict
  <2>5. SessionsAdvance' /\ PartsAreLast' /\ StrictIsSealed'
    BY <1>1 DEF secureVars, SecureInv, SessionsAdvance, PartsAreLast, StrictIsSealed, Strict
  <2>6. StreamsAreNumbered'
    BY <1>1 DEF secureVars, SecureInv, StreamsAreNumbered, StreamIsNumbered, Base, InHand
  <2> QED
    BY <2>1, <2>2, <2>3, <2>4, <2>5, <2>6 DEF SecureInv
<1>2. CASE \E p \in Peers : \/ Leaves(p) \/ ReadsEnd(p) \/ SendBegins(p) \/ SendCompletes(p)
                            \/ SendCancelled(p) \/ SendReleased(p) \/ Receives(p)
  BY <1>2, LeavesStep, ReadsEndStep, SendBeginsStep, SendCompletesStep, SendCancelledStep,
     SendReleasedStep, ReceivesStep
<1> QED
  BY <1>1, <1>2, ViewerStartsStep, ViewerChoosesStep, HostStartsStep, HostChoosesStep,
     ReceivesPrefetchedStep DEF SecureNext

(* What the properties say follows from what the ends know of each other.  *)
LEMMA SecureInvIsFaithful ==
    ASSUME SecureInv
    PROVE  WireIsFaithful
<1>1. SecureTypes
  BY DEF SecureInv
<1>2. SecureTypeOK
  <2>1. prefetched.kind \in {"Hash", "partial"}
    <3>1. CASE prefetched = NoRecord
      BY <3>1, PlainIsRecord DEF Kinds
    <3>2. CASE prefetched # NoRecord
      BY <3>2 DEF SecureInv, PrefetchedIsHash, IsNth, KindOf
    <3> QED
      BY <3>1, <3>2
  <2> QED
    BY <1>1, <2>1 DEF SecureTypeOK, SecureTypes
<1>3. NeverMisread
  BY <1>1 DEF SecureTypes, NeverMisread
<1>4. DeliveredInOrder
  <2> SUFFICES ASSUME NEW p \in Peers, alive[p], alive[OtherEnd(p)],
                      sending[OtherEnd(p)] = NoRecord, link[p] = <<>>,
                      p = "viewer" => prefetched = NoRecord
               PROVE  Len(got[p]) = said[OtherEnd(p)]
    BY DEF SecureInv, GotInOrder, DeliveredInOrder
  <2>1. stage[p] # "ended"
    BY DEF SecureInv, AliveStages
  <2>2. Base(p) + Len(link[p]) - Skip(link[p]) + InHand(OtherEnd(p)) = said[OtherEnd(p)]
    BY <2>1 DEF SecureInv, StreamsAreNumbered, StreamIsNumbered
  <2>3. Len(link[p]) = 0 /\ Skip(link[p]) = 0 /\ InHand(OtherEnd(p)) = 0
    BY EmptyIsNumbered DEF InHand
  <2>4. Base(p) = Len(got[p]) + 0 /\ Len(got[p]) \in Nat
    BY <1>1, Counts DEF Base
  <2> QED
    BY <2>2, <2>3, <2>4
<1>5. PinnedStaysSealed
  BY DEF SecureInv, ModesAgree, StrictIsSealed, PlainIsKey, PinnedStaysSealed
<1>6. NothingFollowsPart
  BY DEF SecureInv, PartsAreLast, PartIsLast, NoPart, NothingFollowsPart
<1> QED
  BY <1>2, <1>3, <1>4, <1>5, <1>6 DEF WireIsFaithful

(* The two ends of a keyed connection, whatever they are configured with   *)
(* and whenever either of them goes, read every record in the mode, under  *)
(* the nonce and within the limit it was written for, take the other's     *)
(* session records once and in order, keep a pinned viewer's stream        *)
(* sealed, and write nothing behind a part of a record (handshake.rs,      *)
(* transport.rs, session.rs).                                              *)
THEOREM WireTheorem == SecureSpec => []WireIsFaithful
<1>1. SecureInit => SecureInv
  BY SecureInitially
<1>2. SecureInv /\ [SecureNext]_secureVars => SecureInv'
  BY SecureStep
<1>3. SecureInv => WireIsFaithful
  BY SecureInvIsFaithful
<1> QED
  BY <1>1, <1>2, <1>3, PTL DEF SecureSpec

-----------------------------------------------------------------------------
(* A dial through the rendezvous servers.                                  *)

KnownCertificates == Certificates \cup {Forged, NoCertificate}

(* The last steps of a dial: the key of the peer is known.                 *)
Keyed == {"punch", "dial_again", "await_relay", "dial_hbbr", "handshake"}

DialFields == /\ {"step", "key", "end", "route", "until", "relay", "punchedAt", "relayAt",
                  "attempt", "skipped", "remote"} \subseteq DOMAIN dial
              /\ {"result", "end"} \subseteq DOMAIN outcome

(* Whatever stands on a control wire, its certificate is one that hbbs     *)
(* signed or one that nobody did.                                          *)
AllKnown(s) ==
    s \in Seq({r \in {s[i] : i \in DOMAIN s} : r.pk \in KnownCertificates})

KeyIsAsked == dial.step \in Keyed => dial.key = Asked

DialInv ==
    DialFields /\ AllKnown(answers) /\ KeyIsAsked /\ EstablishedIsAsked

LEMMA CertifiedIsAsked ==
    ASSUME NEW pk \in KnownCertificates, Certifies(pk)
    PROVE  pk.key = Asked
<1>1. pk.signer = "hbbs" /\ pk.id = Asked
  BY DEF Certifies
<1>2. Forged.signer # "hbbs" /\ NoCertificate.signer # "hbbs"
  BY DEF Forged, NoCertificate
<1>3. PICK h \in Hosts : pk = [id |-> h, key |-> h, signer |-> "hbbs"]
  BY <1>1, <1>2 DEF KnownCertificates, Certificates
<1> QED
  BY <1>1, <1>3

LEMMA GenuineIsKnown == Genuine \in KnownCertificates
<1>1. [id |-> Asked, key |-> Asked, signer |-> "hbbs"] \in Certificates
  BY DEF Certificates, Hosts
<1>2. \E c \in Certificates : c.id = Asked
  BY <1>1
<1>3. Genuine \in Certificates
  BY <1>2 DEF Genuine
<1> QED
  BY <1>3 DEF KnownCertificates

(* No record that the servers or anyone else may send holds a certificate  *)
(* that hbbs never signed.                                                 *)
LEMMA AnswersAreKnown ==
    ASSUME NEW r, r \in {Hello} \cup PunchAnswers \cup RelayAnswers \cup AnyRecords
    PROVE  r.pk \in KnownCertificates
<1>1. NoCertificate \in KnownCertificates
  BY DEF KnownCertificates
<1>2. /\ Hello.pk = NoCertificate /\ Plain("else").pk = NoCertificate
      /\ Refusal("punch").pk = NoCertificate /\ Refusal("relay").pk = NoCertificate
  BY DEF Hello, Plain, Refusal
<1>3. ASSUME NEW P, P \subseteq KnownCertificates
      PROVE  /\ \A A, Y, U : \A x \in Punches(P, A, Y, U) : x.pk \in KnownCertificates
             /\ \A Y, U : \A x \in Relays(P, Y, U) : x.pk \in KnownCertificates
  BY <1>3 DEF Punches, Relays
<1>4. {Genuine} \subseteq KnownCertificates /\ {Genuine, NoCertificate} \subseteq KnownCertificates
      /\ Certificates \cup {Forged, NoCertificate} \subseteq KnownCertificates
      /\ Certificates \cup {Forged} \subseteq KnownCertificates
  BY <1>1, GenuineIsKnown DEF KnownCertificates
<1>5. CASE r \in PunchAnswers
  BY <1>1, <1>2, <1>3, <1>4, <1>5 DEF PunchAnswers
<1>6. CASE r \in RelayAnswers
  BY <1>1, <1>2, <1>3, <1>4, <1>6 DEF RelayAnswers
<1>7. CASE r \in AnyRecords
  BY <1>1, <1>2, <1>3, <1>4, <1>7 DEF AnyRecords
<1> QED
  BY <1>1, <1>2, <1>5, <1>6, <1>7

LEMMA KnownSequences ==
    /\ AllKnown(<<>>)
    /\ \A s : AllKnown(s) /\ s # <<>> => Head(s).pk \in KnownCertificates /\ AllKnown(Tail(s))
    /\ \A s, r : AllKnown(s) /\ r.pk \in KnownCertificates => AllKnown(Append(s, r))
<1>0. ASSUME NEW S, NEW s \in Seq(S), \A r \in S : r.pk \in KnownCertificates
      PROVE  AllKnown(s)
  BY <1>0 DEF AllKnown
<1>1. AllKnown(<<>>)
  <2> DEFINE S == {}
  <2>1. <<>> \in Seq(S) /\ \A r \in S : r.pk \in KnownCertificates
    OBVIOUS
  <2> HIDE DEF S
  <2> QED
    BY <1>0, <2>1
<1>2. ASSUME NEW s, AllKnown(s), s # <<>>
      PROVE  Head(s).pk \in KnownCertificates /\ AllKnown(Tail(s))
  <2> DEFINE S == {r \in {s[i] : i \in DOMAIN s} : r.pk \in KnownCertificates}
  <2>1. s \in Seq(S) /\ \A r \in S : r.pk \in KnownCertificates
    BY <1>2 DEF AllKnown
  <2> HIDE DEF S
  <2>2. Head(s) \in S /\ Tail(s) \in Seq(S)
    BY <1>2, <2>1
  <2> QED
    BY <1>0, <2>1, <2>2
<1>3. ASSUME NEW s, NEW r, AllKnown(s), r.pk \in KnownCertificates
      PROVE  AllKnown(Append(s, r))
  <2> DEFINE S == {x \in {s[i] : i \in DOMAIN s} : x.pk \in KnownCertificates}
  <2>1. s \in Seq(S) /\ \A x \in S : x.pk \in KnownCertificates
    BY <1>3 DEF AllKnown
  <2> HIDE DEF S
  <2>2. s \in Seq(S \cup {r}) /\ \A x \in S \cup {r} : x.pk \in KnownCertificates
    BY <1>3, <2>1
  <2>3. Append(s, r) \in Seq(S \cup {r})
    BY <2>2
  <2> QED
    BY <1>0, <2>2, <2>3
<1> QED
  BY <1>1, <1>2, <1>3

LEMMA DialInitial == RendezvousInit => DialInv
<1> SUFFICES ASSUME RendezvousInit PROVE DialInv
  OBVIOUS
<1>1. dial = Idle("start") /\ outcome = Pending /\ answers = <<>>
  BY DEF RendezvousInit
<1>2. DialFields /\ KeyIsAsked /\ EstablishedIsAsked
  BY <1>1 DEF DialFields, KeyIsAsked, Keyed, EstablishedIsAsked, Idle, Pending
<1> QED
  BY <1>1, <1>2, KnownSequences DEF DialInv

(* A dial that ends without a session.                                     *)
LEMMA EndsKeeps ==
    ASSUME DialInv, NEW result, result # "ok", Ends(result)
    PROVE  DialInv'
<1>1. /\ dial' = Idle("done") /\ outcome' = [Pending EXCEPT !.result = result]
      /\ answers' = <<>>
  BY DEF Ends
<1>2. DialFields' /\ KeyIsAsked' /\ EstablishedIsAsked'
  <2>1. /\ {"result", "end"} \subseteq DOMAIN Pending
        /\ Pending = [x \in DOMAIN Pending |-> Pending[x]]
    BY DEF Pending
  <2>2. {"result", "end"} \subseteq DOMAIN outcome' /\ outcome'.result = result
    BY <1>1, <2>1
  <2>3. dial'.step = "done" /\ DOMAIN dial' = DOMAIN Idle("done")
    BY <1>1 DEF Idle
  <2>4. {"step", "key", "end", "route", "until", "relay", "punchedAt", "relayAt",
         "attempt", "skipped", "remote"} \subseteq DOMAIN Idle("done")
    BY DEF Idle
  <2> QED
    BY <2>2, <2>3, <2>4 DEF DialFields, KeyIsAsked, Keyed, EstablishedIsAsked
<1> QED
  BY <1>1, <1>2, KnownSequences DEF DialInv

(* A step that leaves the result alone and moves the dial.                 *)
LEMMA MovesKeep ==
    ASSUME DialInv, UNCHANGED outcome, AllKnown(answers'),
           DOMAIN dial' = DOMAIN dial,
           dial'.step \in Keyed => dial'.key = Asked
    PROVE  DialInv'
  BY DEF DialInv, DialFields, KeyIsAsked, EstablishedIsAsked

(* The steps of the dial that send, read and connect.                      *)
LEMMA DialSteps == ASSUME DialInv, RendezvousNext PROVE DialInv'
<1>0. DialFields /\ AllKnown(answers) /\ KeyIsAsked /\ EstablishedIsAsked
  BY DEF DialInv
<1>1. CASE ConnectViewer
  <2>1. CASE Ends("refused")
    BY <2>1, EndsKeeps
  <2>2. CASE ~Ends("refused")
    <3>1. /\ dial'.step = "dial_hbbs" /\ DOMAIN dial' = DOMAIN dial
          /\ UNCHANGED <<outcome, answers>>
      BY <1>0, <1>1, <2>2 DEF ConnectViewer, DialFields
    <3> QED
      BY <1>0, <3>1, MovesKeep DEF Keyed
  <2> QED
    BY <2>1, <2>2
<1>2. CASE PunchRequested
  <2>0. <<Hello>> = Append(<<>>, Hello)
    OBVIOUS
  <2>1. AllKnown(answers')
    BY <1>2, <2>0, KnownSequences, AnswersAreKnown DEF PunchRequested
  <2> QED
    BY <1>0, <1>2, <2>1, MovesKeep DEF PunchRequested, DialFields, Keyed
<1>3. CASE HbbsAnswers
  <2>1. PICK r : r \in PunchAnswers \cup RelayAnswers \cup AnyRecords /\ answers' = Append(answers, r)
    BY <1>3 DEF HbbsAnswers
  <2>2. AllKnown(answers')
    BY <1>0, <2>1, KnownSequences, AnswersAreKnown
  <2> QED
    BY <1>0, <1>3, <2>2, MovesKeep DEF HbbsAnswers, KeyIsAsked
<1>4. CASE HbbsCloses
  BY <1>4, EndsKeeps DEF HbbsCloses
<1>5. CASE SkipKeyExchange
  <2>1. CASE Ends("invalid")
    BY <2>1, EndsKeeps
  <2>2. CASE ~Ends("invalid")
    <3>1. dial' = [dial EXCEPT !.skipped = 1] /\ answers' = Tail(answers) /\ answers # <<>>
          /\ UNCHANGED outcome
      BY <1>5, <2>2 DEF SkipKeyExchange
    <3>2. AllKnown(answers')
      BY <1>0, <3>1, KnownSequences
    <3> QED
      BY <1>0, <3>1, <3>2, MovesKeep DEF DialFields, KeyIsAsked
  <2> QED
    BY <2>1, <2>2
<1>6. CASE AskAgain
  <2>1. CASE Ends("time")
    BY <2>1, EndsKeeps
  <2>2. CASE ~Ends("time")
    <3>1. dial'.step = "await_punch" /\ DOMAIN dial' = DOMAIN dial
          /\ UNCHANGED <<outcome, answers>>
      BY <1>0, <1>6, <2>2 DEF AskAgain, DialFields
    <3> QED
      BY <1>0, <3>1, MovesKeep DEF Keyed
  <2> QED
    BY <2>1, <2>2
<1>7. CASE PunchHoleResponse
  <2>1. CASE Ends("refused") \/ Ends("invalid")
    BY <2>1, EndsKeeps
  <2>2. CASE ~(Ends("refused") \/ Ends("invalid"))
    <3>1. answers # <<>> /\ Head(answers).pk \in KnownCertificates
      BY <1>0, <1>7, KnownSequences DEF PunchHoleResponse, Read
    <3>2. /\ Certifies(Head(answers).pk) /\ dial'.key = Head(answers).pk.key
          /\ DOMAIN dial' = DOMAIN dial /\ answers' = <<>> /\ UNCHANGED outcome
      BY <1>0, <1>7, <2>2 DEF PunchHoleResponse, Drops, DialFields
    <3> QED
      BY <3>1, <3>2, CertifiedIsAsked, KnownSequences, MovesKeep
  <2> QED
    BY <2>1, <2>2
<1>8. CASE RelayResponse
  <2>1. CASE Ends("refused") \/ Ends("invalid")
    BY <2>1, EndsKeeps
  <2>2. CASE ~(Ends("refused") \/ Ends("invalid"))
    <3>1. answers # <<>> /\ Head(answers).pk \in KnownCertificates
      BY <1>0, <1>8, KnownSequences DEF RelayResponse, Read
    <3>2. /\ Certifies(Head(answers).pk) /\ dial'.key = Head(answers).pk.key
          /\ DOMAIN dial' = DOMAIN dial /\ answers' = <<>> /\ UNCHANGED outcome
      BY <1>0, <1>8, <2>2 DEF RelayResponse, Drops, DialFields
    <3> QED
      BY <3>1, <3>2, CertifiedIsAsked, KnownSequences, MovesKeep
  <2> QED
    BY <2>1, <2>2
<1>9. CASE Unexpected
  BY <1>9, EndsKeeps DEF Unexpected
<1>10. CASE PunchConnects \/ RelayJoined
  <2>1. dial.key = Asked
    BY <1>0, <1>10 DEF KeyIsAsked, Keyed, PunchConnects, RelayJoined
  <2>2. PICK h, route : /\ dial' = [dial EXCEPT !.step = "handshake", !.end = h, !.route = route]
                        /\ UNCHANGED <<outcome, answers>>
    BY <1>10 DEF PunchConnects, RelayJoined, Connected
  <2> QED
    BY <1>0, <2>1, <2>2, MovesKeep DEF DialFields
<1>11. CASE PunchFails
  <2>1. CASE Ends("unreachable")
    BY <2>1, EndsKeeps
  <2>2. CASE ~Ends("unreachable")
    <3>1. dial.key = Asked
      BY <1>0, <1>11 DEF KeyIsAsked, Keyed, PunchFails
    <3>2. dial'.key = dial.key /\ DOMAIN dial' = DOMAIN dial
          /\ UNCHANGED <<outcome, answers>>
      BY <1>0, <1>11, <2>2 DEF PunchFails, DialFields
    <3> QED
      BY <1>0, <3>1, <3>2, MovesKeep
  <2> QED
    BY <2>1, <2>2
<1>12. CASE RelayRequested
  <2>1. dial.key = Asked
    BY <1>0, <1>12 DEF KeyIsAsked, Keyed, RelayRequested
  <2>2. dial'.key = dial.key /\ DOMAIN dial' = DOMAIN dial /\ UNCHANGED outcome
    BY <1>0, <1>12 DEF RelayRequested, DialFields
  <2>3. answers' = answers \o <<>> \/ answers' = answers \o <<Hello>>
    BY <1>12 DEF RelayRequested
  <2>4. answers' = answers \/ answers' = Append(answers, Hello)
    BY <1>0, <2>3 DEF AllKnown
  <2>5. AllKnown(answers')
    BY <1>0, <2>4, KnownSequences, AnswersAreKnown
  <2> QED
    BY <2>1, <2>2, <2>5, MovesKeep
<1>13. CASE RelayAcknowledged
  <2>1. CASE Ends("refused") \/ Ends("invalid")
    BY <2>1, EndsKeeps
  <2>2. CASE ~(Ends("refused") \/ Ends("invalid"))
    <3>1. dial.key = Asked
      BY <1>0, <1>13 DEF KeyIsAsked, Keyed, RelayAcknowledged
    <3>2. dial'.key = dial.key /\ DOMAIN dial' = DOMAIN dial
          /\ answers' = <<>> /\ UNCHANGED outcome
      BY <1>0, <1>13, <2>2 DEF RelayAcknowledged, DialFields, Drops
    <3> QED
      BY <3>1, <3>2, KnownSequences, MovesKeep
  <2> QED
    BY <2>1, <2>2
<1>14. CASE ServerUnreachable \/ DeadlinePasses
  BY <1>14, EndsKeeps DEF ServerUnreachable, DeadlinePasses
<1>15. CASE KeyHandshake
  <2>1. CASE Ends("invalid")
    BY <2>1, EndsKeeps
  <2>2. CASE ~Ends("invalid")
    <3>1. dial.end = dial.key /\ dial.key = Asked
      BY <1>0, <1>15, <2>2 DEF KeyHandshake, Proves, KeyIsAsked, Keyed
    <3>2. /\ dial' = Idle("done") /\ answers' = answers
          /\ outcome' = [result |-> "ok", end |-> dial.end, route |-> dial.route]
      BY <1>15, <2>2 DEF KeyHandshake
    <3>3. DialFields' /\ KeyIsAsked' /\ EstablishedIsAsked'
      BY <3>1, <3>2 DEF DialFields, Idle, KeyIsAsked, Keyed, EstablishedIsAsked
    <3> QED
      BY <1>0, <3>2, <3>3 DEF DialInv
  <2> QED
    BY <2>1, <2>2
<1>16. CASE Tick \/ DiscoverPeer \/ (\E good \in BOOLEAN : Datagram(good)) \/ ProbeEnds
  <2>1. UNCHANGED <<dial, answers, outcome>>
    BY <1>16 DEF Tick, DiscoverPeer, Datagram, ProbeEnds
  <2> QED
    BY <1>0, <2>1 DEF DialInv, DialFields, KeyIsAsked, EstablishedIsAsked
<1> QED
  BY <1>1, <1>2, <1>3, <1>4, <1>5, <1>6, <1>7, <1>8, <1>9, <1>10, <1>11, <1>12, <1>13, <1>14,
     <1>15, <1>16 DEF RendezvousNext

(* connect_viewer succeeds only with a host that proved the key hbbs       *)
(* signed for the asked id, whatever the control wire carried and whoever  *)
(* the network connected us to (rendezvous.rs, peer_key and finish).       *)
THEOREM EstablishedTheorem == RendezvousSpec => []EstablishedIsAsked
<1>1. RendezvousInit => DialInv
  BY DialInitial
<1>2. DialInv /\ [RendezvousNext]_dialVars => DialInv'
  <2>1. ASSUME DialInv, UNCHANGED dialVars PROVE DialInv'
    BY <2>1 DEF dialVars, DialInv, DialFields, KeyIsAsked, EstablishedIsAsked
  <2> QED
    BY <2>1, DialSteps
<1>3. DialInv => EstablishedIsAsked
  BY DEF DialInv
<1> QED
  BY <1>1, <1>2, <1>3, PTL DEF RendezvousSpec

(* What the clock and the budgets of a dial are.                           *)
DialTimes ==
    /\ config.deadline \in Nat /\ now \in Nat /\ now <= config.deadline
    /\ dial.attempt \in Nat /\ dial.until \in Nat /\ dial.punchedAt \in Nat /\ dial.relayAt \in Nat

(* No relay is asked for before the punch, and a punch with a relay in     *)
(* hand is given up with half of the time left.                            *)
RelayInv ==
    /\ DialFields /\ DialTimes /\ RelayKeepsHalf
    /\ dial.step \in {"start", "dial_hbbs", "await_punch", "punch"} => dial.relayAt = 0
    /\ dial.step = "punch" /\ dial.relay =>
         /\ now <= dial.until /\ dial.punchedAt <= dial.until
         /\ 2 * (dial.until - dial.punchedAt) <= config.deadline - dial.punchedAt

LEMMA LeastOfTwo ==
    ASSUME NEW a \in Nat, NEW b \in Nat
    PROVE  Least(a, b) \in Nat /\ Least(a, b) <= a /\ Least(a, b) <= b
<1>1. \E x \in {a, b} : \A y \in {a, b} : x <= y
  OBVIOUS
<1>2. Min({a, b}) \in {a, b} /\ \A y \in {a, b} : Min({a, b}) <= y
  BY <1>1 DEF Min
<1> QED
  BY <1>2 DEF Least

LEMMA Budgets ==
    ASSUME DialTimes
    PROVE  /\ ServerDialBudget \in Nat /\ \A n \in Nat : AttemptBudget(n) \in Nat
           /\ \A r \in BOOLEAN : now + PunchBudget(r) \in Nat
           /\ 2 * PunchBudget(TRUE) <= config.deadline - now /\ PunchBudget(TRUE) \in Nat
<1> DEFINE t == config.deadline - now
           h == t \div 2
<1>1. t \in Nat /\ now \in Nat
  BY DEF DialTimes
<1>2. h \in Nat /\ 2 * h <= t
  <2> HIDE DEF t
  <2> QED
    BY <1>1
<1>3. Remaining = t /\ Half(Remaining) = h
  BY DEF Remaining, Half
<1> HIDE DEF t, h
<1>4. Least(h, 1) \in Nat /\ Least(h, 1) <= h
  BY <1>2, LeastOfTwo
<1> QED
  BY <1>1, <1>2, <1>3, <1>4 DEF ServerDialBudget, AttemptBudget, PunchBudget, t

LEMMA EndsKeepsRelay ==
    ASSUME RelayInv, NEW result, Ends(result) PROVE RelayInv'
<1>1. /\ dial' = Idle("done") /\ UNCHANGED <<config, now>>
      /\ outcome' = [Pending EXCEPT !.result = result]
  BY DEF Ends
<1>2. {"result", "end"} \subseteq DOMAIN outcome'
  <2>1. /\ {"result", "end"} \subseteq DOMAIN Pending
        /\ Pending = [x \in DOMAIN Pending |-> Pending[x]]
    BY DEF Pending
  <2> QED
    BY <1>1, <2>1
<1>3. DialFields'
  BY <1>1, <1>2 DEF DialFields, Idle
<1>4. dial'.step = "done" /\ dial'.attempt = 0 /\ dial'.until = 0 /\ dial'.punchedAt = 0 /\ dial'.relayAt = 0
  BY <1>1 DEF Idle
<1> QED
  BY <1>1, <1>3, <1>4 DEF RelayInv, DialTimes, RelayKeepsHalf

(* A step that asks for no relay and begins no punch.                      *)
LEMMA OtherStepsKeepRelay ==
    ASSUME RelayInv, UNCHANGED <<config, now, outcome>>, DOMAIN dial' = DOMAIN dial,
           dial'.attempt \in Nat, dial'.until \in Nat, dial'.punchedAt = dial.punchedAt, dial'.relayAt = dial.relayAt,
           dial'.step # "punch", dial'.step # "dial_again",
           dial'.step = "await_relay" => dial.step \in {"dial_again", "await_relay"},
           dial'.step \in {"start", "dial_hbbs", "await_punch"} => dial'.relayAt = 0
    PROVE  RelayInv'
<1>1. DialFields' /\ DialTimes'
  BY DEF RelayInv, DialFields, DialTimes
<1>2. RelayKeepsHalf'
  BY DEF RelayInv, RelayKeepsHalf
<1> QED
  BY <1>1, <1>2 DEF RelayInv

LEMMA RelaySteps == ASSUME RelayInv, RendezvousNext PROVE RelayInv'
<1>0. DialFields /\ DialTimes /\ RelayKeepsHalf
  BY DEF RelayInv
<1>1. CASE ConnectViewer \/ PunchRequested \/ AskAgain
  <2>1. CASE Ends("refused") \/ Ends("time")
    BY <2>1, EndsKeepsRelay
  <2>2. CASE ConnectViewer /\ ~Ends("refused")
    <3>1. /\ dial'.step = "dial_hbbs" /\ dial'.until = ServerDialBudget
          /\ dial'.attempt = dial.attempt /\ dial'.punchedAt = dial.punchedAt
          /\ dial'.relayAt = dial.relayAt /\ DOMAIN dial' = DOMAIN dial
          /\ dial.step = "start" /\ UNCHANGED <<config, now, outcome>>
      BY <1>0, <2>2 DEF ConnectViewer, DialFields
    <3> QED
      BY <1>0, <3>1, Budgets, OtherStepsKeepRelay DEF RelayInv, DialTimes
  <2>3. CASE PunchRequested
    <3>1. /\ dial'.step = "await_punch" /\ dial'.until = AttemptBudget(1)
          /\ dial'.attempt = 1 /\ dial'.punchedAt = dial.punchedAt
          /\ dial'.relayAt = dial.relayAt /\ DOMAIN dial' = DOMAIN dial
          /\ dial.step = "dial_hbbs" /\ UNCHANGED <<config, now, outcome>>
      BY <1>0, <2>3 DEF PunchRequested, DialFields
    <3>2. AttemptBudget(1) \in Nat
      BY <1>0, Budgets
    <3> QED
      BY <1>0, <3>1, <3>2, OtherStepsKeepRelay DEF RelayInv, DialTimes
  <2>4. CASE AskAgain /\ ~Ends("time")
    <3>1. /\ dial'.step = "await_punch" /\ dial'.until = AttemptBudget(dial.attempt + 1)
          /\ dial'.attempt = dial.attempt + 1 /\ dial'.punchedAt = dial.punchedAt
          /\ dial'.relayAt = dial.relayAt /\ DOMAIN dial' = DOMAIN dial
          /\ dial.step = "await_punch" /\ UNCHANGED <<config, now, outcome>>
      BY <1>0, <2>4 DEF AskAgain, DialFields
    <3>2. dial.attempt + 1 \in Nat /\ AttemptBudget(dial.attempt + 1) \in Nat
      BY <1>0 DEF DialTimes, AttemptBudget
    <3> QED
      BY <1>0, <3>1, <3>2, OtherStepsKeepRelay DEF RelayInv, DialTimes
  <2> QED
    BY <1>1, <2>1, <2>2, <2>3, <2>4
<1>2. CASE HbbsAnswers
  <2>1. UNCHANGED <<config, now, dial, outcome>>
    BY <1>2 DEF HbbsAnswers
  <2> QED
    BY <1>0, <2>1 DEF RelayInv, DialFields, DialTimes, RelayKeepsHalf
<1>3. CASE SkipKeyExchange \/ Unexpected \/ HbbsCloses \/ ServerUnreachable \/ DeadlinePasses
  <2>1. CASE \E result : Ends(result)
    BY <2>1, EndsKeepsRelay
  <2>2. CASE ~\E result : Ends(result)
    <3>1. /\ dial' = [dial EXCEPT !.skipped = 1] /\ dial.step \in AwaitingRecord
          /\ UNCHANGED <<config, now, outcome>>
      BY <1>3, <2>2 DEF SkipKeyExchange, Unexpected, HbbsCloses, ServerUnreachable, DeadlinePasses
    <3> QED
      BY <1>0, <3>1, OtherStepsKeepRelay DEF RelayInv, DialFields, DialTimes, AwaitingRecord
  <2> QED
    BY <2>1, <2>2
<1>4. CASE PunchHoleResponse
  <2>1. CASE \E result : Ends(result)
    BY <2>1, EndsKeepsRelay
  <2>2. CASE ~\E result : Ends(result)
    <3> DEFINE relay == config.override \/ Head(answers).relay
               budget == PunchBudget(relay)
               until == now + budget
    <3>1. /\ dial.step = "await_punch" /\ dial'.step = "punch" /\ dial'.relay = relay
          /\ dial'.punchedAt = now /\ dial'.until = until /\ dial'.attempt = dial.attempt
          /\ dial'.relayAt = dial.relayAt /\ DOMAIN dial' = DOMAIN dial
          /\ UNCHANGED <<config, now, outcome>>
      BY <1>0, <1>4, <2>2 DEF PunchHoleResponse, DialFields
    <3>2. relay \in BOOLEAN /\ (relay => budget = PunchBudget(TRUE))
      OBVIOUS
    <3>3. until \in Nat
      BY <1>0, <3>2, Budgets
    <3>4. relay => /\ until >= now /\ 2 * (until - now) <= config.deadline - now
      <4> DEFINE b == PunchBudget(TRUE)
      <4>1. b \in Nat /\ 2 * b <= config.deadline - now
        BY <1>0, Budgets
      <4>2. relay => until = now + b
        BY <3>2
      <4> HIDE DEF relay, until, b
      <4> QED
        BY <1>0, <4>1, <4>2 DEF DialTimes
    <3> HIDE DEF relay, until, budget
    <3>5. dial.relayAt = 0
      BY <3>1 DEF RelayInv
    <3>6. DialFields' /\ DialTimes'
      BY <1>0, <3>1, <3>3, <3>5 DEF DialFields, DialTimes
    <3>7. RelayKeepsHalf'
      BY <3>1, <3>5 DEF RelayKeepsHalf
    <3> QED
      BY <3>1, <3>4, <3>5, <3>6, <3>7 DEF RelayInv
  <2> QED
    BY <2>1, <2>2
<1>5. CASE RelayResponse \/ RelayAcknowledged
  <2>1. CASE \E result : Ends(result)
    BY <2>1, EndsKeepsRelay
  <2>2. CASE ~\E result : Ends(result)
    <3>1. /\ dial'.step = "dial_hbbr" /\ dial'.until = ServerDialBudget
          /\ dial'.attempt = dial.attempt /\ dial'.punchedAt = dial.punchedAt
          /\ dial'.relayAt = dial.relayAt /\ DOMAIN dial' = DOMAIN dial
          /\ UNCHANGED <<config, now, outcome>>
      <4>1. CASE RelayResponse
        BY <1>0, <4>1, <2>2 DEF RelayResponse, DialFields
      <4>2. CASE RelayAcknowledged
        BY <1>0, <4>2, <2>2 DEF RelayAcknowledged, DialFields
      <4> QED
        BY <1>5, <4>1, <4>2
    <3> QED
      BY <1>0, <3>1, Budgets, OtherStepsKeepRelay DEF DialTimes
  <2> QED
    BY <2>1, <2>2
<1>6. CASE PunchConnects \/ RelayJoined
  <2>1. PICK h, route : /\ dial' = [dial EXCEPT !.step = "handshake", !.end = h, !.route = route]
                        /\ UNCHANGED <<config, now, outcome>>
    BY <1>6 DEF PunchConnects, RelayJoined, Connected
  <2> QED
    BY <1>0, <2>1, OtherStepsKeepRelay DEF DialFields, DialTimes
<1>7. CASE PunchFails
  <2>1. CASE \E result : Ends(result)
    BY <2>1, EndsKeepsRelay
  <2>2. CASE ~\E result : Ends(result)
    <3>1. /\ dial.step = "punch" /\ dial.relay
          /\ dial' = [dial EXCEPT !.step = "dial_again", !.until = ServerDialBudget,
                                  !.relayAt = now]
          /\ UNCHANGED <<config, now, outcome>>
      BY <1>7, <2>2 DEF PunchFails
    <3>2. /\ dial'.step = "dial_again" /\ dial'.until = ServerDialBudget /\ dial'.relayAt = now
          /\ dial'.punchedAt = dial.punchedAt /\ dial'.attempt = dial.attempt
          /\ DOMAIN dial' = DOMAIN dial
      BY <1>0, <3>1 DEF DialFields
    <3>3. /\ now <= dial.until /\ dial.punchedAt <= dial.until
          /\ 2 * (dial.until - dial.punchedAt) <= config.deadline - dial.punchedAt
      BY <3>1 DEF RelayInv
    <3>4. 2 * (config.deadline - now) >= config.deadline - dial.punchedAt
      BY <1>0, <3>3 DEF DialTimes
    <3>5. RelayKeepsHalf'
      BY <3>1, <3>2, <3>4 DEF RelayKeepsHalf
    <3>6. DialFields' /\ DialTimes'
      BY <1>0, <3>1, <3>2, Budgets DEF DialFields, DialTimes
    <3> QED
      BY <3>2, <3>5, <3>6 DEF RelayInv
  <2> QED
    BY <2>1, <2>2
<1>8. CASE RelayRequested
  BY <1>0, <1>8, OtherStepsKeepRelay DEF RelayRequested, DialFields, DialTimes
<1>9. CASE KeyHandshake
  <2>1. CASE \E result : Ends(result)
    BY <2>1, EndsKeepsRelay
  <2>2. CASE ~\E result : Ends(result)
    <3>1. /\ dial' = Idle("done") /\ UNCHANGED <<config, now>>
          /\ outcome' = [result |-> "ok", end |-> dial.end, route |-> dial.route]
      BY <1>9, <2>2 DEF KeyHandshake
    <3>2. DialFields'
      BY <3>1 DEF DialFields, Idle
    <3>3. /\ dial'.step = "done" /\ dial'.attempt = 0 /\ dial'.until = 0
          /\ dial'.punchedAt = 0 /\ dial'.relayAt = 0
      BY <3>1 DEF Idle
    <3> QED
      BY <1>0, <3>1, <3>2, <3>3 DEF RelayInv, DialTimes, RelayKeepsHalf
  <2> QED
    BY <2>1, <2>2
<1>10. CASE Tick
  <2>1. /\ now' = now + 1 /\ now < config.deadline /\ UNCHANGED <<config, dial, outcome>>
        /\ dial.step = "punch" => now < dial.until
    BY <1>10 DEF Tick, Dialling
  <2> QED
    BY <1>0, <2>1 DEF RelayInv, DialFields, DialTimes, RelayKeepsHalf
<1>11. CASE DiscoverPeer \/ (\E good \in BOOLEAN : Datagram(good)) \/ ProbeEnds
  <2>1. UNCHANGED <<config, now, dial, outcome>>
    BY <1>11 DEF DiscoverPeer, Datagram, ProbeEnds
  <2> QED
    BY <1>0, <2>1 DEF RelayInv, DialFields, DialTimes, RelayKeepsHalf
<1> QED
  BY <1>1, <1>2, <1>3, <1>4, <1>5, <1>6, <1>7, <1>8, <1>9, <1>10, <1>11 DEF RendezvousNext

LEMMA RelayInitial == RendezvousInit => RelayInv
<1> SUFFICES ASSUME RendezvousInit PROVE RelayInv
  OBVIOUS
<1>1. dial = Idle("start") /\ outcome = Pending /\ now = 0
  BY DEF RendezvousInit
<1>2. config.deadline \in Nat
  BY RendezvousConstants DEF RendezvousInit
<1>3. /\ dial.step = "start" /\ dial.relay = FALSE /\ dial.attempt = 0 /\ dial.until = 0
      /\ dial.punchedAt = 0 /\ dial.relayAt = 0
  BY <1>1 DEF Idle
<1>4. DialFields
  BY <1>1 DEF DialFields, Idle, Pending
<1> QED
  BY <1>1, <1>2, <1>3, <1>4 DEF RelayInv, DialTimes, RelayKeepsHalf

(* A silent peer address never eats the time of a relay that is known: the *)
(* relay is asked for with at least half of what was left when the punch   *)
(* began (rendezvous.rs, connect and request_relay).                       *)
THEOREM RelayTheorem == RendezvousSpec => []RelayKeepsHalf
<1>1. RendezvousInit => RelayInv
  BY RelayInitial
<1>2. RelayInv /\ [RendezvousNext]_dialVars => RelayInv'
  <2>1. ASSUME RelayInv, UNCHANGED dialVars PROVE RelayInv'
    BY <2>1 DEF dialVars, RelayInv, DialFields, DialTimes, RelayKeepsHalf
  <2> QED
    BY <2>1, RelaySteps
<1>3. RelayInv => RelayKeepsHalf
  BY DEF RelayInv
<1> QED
  BY <1>1, <1>2, <1>3, PTL DEF RendezvousSpec

-----------------------------------------------------------------------------
(* AddrMangle: what is decoded is what was encoded.                        *)

LEMMA ProductsGrow ==
    ASSUME NEW a \in Nat, NEW b \in Nat, NEW d \in Nat, a <= b
    PROVE  a * d \in Nat /\ b * d \in Nat /\ a * d <= b * d
  OBVIOUS

(* Quotient and remainder are the two numbers that fit.                    *)
LEMMA QuotientIsUnique ==
    ASSUME NEW q \in Nat, NEW d \in Nat \ {0}, NEW r \in 0..(d - 1)
    PROVE  /\ q * d + r \in Nat
           /\ (q * d + r) \div d = q /\ (q * d + r) % d = r
<1> DEFINE n == q * d + r
           k == n \div d
           m == n % d
<1>1. n \in Nat
  OBVIOUS
<1>2. k \in Nat /\ m \in 0..(d - 1) /\ n = k * d + m
  BY <1>1
<1>3. ASSUME k < q PROVE FALSE
  <2>1. k + 1 <= q /\ k + 1 \in Nat
    BY <1>2, <1>3
  <2> HIDE DEF k, m
  <2>2. (k + 1) * d <= q * d
    BY <2>1, ProductsGrow
  <2>3. (k + 1) * d = k * d + d
    BY <1>2
  <2> QED
    BY <1>2, <2>2, <2>3
<1>4. ASSUME q < k PROVE FALSE
  <2>1. q + 1 <= k /\ q + 1 \in Nat
    BY <1>2, <1>4
  <2> HIDE DEF k, m
  <2>2. (q + 1) * d <= k * d
    BY <1>2, <2>1, ProductsGrow
  <2>3. (q + 1) * d = q * d + d
    OBVIOUS
  <2> QED
    BY <1>2, <2>2, <2>3
<1>5. k = q
  <2> HIDE DEF k, m
  <2> QED
    BY <1>2, <1>3, <1>4
<1>6. m = r
  <2> HIDE DEF k, m
  <2> QED
    BY <1>2, <1>5
<1> QED
  BY <1>1, <1>5, <1>6

(* A mask that is a whole number of fields wide keeps the low field and    *)
(* whole multiples of it.                                                  *)
LEMMA MaskKeepsField ==
    ASSUME NEW q \in Nat, NEW w \in Nat \ {0}, NEW f \in Nat \ {0}, NEW r \in 0..(f - 1)
    PROVE  (q * f + r) % (w * f) = (q % w) * f + r
<1> DEFINE k == q \div w
           m == q % w
<1>1. k \in Nat /\ m \in 0..(w - 1) /\ q = k * w + m
  OBVIOUS
<1> HIDE DEF k, m
<1>2. w * f \in Nat \ {0} /\ m * f + r \in Nat
  BY <1>1
<1>3. m * f + r \in 0..(w * f - 1)
  <2>1. (m + 1) * f <= w * f
    BY <1>1, ProductsGrow
  <2>2. (m + 1) * f = m * f + f /\ m * f \in Nat
    BY <1>1
  <2> DEFINE x == m * f
             y == w * f
  <2>3. x \in Nat /\ y \in Nat /\ x + f <= y
    BY <1>2, <2>1, <2>2
  <2> HIDE DEF x, y
  <2>4. x + r \in 0..(y - 1)
    BY <2>3
  <2> QED
    BY <2>4 DEF x, y
<1>4. q * f + r = k * (w * f) + (m * f + r)
  BY <1>1
<1>5. (k * (w * f) + (m * f + r)) % (w * f) = m * f + r
  <2> DEFINE d == w * f
             s == m * f + r
  <2>1. d \in Nat \ {0} /\ s \in 0..(d - 1)
    BY <1>2, <1>3
  <2> HIDE DEF d, s
  <2>2. (k * d + s) % d = s
    BY <1>1, <2>1, QuotientIsUnique
  <2> QED
    BY <2>2 DEF d, s
<1> QED
  BY <1>4, <1>5 DEF m

(* Two fields, one behind the other.                                       *)
LEMMA FieldsAreSeparate ==
    ASSUME NEW v \in Nat, NEW s \in Nat \ {0}, NEW f \in Nat \ {0},
           NEW t \in 0..(s - 1), NEW r \in 0..(f - 1),
           NEW n, n = v * (s * f) + t * f + r
    PROVE  /\ n = (v * s + t) * f + r /\ n \in Nat
           /\ n \div (s * f) = v /\ n \div f = v * s + t /\ n % f = r
<1> DEFINE d == s * f
           q == v * s + t
           low == t * f + r
<1>1. d \in Nat \ {0} /\ q \in Nat /\ low \in Nat
  OBVIOUS
<1>2. low \in 0..(d - 1)
  <2>1. (t + 1) * f <= s * f
    BY ProductsGrow
  <2>2. (t + 1) * f = t * f + f
    OBVIOUS
  <2> QED
    BY <1>1, <2>1, <2>2
<1>3. n = v * d + low
  OBVIOUS
<1>4. n = q * f + r
  OBVIOUS
<1> HIDE DEF d, low, q
<1>5. n \in Nat /\ n \div d = v
  BY <1>1, <1>2, <1>3, QuotientIsUnique
<1>6. n \div f = q /\ n % f = r
  BY <1>1, <1>4, QuotientIsUnique
<1> QED
  BY <1>4, <1>5, <1>6 DEF d, q

PeerAddress == [ip : 1..(StampValues - 1), port : 1..(PortValues - 1)]

LEMMA MangleIsExact ==
    ASSUME NEW a \in PeerAddress, NEW stamp \in 0..(StampValues - 1)
    PROVE  LET n == Encode(a, stamp)
           IN  /\ n \in Nat /\ StampOf(n) = stamp /\ SumOf(n) = a.ip + stamp
               /\ n % FieldValues = a.port + (stamp % PortValues)
               /\ \E c \in Nat : n % (MaskFields * FieldValues)
                                   = c * FieldValues + (a.port + (stamp % PortValues))
<1> DEFINE s == StampValues
           f == FieldValues
           v == a.ip + stamp
           salt == stamp % PortValues
           r == a.port + salt
           n == Encode(a, stamp)
<1>1. PortValues \in Nat \ {0} /\ MaskFields \in Nat \ {0}
  BY RendezvousConstants
<1>2. s \in Nat \ {0} /\ f \in Nat \ {0} /\ f = 2 * PortValues
  BY <1>1 DEF StampValues, FieldValues
<1>3. a.ip \in 1..(s - 1) /\ a.port \in 1..(PortValues - 1)
  BY DEF PeerAddress
<1>4. stamp \in 0..(s - 1) /\ stamp \in Nat
  BY <1>2
<1>5. salt \in 0..(PortValues - 1)
  BY <1>1, <1>4
<1> HIDE DEF salt
<1>6. r \in 0..(f - 1)
  BY <1>1, <1>2, <1>3, <1>5
<1>7. v \in Nat
  BY <1>2, <1>3, <1>4
<1>8. n = v * (s * f) + stamp * f + r
  BY DEF Encode, salt
<1> HIDE DEF s, f, v, r, n
<1>15. s \in Nat \ {0}
  BY <1>2
<1>16. f \in Nat \ {0}
  BY <1>2
<1>17. stamp \in 0..(s - 1)
  BY <1>4
<1>9. /\ n = (v * s + stamp) * f + r /\ n \in Nat
      /\ n \div (s * f) = v /\ n \div f = v * s + stamp /\ n % f = r
  BY <1>15, <1>16, <1>17, <1>6, <1>7, <1>8, FieldsAreSeparate
<1>10. (v * s + stamp) % s = stamp
  BY <1>2, <1>4, <1>7, QuotientIsUnique
<1>11. v * s + stamp \in Nat
  BY <1>2, <1>4, <1>7
<1>12. n % (MaskFields * f) = ((v * s + stamp) % MaskFields) * f + r
  <2> DEFINE q == v * s + stamp
  <2>1. q \in Nat /\ n = q * f + r
    BY <1>9, <1>11
  <2> HIDE DEF q
  <2>2. MaskFields \in Nat \ {0}
    BY <1>1
  <2>3. (q * f + r) % (MaskFields * f) = (q % MaskFields) * f + r
    BY <1>16, <1>6, <2>1, <2>2, MaskKeepsField
  <2> QED
    BY <2>1, <2>3 DEF q
<1>13. (v * s + stamp) % MaskFields \in Nat
  BY <1>1, <1>11
<1>14. SumOf(n) = v /\ StampOf(n) = stamp
  BY <1>9, <1>10 DEF SumOf, StampOf, s, f
<1> QED
  BY <1>9, <1>12, <1>13, <1>14 DEF n, v, r, salt, f

LEMMA WholePortsVanish ==
    ASSUME NEW c \in Nat, NEW p \in Nat \ {0}, NEW port \in 1..(p - 1)
    PROVE  (c * (2 * p) + port) % p = port
<1>1. c * (2 * p) = (c * 2) * p /\ c * 2 \in Nat /\ port \in 0..(p - 1)
  OBVIOUS
<1>2. ((c * 2) * p + port) % p = port
  BY <1>1, QuotientIsUnique
<1> QED
  BY <1>1, <1>2

(* Every address a server can encode passes the test of peer_address and   *)
(* is decoded to itself, whatever the clock was.                           *)
LEMMA AddressSurvives ==
    ASSUME NEW a \in PeerAddress, NEW stamp \in 0..(StampValues - 1)
    PROVE  /\ Encode(a, stamp) \in Nat
           /\ Decodable(Encode(a, stamp)) /\ Decode(Encode(a, stamp)) = a
<1> DEFINE n == Encode(a, stamp)
           salt == stamp % PortValues
<1>1. PortValues \in Nat \ {0} /\ StampValues \in Nat \ {0}
  BY RendezvousConstants DEF StampValues
<1>2. stamp \in Nat /\ salt \in 0..(PortValues - 1)
  BY <1>1
<1>3. /\ n \in Nat /\ StampOf(n) = stamp /\ SumOf(n) = a.ip + stamp
      /\ n % FieldValues = a.port + salt
      /\ \E c \in Nat : n % (MaskFields * FieldValues) = c * FieldValues + (a.port + salt)
  BY MangleIsExact
<1>4. PICK c \in Nat : n % (MaskFields * FieldValues) = c * FieldValues + (a.port + salt)
  BY <1>3
<1>5. Salt(n) = salt
  BY <1>3 DEF Salt
<1> HIDE DEF n, salt
<1>6. a.ip \in 1..(StampValues - 1) /\ a.port \in 1..(PortValues - 1)
      /\ a = [ip |-> a.ip, port |-> a.port]
  BY DEF PeerAddress
<1>7. Decodable(n)
  <2>1. SumOf(n) >= stamp /\ SumOf(n) - stamp = a.ip /\ SumOf(n) # stamp
    BY <1>1, <1>2, <1>3, <1>6
  <2>2. n % FieldValues > salt /\ (n % FieldValues) - salt = a.port
    BY <1>1, <1>2, <1>3, <1>6
  <2> QED
    BY <1>1, <1>3, <1>5, <1>6, <2>1, <2>2 DEF Decodable, IsAddress
<1>8. Decode(n).ip = a.ip
  <2>1. SumOf(n) - StampOf(n) = a.ip
    BY <1>1, <1>2, <1>3, <1>6
  <2>2. a.ip % StampValues = a.ip
    BY <1>1, <1>6
  <2> QED
    BY <2>1, <2>2 DEF Decode
<1>9. Decode(n).port = a.port
  <2>1. (c * FieldValues + (a.port + salt)) - salt = c * FieldValues + a.port
    BY <1>1, <1>2, <1>6 DEF FieldValues
  <2>2. (c * FieldValues + a.port) % PortValues = a.port
    BY <1>1, <1>6, WholePortsVanish DEF FieldValues
  <2> QED
    BY <1>4, <1>5, <2>1, <2>2 DEF Decode
<1>10. Decode(n) = a
  BY <1>6, <1>8, <1>9 DEF Decode
<1> QED
  BY <1>3, <1>7, <1>10 DEF n

-----------------------------------------------------------------------------
(* A dial against honest servers.                                          *)

Nets == [honest : BOOLEAN, relay : BOOLEAN, addr : Addresses]
Probes == [step : {"idle", "probing", "answered", "failed"}, seen : 0..MaxDatagrams]
Results == {"pending", "ok", "time", "unreachable", "refused", "invalid"}

(* The types of a dial, beside those of its times.                         *)
DialTypes ==
    /\ net \in Nets /\ lan \in Probes
    /\ config.deadline \in Deadlines /\ config.valid \in BOOLEAN /\ config.override \in BOOLEAN
    /\ dial.step \in Steps /\ dial.attempt \in 0..3 /\ dial.skipped \in 0..1
    /\ dial.key \in Hosts \cup {NoKey}
    /\ answers \in Seq(Records) /\ owed \in 0..3
    /\ outcome.result \in Results

(* A control wire is dropped with what was not read or not answered.       *)
WireIsDropped == dial.step \notin AwaitingRecord => answers = <<>> /\ owed = 0

(* What an honest server may have put on the wire of a step: its answers,  *)
(* and before them one hello that was not skipped yet.                     *)
AnswersTo(step) == IF step = "await_punch" THEN PunchAnswers ELSE RelayAnswers
AnswersFit(s, step, skipped) ==
    \A i \in 1..Len(s) : \/ s[i] \in AnswersTo(step)
                         \/ i = 1 /\ s[i] = Hello /\ skipped = 0

PunchIsTrue == dial.step = "punch" => dial.remote = net.addr
EndIsAsked == dial.step = "handshake" => dial.end = Asked

HonestInv ==
    net.honest => /\ AnswersFit(answers, dial.step, dial.skipped)
                  /\ outcome.result # "invalid" /\ PunchIsTrue /\ EndIsAsked

ServedInv == DialTypes /\ WireIsDropped /\ HonestInv

RobustInv == DialInv /\ RelayInv /\ ServedInv

LEMMA GenuineIs == Genuine = [id |-> Asked, key |-> Asked, signer |-> "hbbs"]
<1> DEFINE c == [id |-> Asked, key |-> Asked, signer |-> "hbbs"]
<1>1. c \in Certificates /\ c.id = Asked
  BY DEF Certificates, Hosts
<1>2. \A d \in Certificates : d.id = Asked => d = c
  BY DEF Certificates
<1>3. \E d \in Certificates : d.id = Asked
  BY <1>1
<1> HIDE DEF c
<1>4. Genuine \in Certificates /\ Genuine.id = Asked
  BY <1>3 DEF Genuine
<1> QED
  BY <1>2, <1>4 DEF c

LEMMA AddressesArePeers ==
    ASSUME NEW a \in Addresses
    PROVE  a \in PeerAddress /\ \A s \in Stamps : s \in 0..(StampValues - 1)
  BY RendezvousConstants DEF PeerAddress, StampValues

LEMMA EncodedIsNat ==
    ASSUME NEW a \in Addresses, NEW stamp \in Nat PROVE Encode(a, stamp) \in Nat
<1>1. PortValues \in Nat \ {0}
  BY RendezvousConstants
<1>2. stamp % PortValues \in Nat
  BY <1>1
<1>3. a.ip \in Nat /\ a.port \in Nat /\ StampValues \in Nat /\ FieldValues \in Nat
  BY <1>1, AddressesArePeers DEF PeerAddress, StampValues, FieldValues
<1> QED
  BY <1>2, <1>3 DEF Encode

LEMMA RelaysAreRecords ==
    Relays(Certificates \cup {Forged, NoCertificate}, BOOLEAN, {"", "ours", "theirs", "junk"})
      \subseteq Records
<1>1. 0 \in Nat
  OBVIOUS
<1> QED
  BY <1>1 DEF Relays, Records

LEMMA PunchAnswersAre ==
    ASSUME net \in Nets, NEW r \in PunchAnswers
    PROVE  /\ r \in Records /\ r.kind \in {"punch", "relay"}
           /\ r.refused => r.kind = "punch"
           /\ ~r.refused => Certifies(r.pk)
           /\ r.kind = "punch" /\ ~r.refused =>
                ~r.udp /\ Decodable(r.addr) /\ Decode(r.addr) = net.addr
           /\ r.kind = "relay" => r.relay /\ r.uuid = "theirs"
<1>0. net.addr \in Addresses /\ net.relay \in BOOLEAN
  BY DEF Nets
<1>1. Certifies(Genuine) /\ Genuine \in Certificates /\ NoCertificate \in {NoCertificate}
  BY GenuineIs DEF Certifies, Certificates, Hosts
<1>2. CASE r \in Punches({Genuine}, {Encode(net.addr, s) : s \in Stamps}, {net.relay}, {FALSE})
  <2>1. PICK s \in Stamps : r.addr = Encode(net.addr, s)
    BY <1>2 DEF Punches
  <2>2. /\ r.addr \in Nat /\ Decodable(r.addr) /\ Decode(r.addr) = net.addr
    BY <1>0, <2>1, AddressesArePeers, AddressSurvives
  <2>3. /\ r.kind = "punch" /\ ~r.refused /\ ~r.udp /\ r.pk = Genuine
    BY <1>2 DEF Punches
  <2>4. r \in Records
    BY <1>0, <1>1, <1>2, <2>2 DEF Punches, Records
  <2> QED
    BY <1>1, <2>2, <2>3, <2>4
<1>3. CASE r \in Relays({Genuine}, {TRUE}, {"theirs"})
  <2>1. r.kind = "relay" /\ ~r.refused /\ r.pk = Genuine /\ r.relay /\ r.uuid = "theirs"
    BY <1>3 DEF Relays
  <2>2. r \in Relays(Certificates \cup {Forged, NoCertificate}, BOOLEAN,
                     {"", "ours", "theirs", "junk"})
    BY <1>1, <1>3 DEF Relays
  <2>3. r \in Records
    BY <2>2, RelaysAreRecords
  <2> QED
    BY <1>1, <2>1, <2>3
<1>4. CASE r = Refusal("punch")
  BY <1>4 DEF Refusal, Records
<1> QED
  BY <1>2, <1>3, <1>4 DEF PunchAnswers

LEMMA RelayAnswersAre ==
    ASSUME NEW r \in RelayAnswers
    PROVE  /\ r \in Records /\ r.kind = "relay" /\ r.refused \in BOOLEAN
           /\ ~r.refused => r.pk \in {Genuine, NoCertificate} /\ r.uuid \in {"", "ours"}
<1>1. Genuine \in Certificates
  BY GenuineIs DEF Certificates, Hosts
<1>2. CASE r \in Relays({Genuine, NoCertificate}, {TRUE}, {"", "ours"})
  <2>1. r \in Relays(Certificates \cup {Forged, NoCertificate}, BOOLEAN,
                     {"", "ours", "theirs", "junk"})
    BY <1>1, <1>2 DEF Relays
  <2>2. r \in Records
    BY <2>1, RelaysAreRecords
  <2> QED
    BY <1>2, <2>2 DEF Relays
<1>3. CASE r = Refusal("relay")
  BY <1>3 DEF Refusal, Records
<1> QED
  BY <1>2, <1>3 DEF RelayAnswers

LEMMA AnyRecordIs ==
    ASSUME net \in Nets, NEW r, r \in {Hello} \cup AnyRecords PROVE r \in Records
<1>1. net.addr \in Addresses /\ Encode(net.addr, 1) \in Nat /\ 0 \in Nat /\ StampValues \in Nat
  BY EncodedIsNat, RendezvousConstants DEF Nets, StampValues
<1>2. Hello \in Records /\ Plain("else") \in Records
  BY DEF Hello, Plain, Records
<1>3. Punches(Certificates \cup {Forged, NoCertificate}, {0, StampValues}, BOOLEAN, BOOLEAN)
        \subseteq Records
  BY <1>1 DEF Punches, Records
<1>4. Punches(Certificates \cup {Forged}, {Encode(net.addr, 1)}, BOOLEAN, {FALSE})
        \subseteq Records
  BY <1>1 DEF Punches, Records
<1> QED
  BY <1>2, <1>3, <1>4, RelaysAreRecords DEF AnyRecords

(* A dial that ends without a session: against honest servers not for what *)
(* it read.                                                                *)
LEMMA EndsServed ==
    ASSUME ServedInv, NEW result \in Results, Ends(result), net.honest => result # "invalid"
    PROVE  ServedInv'
<1>1. /\ dial' = Idle("done") /\ outcome' = [Pending EXCEPT !.result = result]
      /\ answers' = <<>> /\ owed' = 0 /\ UNCHANGED <<net, config, now, lan>>
  BY DEF Ends
<1>2. outcome'.result = result
  BY <1>1 DEF Pending
<1>3. dial'.step = "done" /\ dial'.attempt = 0 /\ dial'.skipped = 0 /\ dial'.key = NoKey
  BY <1>1 DEF Idle
<1>4. DialTypes'
  BY <1>1, <1>2, <1>3 DEF ServedInv, DialTypes, Steps
<1>5. WireIsDropped'
  BY <1>1 DEF WireIsDropped
<1>6. Len(answers') = 0
  BY <1>1
<1>7. HonestInv'
  BY <1>1, <1>2, <1>3, <1>6 DEF HonestInv, AnswersFit, PunchIsTrue, EndIsAsked
<1> QED
  BY <1>4, <1>5, <1>7 DEF ServedInv

(* A step that leaves the result alone and moves the dial.                 *)
LEMMA MovesServed ==
    ASSUME ServedInv, UNCHANGED <<net, config, outcome, lan>>,
           dial'.step \in Steps, dial'.attempt \in 0..3, dial'.skipped \in 0..1,
           dial'.key \in Hosts \cup {NoKey}, answers' \in Seq(Records), owed' \in 0..3,
           dial'.step \notin AwaitingRecord => answers' = <<>> /\ owed' = 0,
           net.honest => /\ AnswersFit(answers', dial'.step, dial'.skipped)
                         /\ dial'.step = "punch" => dial'.remote = net.addr
                         /\ dial'.step = "handshake" => dial'.end = Asked
    PROVE  ServedInv'
<1>1. DialTypes' /\ WireIsDropped'
  BY DEF ServedInv, DialTypes, WireIsDropped
<1>2. PunchAnswers' = PunchAnswers /\ RelayAnswers' = RelayAnswers
  BY DEF PunchAnswers, RelayAnswers
<1>3. net.honest => AnswersFit(answers, dial.step, dial.skipped)'
  BY <1>2 DEF AnswersFit, AnswersTo
<1>4. HonestInv'
  BY <1>3 DEF ServedInv, HonestInv, PunchIsTrue, EndIsAsked
<1> QED
  BY <1>1, <1>4 DEF ServedInv

(* Without a record there is nothing to fit.                               *)
LEMMA NothingFits == \A step, skipped : AnswersFit(<<>>, step, skipped)
  BY DEF AnswersFit

(* The next record is an answer, or the one hello that may come first.     *)
LEMMA NextFits ==
    ASSUME ServedInv, net.honest, answers # <<>>
    PROVE  /\ \/ Head(answers) \in AnswersTo(dial.step)
              \/ Head(answers) = Hello /\ dial.skipped = 0
           /\ Tail(answers) \in Seq(Records)
           /\ \A skipped : AnswersFit(Tail(answers), dial.step, skipped)
<1>1. answers \in Seq(Records) /\ AnswersFit(answers, dial.step, dial.skipped)
  BY DEF ServedInv, DialTypes, HonestInv
<1>2. Len(answers) \in Nat /\ Len(answers) >= 1 /\ Head(answers) = answers[1]
      /\ Len(Tail(answers)) = Len(answers) - 1
  BY <1>1
<1>3. ASSUME NEW skipped, NEW i \in 1..Len(Tail(answers))
      PROVE  Tail(answers)[i] \in AnswersTo(dial.step)
  <2>1. Tail(answers)[i] = answers[i + 1] /\ i + 1 \in 1..Len(answers) /\ i + 1 # 1
    BY <1>1, <1>2, <1>3
  <2> QED
    BY <1>1, <2>1 DEF AnswersFit
<1>4. 1 \in 1..Len(answers)
  BY <1>2
<1>5. \/ Head(answers) \in AnswersTo(dial.step)
      \/ Head(answers) = Hello /\ dial.skipped = 0
  BY <1>1, <1>2, <1>4 DEF AnswersFit
<1>6. Tail(answers) \in Seq(Records)
  BY <1>1
<1>7. \A skipped : AnswersFit(Tail(answers), dial.step, skipped)
  BY <1>3 DEF AnswersFit
<1> QED
  BY <1>5, <1>6, <1>7

LEMMA HelloFits ==
    ASSUME ServedInv
    PROVE  /\ <<Hello>> \in Seq(Records)
           /\ \A step : AnswersFit(<<Hello>>, step, 0)
<1>1. Hello \in Records
  BY AnyRecordIs DEF ServedInv, DialTypes
<1>2. Len(<<Hello>>) = 1 /\ <<Hello>>[1] = Hello
  OBVIOUS
<1> QED
  BY <1>1, <1>2 DEF AnswersFit

(* The records that hbbs may send in a step.                               *)
LEMMA AnswersAreRecords ==
    ASSUME net \in Nets, NEW r \in PunchAnswers \cup RelayAnswers \cup AnyRecords
    PROVE  r \in Records
  BY PunchAnswersAre, RelayAnswersAre, AnyRecordIs

LEMMA AppendFits ==
    ASSUME NEW s \in Seq(Records), NEW step, NEW skipped, AnswersFit(s, step, skipped),
           NEW r \in AnswersTo(step)
    PROVE  AnswersFit(Append(s, r), step, skipped)
<1> SUFFICES ASSUME NEW i \in 1..Len(Append(s, r))
             PROVE  \/ Append(s, r)[i] \in AnswersTo(step)
                    \/ i = 1 /\ Append(s, r)[i] = Hello /\ skipped = 0
  BY DEF AnswersFit
<1>1. Len(s) \in Nat /\ Len(Append(s, r)) = Len(s) + 1
  OBVIOUS
<1>2. CASE i = Len(s) + 1
  BY <1>1, <1>2
<1>3. CASE i \in 1..Len(s)
  <2>1. Append(s, r)[i] = s[i]
    BY <1>3
  <2> QED
    BY <1>3, <2>1 DEF AnswersFit
<1> QED
  BY <1>1, <1>2, <1>3

(* What every step may rely on.                                            *)
LEMMA RobustFacts ==
    ASSUME RobustInv
    PROVE  /\ DialFields /\ KeyIsAsked /\ DialTimes /\ ServedInv /\ DialTypes /\ WireIsDropped
           /\ net \in Nets /\ answers \in Seq(Records) /\ owed \in 0..3
           /\ dial.step \in Steps /\ dial.attempt \in 0..3 /\ dial.skipped \in 0..1
           /\ dial.key \in Hosts \cup {NoKey}
           /\ net.honest => AnswersFit(answers, dial.step, dial.skipped)
  BY DEF RobustInv, DialInv, RelayInv, ServedInv, DialTypes, HonestInv

(* The steps that send.                                                    *)
LEMMA SendingServed ==
    ASSUME RobustInv, ConnectViewer \/ PunchRequested \/ HbbsAnswers \/ AskAgain \/ RelayRequested
    PROVE  ServedInv'
<1>0. /\ DialFields /\ ServedInv /\ WireIsDropped
      /\ net \in Nets /\ answers \in Seq(Records) /\ owed \in 0..3
      /\ dial.step \in Steps /\ dial.attempt \in 0..3 /\ dial.skipped \in 0..1
      /\ dial.key \in Hosts \cup {NoKey}
      /\ net.honest => AnswersFit(answers, dial.step, dial.skipped)
  BY RobustFacts
<1>1. CASE Ends("refused") \/ Ends("time")
  BY <1>0, <1>1, EndsServed DEF Results
<1>2. CASE ConnectViewer /\ ~Ends("refused")
  <2>1. /\ dial'.step = "dial_hbbs" /\ dial'.attempt = dial.attempt
        /\ dial'.skipped = dial.skipped /\ dial'.key = dial.key /\ dial.step = "start"
        /\ UNCHANGED <<net, config, answers, owed, outcome, lan>>
    BY <1>0, <1>2 DEF ConnectViewer, DialFields
  <2>2. answers = <<>> /\ owed = 0
    BY <1>0, <2>1 DEF WireIsDropped, AwaitingRecord
  <2> QED
    BY <1>0, <2>1, <2>2, MovesServed, NothingFits DEF Steps
<1>3. CASE PunchRequested
  <2>1. /\ dial'.step = "await_punch" /\ dial'.attempt = 1 /\ dial'.skipped = 0
        /\ dial'.key = dial.key /\ owed' = 1 /\ (answers' = <<>> \/ answers' = <<Hello>>)
        /\ UNCHANGED <<net, config, outcome, lan>>
    BY <1>0, <1>3 DEF PunchRequested, DialFields
  <2>2. /\ AnswersFit(<<>>, dial'.step, 0) /\ AnswersFit(<<Hello>>, dial'.step, 0)
        /\ <<>> \in Seq(Records) /\ <<Hello>> \in Seq(Records)
    BY <1>0, HelloFits, NothingFits
  <2>3. answers' \in Seq(Records) /\ AnswersFit(answers', dial'.step, dial'.skipped)
    BY <2>1, <2>2
  <2> QED
    BY <1>0, <2>1, <2>3, MovesServed DEF Steps, AwaitingRecord
<1>4. CASE HbbsAnswers
  <2>1. /\ dial.step \in AwaitingRecord /\ owed > 0 /\ owed' = owed - 1
        /\ UNCHANGED <<net, config, now, dial, outcome, lan>>
    BY <1>4 DEF HbbsAnswers
  <2>2. PICK r \in PunchAnswers \cup RelayAnswers \cup AnyRecords :
          answers' = Append(answers, r) /\ (net.honest => r \in AnswersTo(dial.step))
    BY <1>4 DEF HbbsAnswers, AnswersTo
  <2>3. answers' \in Seq(Records)
    BY <1>0, <2>2, AnswersAreRecords
  <2>4. net.honest => AnswersFit(answers', dial'.step, dial'.skipped)
    BY <1>0, <2>1, <2>2, AppendFits
  <2>5. owed' \in 0..3
    BY <1>0, <2>1
  <2> QED
    BY <1>0, <2>1, <2>3, <2>4, <2>5, MovesServed DEF AwaitingRecord, HonestInv, ServedInv, PunchIsTrue,
       EndIsAsked
<1>5. CASE AskAgain /\ ~Ends("time")
  <2>1. /\ dial.step = "await_punch" /\ answers = <<>> /\ dial.attempt # 3
        /\ owed' = Least(owed + 1, 3)
        /\ dial' = [dial EXCEPT !.attempt = dial.attempt + 1, !.skipped = 0,
                                !.until = AttemptBudget(dial.attempt + 1)]
        /\ UNCHANGED <<net, config, now, answers, outcome, lan>>
    BY <1>5 DEF AskAgain
  <2>2. /\ dial'.step = "await_punch" /\ dial'.attempt = dial.attempt + 1 /\ dial'.skipped = 0
        /\ dial'.key = dial.key
    BY <1>0, <2>1 DEF DialFields
  <2>3. dial.attempt + 1 \in 0..3
    BY <1>0, <2>1
  <2>4. owed' \in 0..3
    <3>1. owed + 1 \in Nat
      BY <1>0
    <3>2. Least(owed + 1, 3) \in Nat /\ Least(owed + 1, 3) <= 3
      BY <3>1, LeastOfTwo
    <3> QED
      BY <2>1, <3>2
  <2> QED
    BY <1>0, <2>1, <2>2, <2>3, <2>4, MovesServed, NothingFits DEF Steps, AwaitingRecord
<1>6. CASE RelayRequested
  <2>1. /\ dial.step = "dial_again" /\ owed' = owed + 1
        /\ answers' = answers \o <<>> \/ answers' = answers \o <<Hello>>
        /\ dial'.step = "await_relay" /\ dial'.skipped = 0 /\ dial'.attempt = dial.attempt
        /\ dial'.key = dial.key /\ UNCHANGED <<net, config, now, outcome, lan>>
    BY <1>0, <1>6 DEF RelayRequested, DialFields
  <2>2. answers = <<>> /\ owed = 0
    BY <1>0, <2>1 DEF WireIsDropped, AwaitingRecord
  <2>3. answers' = <<>> \/ answers' = <<Hello>>
    BY <2>1, <2>2
  <2>4. /\ AnswersFit(<<>>, dial'.step, 0) /\ AnswersFit(<<Hello>>, dial'.step, 0)
        /\ <<>> \in Seq(Records) /\ <<Hello>> \in Seq(Records)
    BY <1>0, HelloFits, NothingFits
  <2>5. answers' \in Seq(Records) /\ AnswersFit(answers', dial'.step, dial'.skipped)
    BY <2>1, <2>3, <2>4
  <2>6. owed' \in 0..3
    BY <2>1, <2>2
  <2> QED
    BY <1>0, <2>1, <2>5, <2>6, MovesServed DEF Steps, AwaitingRecord
<1> QED
  BY <1>1, <1>2, <1>3, <1>4, <1>5, <1>6

(* The steps that read a record.                                           *)
LEMMA ReadingServed ==
    ASSUME RobustInv, SkipKeyExchange \/ PunchHoleResponse \/ RelayResponse \/ Unexpected
                      \/ RelayAcknowledged
    PROVE  ServedInv'
<1>0. /\ DialFields /\ ServedInv /\ KeyIsAsked
      /\ net \in Nets /\ answers \in Seq(Records) /\ owed \in 0..3
      /\ dial.step \in Steps /\ dial.attempt \in 0..3 /\ dial.skipped \in 0..1
      /\ dial.key \in Hosts \cup {NoKey}
  BY RobustFacts
<1> DEFINE r == Head(answers)
<1>1. CASE Ends("refused")
  BY <1>0, <1>1, EndsServed DEF Results
<1>2. answers # <<>> /\ dial.step \in AwaitingRecord
  BY DEF SkipKeyExchange, PunchHoleResponse, RelayResponse, Unexpected, RelayAcknowledged, Read,
     AwaitingRecord
<1>3. net.honest => \/ r \in AnswersTo(dial.step)
                    \/ r = Hello /\ dial.skipped = 0
  BY <1>0, <1>2, NextFits
<1>4. Hello.kind = "key_exchange"
  BY DEF Hello, Plain
<1>5. r \in Records
  BY <1>0, <1>2
<1> HIDE DEF r
<1>6. CASE SkipKeyExchange
  <2>1. /\ r.kind = "key_exchange"
        /\ IF dial.skipped = 1 THEN Ends("invalid")
           ELSE /\ dial' = [dial EXCEPT !.skipped = 1] /\ answers' = Tail(answers)
                /\ UNCHANGED <<net, config, now, owed, outcome, lan>>
    BY <1>6 DEF SkipKeyExchange, r
  <2>2. net.honest => r \notin AnswersTo(dial.step)
    BY <1>0, <2>1, PunchAnswersAre, RelayAnswersAre DEF AnswersTo
  <2>3. CASE dial.skipped = 1
    BY <1>0, <1>3, <2>1, <2>2, <2>3, EndsServed DEF Results
  <2>4. CASE dial.skipped # 1
    <3>1. /\ dial'.step = dial.step /\ dial'.attempt = dial.attempt /\ dial'.skipped = 1
          /\ dial'.key = dial.key
      BY <1>0, <2>1, <2>4 DEF DialFields
    <3>2. Tail(answers) \in Seq(Records)
      BY <1>0, <1>2
    <3>3. net.honest => AnswersFit(answers', dial'.step, dial'.skipped)
      BY <1>0, <1>2, <2>1, <2>4, <3>1, NextFits
    <3> QED
      BY <1>0, <1>2, <2>1, <2>4, <3>1, <3>2, <3>3, MovesServed DEF AwaitingRecord
  <2> QED
    BY <2>3, <2>4
<1>7. CASE PunchHoleResponse
  <2>1. dial.step = "await_punch" /\ r.kind = "punch"
    BY <1>7 DEF PunchHoleResponse, Read, r
  <2>2. net.honest => r \in PunchAnswers
    BY <1>3, <1>4, <2>1 DEF AnswersTo
  <2>3. net.honest /\ ~r.refused => /\ ~r.udp /\ Certifies(r.pk) /\ Decodable(r.addr)
                                    /\ Decode(r.addr) = net.addr
    BY <1>0, <2>1, <2>2, PunchAnswersAre
  <2>4. CASE r.refused
    BY <1>1, <1>7, <2>4 DEF PunchHoleResponse, r
  <2>5. CASE ~r.refused /\ (r.udp \/ ~Certifies(r.pk) \/ ~Decodable(r.addr))
    <3>1. Ends("invalid") /\ ~net.honest
      BY <1>7, <2>3, <2>5 DEF PunchHoleResponse, r
    <3> QED
      BY <1>0, <3>1, EndsServed DEF Results
  <2>6. CASE ~r.refused /\ ~(r.udp \/ ~Certifies(r.pk) \/ ~Decodable(r.addr))
    <3>1. /\ dial'.step = "punch" /\ dial'.key = r.pk.key /\ dial'.remote = Decode(r.addr)
          /\ dial'.attempt = dial.attempt /\ dial'.skipped = dial.skipped
          /\ answers' = <<>> /\ owed' = 0 /\ UNCHANGED <<net, config, now, outcome, lan>>
      BY <1>0, <1>7, <2>6 DEF PunchHoleResponse, Drops, DialFields, r
    <3>2. r.pk.key \in Hosts
      <4>1. r.pk \in KnownCertificates
        BY <1>5 DEF Records, KnownCertificates
      <4> QED
        BY <2>6, <4>1, CertifiedIsAsked DEF Hosts
    <3> QED
      BY <1>0, <2>3, <2>6, <3>1, <3>2, MovesServed, NothingFits DEF Steps
  <2> QED
    BY <2>4, <2>5, <2>6
<1>8. CASE RelayResponse
  <2>1. dial.step = "await_punch" /\ r.kind = "relay"
    BY <1>8 DEF RelayResponse, Read, r
  <2>2. net.honest => r \in PunchAnswers
    BY <1>3, <1>4, <2>1 DEF AnswersTo
  <2>3. net.honest => Certifies(r.pk) /\ r.relay /\ r.uuid = "theirs" /\ ~r.refused
    BY <1>0, <2>1, <2>2, PunchAnswersAre
  <2> DEFINE bad == ~Certifies(r.pk) \/ ~(config.override \/ r.relay) \/ r.uuid \in {"", "junk"}
  <2>4. CASE r.refused
    BY <1>1, <1>8, <2>4 DEF RelayResponse, r
  <2>5. CASE ~r.refused /\ bad
    <3>1. Ends("invalid") /\ ~net.honest
      BY <1>8, <2>3, <2>5 DEF RelayResponse, r
    <3> QED
      BY <1>0, <3>1, EndsServed DEF Results
  <2>6. CASE ~r.refused /\ ~bad
    <3>1. /\ dial'.step = "dial_hbbr" /\ dial'.key = r.pk.key
          /\ dial'.attempt = dial.attempt /\ dial'.skipped = dial.skipped
          /\ answers' = <<>> /\ owed' = 0 /\ UNCHANGED <<net, config, now, outcome, lan>>
      BY <1>0, <1>8, <2>6 DEF RelayResponse, Drops, DialFields, r
    <3>2. r.pk.key \in Hosts
      <4>1. r.pk \in KnownCertificates
        BY <1>5 DEF Records, KnownCertificates
      <4> QED
        BY <2>6, <4>1, CertifiedIsAsked DEF Hosts
    <3> QED
      BY <1>0, <3>1, <3>2, MovesServed, NothingFits DEF Steps
  <2> QED
    BY <2>4, <2>5, <2>6
<1>9. CASE Unexpected
  <2>1. /\ Ends("invalid")
        /\ \/ dial.step = "await_punch" /\ r.kind = "else"
           \/ dial.step = "await_relay" /\ r.kind \in {"else", "punch"}
    BY <1>9 DEF Unexpected, Read, r
  <2>2. ~net.honest
    BY <1>0, <1>3, <1>4, <2>1, PunchAnswersAre, RelayAnswersAre DEF AnswersTo
  <2> QED
    BY <1>0, <2>1, <2>2, EndsServed DEF Results
<1>10. CASE RelayAcknowledged
  <2>1. dial.step = "await_relay" /\ r.kind = "relay" /\ dial.key = Asked
    BY <1>0, <1>10 DEF RelayAcknowledged, Read, r, KeyIsAsked, Keyed
  <2>2. net.honest => r \in RelayAnswers
    BY <1>3, <1>4, <2>1 DEF AnswersTo
  <2>3. net.honest /\ ~r.refused => ~Contradicts(r)
    <3>1. Certifies(Genuine) /\ Genuine.key = Asked
      BY GenuineIs DEF Certifies
    <3> QED
      BY <2>1, <2>2, <3>1, RelayAnswersAre DEF Contradicts
  <2>4. CASE r.refused
    BY <1>1, <1>10, <2>4 DEF RelayAcknowledged, r
  <2>5. CASE ~r.refused /\ Contradicts(r)
    <3>1. Ends("invalid") /\ ~net.honest
      BY <1>10, <2>3, <2>5 DEF RelayAcknowledged, r
    <3> QED
      BY <1>0, <3>1, EndsServed DEF Results
  <2>6. CASE ~r.refused /\ ~Contradicts(r)
    <3>1. /\ dial'.step = "dial_hbbr" /\ dial'.key = dial.key
          /\ dial'.attempt = dial.attempt /\ dial'.skipped = dial.skipped
          /\ answers' = <<>> /\ owed' = 0 /\ UNCHANGED <<net, config, now, outcome, lan>>
      BY <1>0, <1>10, <2>6 DEF RelayAcknowledged, Drops, DialFields, r
    <3> QED
      BY <1>0, <3>1, MovesServed, NothingFits DEF Steps
  <2> QED
    BY <2>4, <2>5, <2>6
<1> QED
  BY <1>6, <1>7, <1>8, <1>9, <1>10

(* The steps that connect, prove and give up.                              *)
LEMMA ConnectingServed ==
    ASSUME RobustInv, HbbsCloses \/ PunchConnects \/ RelayJoined \/ PunchFails
                      \/ ServerUnreachable \/ KeyHandshake \/ DeadlinePasses
    PROVE  ServedInv'
<1>0. /\ DialFields /\ ServedInv /\ KeyIsAsked /\ WireIsDropped
      /\ net \in Nets /\ answers \in Seq(Records) /\ owed \in 0..3
      /\ dial.step \in Steps /\ dial.attempt \in 0..3 /\ dial.skipped \in 0..1
      /\ dial.key \in Hosts \cup {NoKey}
  BY RobustFacts
<1>1. CASE Ends("unreachable") \/ Ends("time")
  BY <1>0, <1>1, EndsServed DEF Results
<1>2. CASE HbbsCloses \/ ServerUnreachable \/ DeadlinePasses
  BY <1>1, <1>2 DEF HbbsCloses, ServerUnreachable, DeadlinePasses
<1>3. CASE PunchConnects \/ RelayJoined
  <2>0. PICK route : Connected(route)
    BY <1>3 DEF PunchConnects, RelayJoined
  <2>1. PICK h \in Reached :
          /\ dial' = [dial EXCEPT !.step = "handshake", !.end = h, !.route = route]
          /\ UNCHANGED <<net, config, now, answers, owed, outcome, lan>>
    BY <2>0 DEF Connected
  <2>2. /\ dial'.step = "handshake" /\ dial'.attempt = dial.attempt
        /\ dial'.skipped = dial.skipped /\ dial'.key = dial.key /\ dial'.end = h
    BY <1>0, <2>1 DEF DialFields
  <2>3. answers = <<>> /\ owed = 0
    BY <1>0, <1>3 DEF WireIsDropped, AwaitingRecord, PunchConnects, RelayJoined
  <2>4. net.honest => h = Asked
    BY <2>1 DEF Reached
  <2> QED
    BY <1>0, <2>1, <2>2, <2>3, <2>4, MovesServed, NothingFits DEF Steps
<1>4. CASE PunchFails /\ ~Ends("unreachable")
  <2>1. /\ dial.step = "punch" /\ dial'.step = "dial_again" /\ dial'.attempt = dial.attempt
        /\ dial'.skipped = dial.skipped /\ dial'.key = dial.key
        /\ UNCHANGED <<net, config, now, answers, owed, outcome, lan>>
    BY <1>0, <1>4 DEF PunchFails, DialFields
  <2>2. answers = <<>> /\ owed = 0
    BY <1>0, <2>1 DEF WireIsDropped, AwaitingRecord
  <2> QED
    BY <1>0, <2>1, <2>2, MovesServed, NothingFits DEF Steps
<1>5. CASE KeyHandshake
  <2>1. dial.step = "handshake" /\ dial.key = Asked /\ answers = <<>> /\ owed = 0
    BY <1>0, <1>5 DEF KeyHandshake, KeyIsAsked, Keyed, WireIsDropped, AwaitingRecord
  <2>2. PICK name \in {dial.end, Asked} :
          IF Proves(dial.end, name)
          THEN /\ dial' = Idle("done")
               /\ outcome' = [result |-> "ok", end |-> dial.end, route |-> dial.route]
               /\ UNCHANGED <<net, config, now, answers, owed, lan>>
          ELSE Ends("invalid")
    BY <1>5 DEF KeyHandshake
  <2>3. net.honest => Proves(dial.end, name)
    BY <1>0, <2>1, <2>2 DEF ServedInv, HonestInv, EndIsAsked, Proves
  <2>4. CASE ~Proves(dial.end, name)
    BY <1>0, <2>2, <2>3, <2>4, EndsServed DEF Results
  <2>5. CASE Proves(dial.end, name)
    <3>1. /\ dial' = Idle("done") /\ outcome'.result = "ok"
          /\ UNCHANGED <<net, config, now, answers, owed, lan>>
      BY <2>2, <2>5
    <3>2. dial'.step = "done" /\ dial'.attempt = 0 /\ dial'.skipped = 0 /\ dial'.key = NoKey
      BY <3>1 DEF Idle
    <3>3. DialTypes' /\ WireIsDropped'
      BY <1>0, <2>1, <3>1, <3>2 DEF ServedInv, DialTypes, Steps, Results, WireIsDropped
    <3>4. Len(answers') = 0
      BY <2>1, <3>1
    <3>5. HonestInv'
      BY <3>1, <3>2, <3>4 DEF HonestInv, AnswersFit, PunchIsTrue, EndIsAsked
    <3> QED
      BY <3>3, <3>5 DEF ServedInv
  <2> QED
    BY <2>4, <2>5
<1> QED
  BY <1>1, <1>2, <1>3, <1>4, <1>5

(* The clock and the LAN probe.                                            *)
LEMMA OthersServed ==
    ASSUME RobustInv, Tick \/ DiscoverPeer \/ (\E good \in BOOLEAN : Datagram(good)) \/ ProbeEnds
    PROVE  ServedInv'
<1>0. ServedInv
  BY RobustFacts
<1>1. UNCHANGED <<net, config, dial, answers, owed, outcome>>
  BY DEF Tick, DiscoverPeer, Datagram, ProbeEnds
<1>2. lan' \in Probes
  <2>1. lan \in Probes /\ MaxDatagrams \in Nat
    BY <1>0, RendezvousConstants DEF ServedInv, DialTypes
  <2>2. CASE Tick \/ DiscoverPeer \/ ProbeEnds
    BY <2>1, <2>2 DEF Tick, DiscoverPeer, ProbeEnds, Probes
  <2>3. ASSUME NEW good \in BOOLEAN, Datagram(good) PROVE lan' \in Probes
    <3>1. lan.seen < MaxDatagrams /\ lan.seen \in 0..MaxDatagrams /\ 0 \in 0..MaxDatagrams
      BY <2>1, <2>3 DEF Datagram, Probes
    <3>2. lan.seen + 1 \in 0..MaxDatagrams
      BY <2>1, <3>1
    <3> QED
      BY <2>1, <2>3, <3>1, <3>2 DEF Datagram, Probes
  <2> QED
    BY <2>2, <2>3
<1>3. DialTypes' /\ WireIsDropped'
  BY <1>0, <1>1, <1>2 DEF ServedInv, DialTypes, WireIsDropped
<1>4. PunchAnswers' = PunchAnswers /\ RelayAnswers' = RelayAnswers
  BY <1>1 DEF PunchAnswers, RelayAnswers
<1>5. HonestInv'
  BY <1>0, <1>1, <1>4 DEF ServedInv, HonestInv, AnswersFit, AnswersTo, PunchIsTrue, EndIsAsked
<1> QED
  BY <1>3, <1>5 DEF ServedInv

LEMMA RobustInitial == RendezvousInit => RobustInv
<1> SUFFICES ASSUME RendezvousInit PROVE RobustInv
  OBVIOUS
<1>1. /\ dial = Idle("start") /\ outcome = Pending /\ now = 0 /\ answers = <<>> /\ owed = 0
      /\ lan = [step |-> "idle", seen |-> 0] /\ MaxDatagrams \in Nat
  BY RendezvousConstants DEF RendezvousInit
<1>2. PICK h \in BOOLEAN, r \in BOOLEAN, a \in Addresses :
        net = [honest |-> h, relay |-> r, addr |-> a]
  BY DEF RendezvousInit
<1>3. PICK d \in Deadlines, name \in ServerNames, o \in BOOLEAN :
        config = [deadline |-> d, valid |-> endpoint(name), override |-> o]
  BY DEF RendezvousInit
<1>4. /\ dial.step = "start" /\ dial.attempt = 0 /\ dial.skipped = 0 /\ dial.key = NoKey
  BY <1>1 DEF Idle
<1>5. endpoint(name) \in BOOLEAN
  BY DEF endpoint
<1>6. lan \in Probes /\ net \in Nets /\ outcome.result = "pending" /\ answers \in Seq(Records)
  <2>1. 0 \in 0..MaxDatagrams
    BY <1>1
  <2>2. lan \in Probes
    BY <1>1, <2>1 DEF Probes
  <2>3. net \in Nets
    BY <1>2 DEF Nets
  <2>4. outcome.result = "pending"
    BY <1>1 DEF Pending
  <2>5. answers \in Seq(Records)
    BY <1>1
  <2> QED
    BY <2>2, <2>3, <2>4, <2>5
<1>7. DialTypes
  BY <1>1, <1>3, <1>4, <1>5, <1>6 DEF DialTypes, Steps, Results
<1>8. WireIsDropped /\ HonestInv
  BY <1>1, <1>4, <1>6, NothingFits DEF WireIsDropped, HonestInv, PunchIsTrue, EndIsAsked
<1>9. DialInv
  BY DialInitial
<1>10. RelayInv
  BY RelayInitial
<1> QED
  BY <1>7, <1>8, <1>9, <1>10 DEF RobustInv, ServedInv

LEMMA RobustStep == RobustInv /\ [RendezvousNext]_dialVars => RobustInv'
<1>1. ASSUME RobustInv, RendezvousNext PROVE RobustInv'
  <2>1. DialInv' /\ RelayInv'
    BY <1>1, DialSteps, RelaySteps DEF RobustInv
  <2>2. ServedInv'
    BY <1>1, SendingServed, ReadingServed, ConnectingServed, OthersServed DEF RendezvousNext
  <2> QED
    BY <2>1, <2>2 DEF RobustInv
<1>2. ASSUME RobustInv, UNCHANGED dialVars PROVE RobustInv'
  <2>1. UNCHANGED <<net, config, now, dial, answers, owed, outcome, lan>>
    BY <1>2 DEF dialVars
  <2>2. DialInv'
    BY <1>2, <2>1 DEF RobustInv, DialInv, DialFields, KeyIsAsked, EstablishedIsAsked
  <2>3. RelayInv'
    BY <1>2, <2>1 DEF RobustInv, RelayInv, DialFields, DialTimes, RelayKeepsHalf
  <2>4. PunchAnswers' = PunchAnswers /\ RelayAnswers' = RelayAnswers
    BY <2>1 DEF PunchAnswers, RelayAnswers
  <2>5. ServedInv'
    BY <1>2, <2>1, <2>4 DEF RobustInv, ServedInv, DialTypes, WireIsDropped, HonestInv, AnswersFit,
       AnswersTo, PunchIsTrue, EndIsAsked
  <2> QED
    BY <2>2, <2>3, <2>5 DEF RobustInv
<1> QED
  BY <1>1, <1>2

LEMMA RobustInvImplies == RobustInv => DialTypeOK /\ HonestIsUnderstood /\ RelayKeepsHalf
<1> SUFFICES ASSUME RobustInv PROVE DialTypeOK /\ HonestIsUnderstood /\ RelayKeepsHalf
  OBVIOUS
<1>1. RelayKeepsHalf /\ DialTimes
  BY DEF RobustInv, RelayInv
<1>2. DialTypes /\ HonestInv
  BY DEF RobustInv, ServedInv
<1>3. DialTypeOK
  BY <1>1, <1>2 DEF DialTypeOK, DialTypes, DialTimes, Results, Probes
<1>4. HonestIsUnderstood
  BY <1>2 DEF HonestIsUnderstood, HonestInv, PunchIsTrue
<1> QED
  BY <1>1, <1>3, <1>4

(* What a dial reads is the right thing read rightly: against honest       *)
(* servers it never fails for what it read (a late answer to an earlier    *)
(* request, a hello, an acknowledgement without uuid or key, any address   *)
(* under any clock reading), the hole is punched where the peer is, and a  *)
(* silent peer leaves a known relay half of the time (rendezvous.rs,       *)
(* connect_viewer and peer_address; lib.rs, AddrMangle): for every number  *)
(* of ports, every mask and every set of addresses, stamps and deadlines.  *)
THEOREM RobustTheorem == Spec => []DialIsRobust
<1>1. Init => RobustInv
  BY RobustInitial DEF Init
<1>2. ASSUME RobustInv, [Next]_<<part, dialVars, secureVars, vncVars>>
      PROVE  RobustInv'
  <2>1. [RendezvousNext]_dialVars
    BY <1>2 DEF Next
  <2> QED
    BY <1>2, <2>1, RobustStep
<1>3. RobustInv => DialIsRobust
  BY RobustInvImplies DEF DialIsRobust
<1> QED
  BY <1>1, <1>2, <1>3, PTL DEF Spec

-----------------------------------------------------------------------------
(* A VNC session.                                                          *)

Pixels == 1..(MaxChanges + 1)
VncServers == [minor : {3, 7, 8}, offers : SUBSET VncSecurities, right : BOOLEAN,
               screen : [Cells -> Pixels], sent : [Cells -> 0..(MaxChanges + 1)],
               request : {"none", "full"}, aside : Asides \cup {"none"}]
VncClients == [step : Opening \cup {"live", "failed"}, secret : BOOLEAN,
               security : VncSecurities \cup {"unknown"}]
VncShared == [picture : {NoPicture} \cup [Cells -> Pixels], ready : BOOLEAN,
              closed : BOOLEAN, failure : BOOLEAN]

(* A message carries the whole screen or no picture.                       *)
VncMessages == [kind : Asides \cup {"banner", "types", "challenge", "ok", "init", "failed"},
                cells : {<<>>}]
                 \cup [kind : {"update"}, cells : [Cells -> Pixels]]

VncTypes ==
    /\ server \in VncServers /\ client \in VncClients /\ shared \in VncShared
    /\ wire \in Seq(VncMessages)
    /\ socket \in {"open", "shut", "broken"}
    /\ reader \in {"none", "reading", "erred", "done"}

(* Until the handshake has ended nothing else has begun.                   *)
BeforeLive ==
    client.step # "live" =>
        /\ reader = "none" /\ server.request = "none" /\ socket = "open"
        /\ ~shared.closed /\ ~shared.ready

(* The type that was agreed is one the server offers and no weaker than    *)
(* asked for, and behind a challenge only the right answer leads on.       *)
Agreed ==
    client.step \in {"challenge", "result", "init", "live"} =>
        /\ client.security \in server.offers
        /\ (client.secret /\ server.minor >= 7) => client.security = "vnc"
AnsweredRight ==
    client.security = "vnc" =>
        /\ client.step \in {"init", "live"} => server.right
        /\ client.step = "result" /\ wire # <<>> /\ Head(wire).kind = "ok" => server.right
ChallengedOnly ==
    /\ client.step = "challenge" => client.security = "vnc"
    /\ client.step = "result" => wire # <<>>

(* An error of the reader has a cause, and only a close shuts the socket.  *)
ErrorHasCause ==
    /\ reader = "erred" => socket # "open" \/ server.aside = "unsupported"
    /\ socket = "shut" => shared.closed
    /\ \A i \in 1..Len(wire) :
          wire[i].kind = "unsupported" => server.aside = "unsupported"

VncInv == /\ VncTypes /\ BeforeLive /\ Agreed /\ AnsweredRight /\ ChallengedOnly
          /\ ErrorHasCause /\ ClosingIsNoFailure

LEMMA MessageTaken ==
    ASSUME NEW s \in Seq(VncMessages), s # <<>>
    PROVE  /\ Head(s) \in VncMessages /\ Tail(s) \in Seq(VncMessages)
           /\ Len(s) \in Nat \ {0} /\ Head(s) = s[1]
           /\ \A i \in 1..Len(Tail(s)) : \E j \in 1..Len(s) : Tail(s)[i] = s[j]
<1>1. /\ Head(s) \in VncMessages /\ Tail(s) \in Seq(VncMessages)
      /\ Len(s) \in Nat \ {0} /\ Head(s) = s[1]
      /\ Len(Tail(s)) = Len(s) - 1
      /\ \A i \in 1..Len(Tail(s)) : Tail(s)[i] = s[i + 1]
  OBVIOUS
<1>2. ASSUME NEW i \in 1..Len(Tail(s)) PROVE \E j \in 1..Len(s) : Tail(s)[i] = s[j]
  BY <1>1
<1> QED
  BY <1>1, <1>2

(* What the server puts on the wire during the handshake.                  *)
LEMMA PlainMessages ==
    /\ <<>> \in Seq(VncMessages)
    /\ \A k \in Asides \cup {"banner", "types", "challenge", "ok", "init", "failed"} :
          /\ Msg(k) \in VncMessages /\ Msg(k).kind = k
          /\ <<Msg(k)>> \in Seq(VncMessages)
          /\ <<Msg(k), Msg("init")>> \in Seq(VncMessages)
  BY DEF Msg, VncMessages

LEMMA VncInitial == VncInit => VncInv
<1> SUFFICES ASSUME VncInit PROVE VncInv
  OBVIOUS
<1>1. /\ [c \in Cells |-> 1] \in [Cells -> Pixels]
      /\ Blank \in [Cells -> 0..(MaxChanges + 1)]
  BY VncConstants DEF Blank, Pixels
<1>2. server \in VncServers /\ server.request = "none"
  BY <1>1 DEF VncInit, VncServers
<1>3. client \in VncClients /\ client.step = "banner" /\ client.security = "unknown"
  BY DEF VncInit, VncClients, Opening
<1>4. shared \in VncShared /\ ~shared.closed /\ ~shared.ready /\ ~shared.failure
  BY DEF VncInit, VncShared
<1>5. wire \in Seq(VncMessages) /\ wire = <<Msg("banner")>> /\ socket = "open" /\ reader = "none"
  BY PlainMessages DEF VncInit
<1>6. VncTypes /\ BeforeLive /\ Agreed /\ AnsweredRight /\ ChallengedOnly /\ ClosingIsNoFailure
  BY <1>2, <1>3, <1>4, <1>5
     DEF VncTypes, BeforeLive, Agreed, AnsweredRight, ChallengedOnly, ClosingIsNoFailure
<1>7. ErrorHasCause
  BY <1>5, PlainMessages DEF ErrorHasCause
<1> QED
  BY <1>6, <1>7 DEF VncInv

(* A step of the handshake: only the client's record and the wire move,    *)
(* and nothing on the wire is a rectangle.                                 *)
LEMMA HandshakeKeeps ==
    ASSUME VncInv, NEW c \in VncClients, NEW w \in Seq(VncMessages), Handshake(c, w),
           client.step # "live", c.step # "live",
           \A i \in 1..Len(w) :
             w[i].kind = "unsupported" => server.aside = "unsupported",
           c.step \in {"challenge", "result", "init"} =>
             /\ c.security \in server.offers
             /\ (c.secret /\ server.minor >= 7) => c.security = "vnc",
           c.security = "vnc" =>
             /\ c.step = "init" => server.right
             /\ c.step = "result" /\ w # <<>> /\ Head(w).kind = "ok" => server.right,
           c.step = "challenge" => c.security = "vnc", c.step = "result" => w # <<>>
    PROVE  VncInv'
<1>1. /\ client' = c /\ wire' = w /\ server' = server /\ socket' = socket
      /\ reader' = reader /\ shared' = shared
  BY DEF Handshake
<1>2. VncTypes'
  BY <1>1 DEF VncInv, VncTypes
<1>3. BeforeLive'
  BY <1>1 DEF VncInv, BeforeLive
<1>4. Agreed' /\ AnsweredRight' /\ ChallengedOnly'
  BY <1>1 DEF Agreed, AnsweredRight, ChallengedOnly
<1>5. ErrorHasCause'
  BY <1>1 DEF VncInv, ErrorHasCause
<1>6. ClosingIsNoFailure'
  BY <1>1 DEF VncInv, ClosingIsNoFailure
<1> QED
  BY <1>2, <1>3, <1>4, <1>5, <1>6 DEF VncInv

LEMMA HandshakeFails ==
    ASSUME VncInv, Handshake(Fails(client), <<>>), client.step # "live"
    PROVE  VncInv'
<1>1. client \in VncClients
  BY DEF VncInv, VncTypes
<1>2. Fails(client) \in VncClients /\ Fails(client).step = "failed"
      /\ Fails(client).security = client.security
  BY <1>1 DEF Fails, VncClients
<1>3. <<>> \in Seq(VncMessages) /\ \A i \in 1..Len(<<>>) : FALSE
  OBVIOUS
<1> QED
  BY <1>2, <1>3, HandshakeKeeps

LEMMA OpeningStep ==
    ASSUME VncInv, VersionAnswered \/ NegotiateSecurity \/ AnswerChallenge
                     \/ ReadSecurityResult \/ HandshakeBreaks
    PROVE  VncInv'
<1>1. /\ server \in VncServers /\ client \in VncClients /\ wire \in Seq(VncMessages)
  BY DEF VncInv, VncTypes
<1>0. /\ server.right \in BOOLEAN /\ server.minor \in {3, 7, 8} /\ client.secret \in BOOLEAN
      /\ server.offers \subseteq VncSecurities
      /\ client.security \in VncSecurities \cup {"unknown"}
      /\ client.step \in Opening \cup {"live", "failed"}
  BY <1>1 DEF VncServers, VncClients
<1>2. ASSUME NEW k \in Asides \cup {"banner", "types", "challenge", "ok", "init", "failed"},
             k # "unsupported"
      PROVE  /\ \A i \in 1..Len(<<Msg(k)>>) : <<Msg(k)>>[i].kind # "unsupported"
             /\ \A i \in 1..Len(<<Msg(k), Msg("init")>>) :
                   <<Msg(k), Msg("init")>>[i].kind # "unsupported"
             /\ Head(<<Msg(k)>>).kind = k /\ Head(<<Msg(k), Msg("init")>>).kind = k
  BY <1>2, PlainMessages DEF Msg
<1>3. CASE VersionAnswered
  <2> DEFINE c == [client EXCEPT !.step = "security"]
             w == <<Msg("types")>>
  <2>1. c \in VncClients /\ c.step = "security"
    BY <1>1 DEF Opening, VncClients
  <2>2. Handshake(c, w) /\ client.step # "live"
    BY <1>3 DEF VersionAnswered
  <2>3. w \in Seq(VncMessages)
    BY PlainMessages
  <2>4. \A i \in 1..Len(w) : w[i].kind # "unsupported"
    BY <1>2
  <2> HIDE DEF c, w
  <2> QED
    BY <2>1, <2>2, <2>3, <2>4, HandshakeKeeps
<1>4. CASE NegotiateSecurity
  <2> DEFINE chosen == IF server.minor < 7 THEN CHOOSE t \in server.offers : TRUE
                       ELSE Choose(server.offers, client.secret)
             next == IF chosen = "vnc" THEN "challenge"
                     ELSE IF server.minor < 7 THEN "init" ELSE "result"
             c == [client EXCEPT !.step = next, !.security = chosen]
             w == AfterChoice(chosen)
  <2>1. CASE chosen \in {"unknown", "other"} \/ server.offers = {}
    <3>1. Handshake(Fails(client), <<>>) /\ client.step # "live"
      BY <1>4, <2>1 DEF NegotiateSecurity
    <3> QED
      BY <3>1, HandshakeFails
  <2>2. CASE ~(chosen \in {"unknown", "other"} \/ server.offers = {})
    <3>1. Handshake(c, w) /\ client.step # "live"
      BY <1>4, <2>2 DEF NegotiateSecurity
    <3>2. chosen \in server.offers /\ chosen \in {"none", "vnc"}
      BY <1>0, <2>2 DEF Choose, VncSecurities
    <3>3. (client.secret /\ server.minor >= 7) => chosen = "vnc"
      BY <1>0, <2>2 DEF Choose
    <3>4. w \in Seq(VncMessages) /\ w # <<>> /\ \A i \in 1..Len(w) : w[i].kind # "unsupported"
      BY <3>2, <1>2, PlainMessages DEF AfterChoice
    <3> HIDE DEF w, chosen
    <3>5. /\ c \in VncClients /\ c.step = next /\ c.security = chosen /\ c.secret = client.secret
          /\ c.step \in {"challenge", "init", "result"}
          /\ chosen = "vnc" => c.step = "challenge"
          /\ c.step = "challenge" => chosen = "vnc"
      BY <1>1, <3>2 DEF Opening, VncSecurities, VncClients
    <3> HIDE DEF c, next
    <3> QED
      BY <3>1, <3>2, <3>3, <3>4, <3>5, HandshakeKeeps
  <2> QED
    BY <2>1, <2>2
<1>5. CASE AnswerChallenge
  <2> DEFINE c == [client EXCEPT !.step = "result"]
             w == IF server.right /\ client.secret THEN <<Msg("ok"), Msg("init")>>
                                                   ELSE <<Msg("failed")>>
  <2>1. c \in VncClients /\ c.step = "result" /\ c.security = client.security
        /\ c.secret = client.secret
    BY <1>1 DEF Opening, VncClients
  <2>2. Handshake(c, w) /\ client.step = "challenge"
    BY <1>5 DEF AnswerChallenge
  <2>3. /\ w \in Seq(VncMessages) /\ \A i \in 1..Len(w) : w[i].kind # "unsupported"
        /\ w # <<>> /\ (Head(w).kind = "ok" => server.right)
    BY <1>2, PlainMessages
  <2>4. /\ client.security \in server.offers
        /\ (client.secret /\ server.minor >= 7) => client.security = "vnc"
    BY <2>2 DEF VncInv, Agreed
  <2> HIDE DEF c, w
  <2> QED
    BY <2>1, <2>2, <2>3, <2>4, HandshakeKeeps
<1>6. CASE ReadSecurityResult
  <2>0. wire # <<>> /\ client.step = "result"
    BY <1>6 DEF ReadSecurityResult, VncInv, ChallengedOnly
  <2>1. CASE Head(wire).kind = "ok"
    <3> DEFINE c == [client EXCEPT !.step = "init"]
    <3>1. c \in VncClients /\ c.step = "init" /\ c.security = client.security
          /\ c.secret = client.secret
      BY <1>1 DEF Opening, VncClients
    <3>2. Handshake(c, Tail(wire)) /\ client.step = "result"
      BY <1>6, <2>1 DEF ReadSecurityResult
    <3>3. /\ client.security \in server.offers
          /\ (client.secret /\ server.minor >= 7) => client.security = "vnc"
          /\ client.security = "vnc" => server.right
      BY <2>0, <2>1 DEF VncInv, Agreed, AnsweredRight
    <3>4. /\ Tail(wire) \in Seq(VncMessages)
          /\ \A i \in 1..Len(Tail(wire)) :
                Tail(wire)[i].kind = "unsupported" => server.aside = "unsupported"
      <4> HIDE DEF c
      <4>1. Tail(wire) \in Seq(VncMessages)
            /\ \A i \in 1..Len(Tail(wire)) :
                 \E j \in 1..Len(wire) : Tail(wire)[i] = wire[j]
        BY <1>1, <2>0, MessageTaken
      <4>2. \A j \in 1..Len(wire) :
               wire[j].kind = "unsupported" => server.aside = "unsupported"
        BY DEF VncInv, ErrorHasCause
      <4> QED
        BY <4>1, <4>2
    <3> HIDE DEF c
    <3> QED
      BY <3>1, <3>2, <3>3, <3>4, HandshakeKeeps
  <2>2. CASE Head(wire).kind # "ok"
    <3>1. Handshake(Fails(client), <<>>)
      BY <1>6, <2>2 DEF ReadSecurityResult
    <3> QED
      BY <2>0, <3>1, HandshakeFails
  <2> QED
    BY <2>1, <2>2
<1>7. CASE HandshakeBreaks
  <2>1. Handshake(Fails(client), <<>>) /\ client.step # "live"
    BY <1>7 DEF HandshakeBreaks, Opening
  <2> QED
    BY <2>1, HandshakeFails
<1> QED
  BY <1>3, <1>4, <1>5, <1>6, <1>7

-----------------------------------------------------------------------------
(* The live session.                                                       *)

(* The conjuncts that look at the handshake alone.                         *)
LEMMA HandshakeIsOver ==
    ASSUME VncInv, client.step = "live", UNCHANGED client,
           server' \in VncServers, server'.offers = server.offers,
           server'.minor = server.minor, server'.right = server.right
    PROVE  BeforeLive' /\ Agreed' /\ AnsweredRight' /\ ChallengedOnly'
<1>1. Agreed /\ AnsweredRight
  BY DEF VncInv
<1> QED
  BY <1>1 DEF BeforeLive, Agreed, AnsweredRight, ChallengedOnly

LEMMA InitialiseStep == ASSUME VncInv, Initialise PROVE VncInv'
<1> DEFINE s == [server EXCEPT !.request = "full"]
           c == [client EXCEPT !.step = "live"]
<1>1. VncTypes /\ BeforeLive /\ Agreed /\ AnsweredRight /\ ErrorHasCause /\ ClosingIsNoFailure
  BY DEF VncInv
<1>2. /\ server' = s /\ client' = c /\ client.step = "init" /\ reader' = "reading"
      /\ wire' = <<>> /\ socket' = socket /\ shared' = shared
  BY DEF Initialise
<1>3. /\ s \in VncServers /\ s.offers = server.offers /\ s.minor = server.minor
      /\ s.right = server.right /\ s.aside = server.aside
  BY <1>1 DEF VncTypes, VncServers
<1>4. /\ c \in VncClients /\ c.step = "live" /\ c.secret = client.secret
      /\ c.security = client.security
  BY <1>1 DEF VncTypes, VncClients
<1> HIDE DEF s, c
<1>5. VncTypes' /\ BeforeLive' /\ ChallengedOnly'
  BY <1>1, <1>2, <1>3, <1>4 DEF VncTypes, BeforeLive, ChallengedOnly
<1>6. Agreed' /\ AnsweredRight'
  BY <1>1, <1>2, <1>3, <1>4 DEF Agreed, AnsweredRight
<1>7. ErrorHasCause' /\ ClosingIsNoFailure'
  BY <1>1, <1>2, <1>3, <1>4 DEF ErrorHasCause, ClosingIsNoFailure
<1> QED
  BY <1>5, <1>6, <1>7 DEF VncInv

LEMMA ScreenStep ==
    ASSUME VncInv, ScreenChanges \/ RefreshVideo PROVE VncInv'
<1>1. VncTypes /\ ErrorHasCause /\ ClosingIsNoFailure /\ server \in VncServers
  BY DEF VncInv, VncTypes
<1>2. /\ client.step = "live" /\ client' = client /\ reader' = reader /\ wire' = wire
      /\ socket' = socket /\ shared' = shared
  BY DEF ScreenChanges, RefreshVideo
<1>3. /\ server' \in VncServers /\ server'.offers = server.offers
      /\ server'.minor = server.minor /\ server'.right = server.right
      /\ server'.aside = server.aside
  <2>1. CASE RefreshVideo
    BY <1>1, <2>1 DEF RefreshVideo, RefreshRequest, VncServers
  <2>2. CASE ScreenChanges
    <3>1. PICK c \in Cells : /\ server.screen[c] <= MaxChanges
                             /\ server' = [server EXCEPT !.screen[c] = @ + 1]
      BY <2>2 DEF ScreenChanges
    <3> DEFINE screen == [server.screen EXCEPT ![c] = @ + 1]
    <3>2. server.screen \in [Cells -> Pixels]
      BY <1>1 DEF VncServers
    <3>3. screen \in [Cells -> Pixels]
      BY <3>1, <3>2, VncConstants DEF Pixels
    <3>4. server' = [server EXCEPT !.screen = screen]
      BY <1>1, <3>1 DEF VncServers
    <3> HIDE DEF screen
    <3> QED
      BY <1>1, <3>3, <3>4 DEF VncServers
  <2> QED
    BY <2>1, <2>2
<1>4. VncTypes'
  BY <1>1, <1>2, <1>3 DEF VncTypes
<1>5. ErrorHasCause' /\ ClosingIsNoFailure'
  BY <1>1, <1>2, <1>3 DEF ErrorHasCause, ClosingIsNoFailure
<1> QED
  BY <1>2, <1>3, <1>4, <1>5, HandshakeIsOver DEF VncInv

LEMMA ServerSendsStep ==
    ASSUME VncInv, ServerUpdates \/ ServerAside PROVE VncInv'
<1>1. VncTypes /\ BeforeLive /\ ErrorHasCause /\ ClosingIsNoFailure
      /\ server \in VncServers /\ wire \in Seq(VncMessages)
  BY DEF VncInv, VncTypes
<1>2. /\ client.step = "live" /\ client' = client /\ reader' = reader
      /\ socket' = socket /\ shared' = shared
  BY <1>1 DEF BeforeLive, ServerUpdates, ServerAside
<1>3. /\ server' \in VncServers /\ server'.offers = server.offers
      /\ server'.minor = server.minor /\ server'.right = server.right
      /\ server.aside = "unsupported" => server'.aside = "unsupported"
      /\ \E m \in VncMessages : /\ wire' = Append(wire, m)
                                /\ m.kind = "unsupported" => server'.aside = "unsupported"
  <2>1. CASE ServerUpdates
    <3> DEFINE m == [kind |-> "update", cells |-> [c \in Cells |-> server.screen[c]]]
    <3>1. server.request = "full"
      BY <1>1, <2>1 DEF ServerUpdates, VncServers
    <3>2. /\ wire' = Append(wire, m)
          /\ server' = [server EXCEPT !.request = "none", !.sent = server.screen]
      BY <2>1, <3>1 DEF ServerUpdates
    <3>3. server.screen \in [Cells -> Pixels]
      BY <1>1 DEF VncServers
    <3>4. m \in VncMessages /\ m.kind = "update"
      BY <3>3 DEF VncMessages
    <3>5. server.screen \in [Cells -> 0..(MaxChanges + 1)]
      BY <3>3, VncConstants DEF Pixels
    <3>6. /\ server' \in VncServers /\ server'.offers = server.offers
          /\ server'.minor = server.minor /\ server'.right = server.right
          /\ server'.aside = server.aside
      BY <1>1, <3>2, <3>5 DEF VncServers
    <3> HIDE DEF m
    <3> QED
      BY <3>2, <3>4, <3>6
  <2>2. CASE ServerAside
    <3>1. PICK k \in Asides : wire' = Append(wire, Msg(k)) /\ server' = [server EXCEPT !.aside = k]
      BY <2>2 DEF ServerAside
    <3>2. Msg(k) \in VncMessages /\ Msg(k).kind = k /\ server.aside = "none"
      BY <2>2, PlainMessages DEF ServerAside
    <3>3. /\ server' \in VncServers /\ server'.offers = server.offers
          /\ server'.minor = server.minor /\ server'.right = server.right
          /\ server'.aside = k
      BY <1>1, <3>1 DEF VncServers
    <3> QED
      BY <3>1, <3>2, <3>3
  <2> QED
    BY <2>1, <2>2
<1>4. PICK m \in VncMessages : /\ wire' = Append(wire, m)
                               /\ m.kind = "unsupported" => server'.aside = "unsupported"
  BY <1>3
<1>5. /\ wire' \in Seq(VncMessages)
      /\ \A i \in 1..Len(wire') : wire'[i] = m \/ \E j \in 1..Len(wire) : wire'[i] = wire[j]
  <2> DEFINE w == Append(wire, m)
  <2>1. /\ w \in Seq(VncMessages)
        /\ \A i \in 1..Len(w) : w[i] = m \/ \E j \in 1..Len(wire) : w[i] = wire[j]
    <3>1. /\ w \in Seq(VncMessages) /\ Len(w) = Len(wire) + 1 /\ Len(wire) \in Nat
          /\ w[Len(wire) + 1] = m /\ \A j \in 1..Len(wire) : w[j] = wire[j]
      BY <1>1
    <3> HIDE DEF w
    <3> QED
      BY <3>1
  <2>2. wire' = w
    BY <1>4
  <2> HIDE DEF w
  <2> QED
    BY <2>1, <2>2
<1>6. VncTypes'
  BY <1>1, <1>2, <1>3, <1>5 DEF VncTypes
<1>7. \A j \in 1..Len(wire) : wire[j].kind = "unsupported" => server.aside = "unsupported"
  BY <1>1 DEF ErrorHasCause
<1>8. \A i \in 1..Len(wire') : wire'[i].kind = "unsupported" => server'.aside = "unsupported"
  BY <1>3, <1>4, <1>5, <1>7
<1>9. ErrorHasCause' /\ ClosingIsNoFailure'
  BY <1>1, <1>2, <1>3, <1>8 DEF ErrorHasCause, ClosingIsNoFailure
<1> QED
  BY <1>2, <1>3, <1>6, <1>9, HandshakeIsOver DEF VncInv

(* The reader takes a message off the wire.                                *)
LEMMA ReaderTakesStep ==
    ASSUME VncInv, ReaderPublishes \/ ReaderPasses PROVE VncInv'
<1>1. VncTypes /\ BeforeLive /\ ErrorHasCause /\ ClosingIsNoFailure
      /\ wire \in Seq(VncMessages) /\ server \in VncServers /\ shared \in VncShared
  BY DEF VncInv, VncTypes
<1>2. /\ wire # <<>> /\ wire' = Tail(wire) /\ reader = "reading" /\ reader' = reader
      /\ server' = server /\ client' = client /\ socket' = socket
  BY DEF ReaderPublishes, ReaderPasses, ReadMessage
<1>3. client.step = "live"
  BY <1>1, <1>2 DEF BeforeLive
<1>4. /\ wire' \in Seq(VncMessages) /\ Head(wire) \in VncMessages
      /\ \A i \in 1..Len(wire') : \E j \in 1..Len(wire) : wire'[i] = wire[j]
  BY <1>1, <1>2, MessageTaken
<1>5. shared' \in VncShared /\ shared'.closed = shared.closed /\ shared'.failure = shared.failure
  <2>1. CASE ReaderPasses
    BY <1>1, <2>1 DEF ReaderPasses
  <2>2. CASE ReaderPublishes
    <3> DEFINE p == Paints(working, Head(wire).cells)
    <3>1. Head(wire).kind = "update"
      BY <2>2 DEF ReaderPublishes, ReadMessage
    <3>2. Head(wire).cells \in [Cells -> Pixels]
      BY <1>4, <3>1 DEF VncMessages, Asides
    <3>3. p \in [Cells -> Pixels]
      BY <3>2 DEF Paints
    <3>4. shared' = [shared EXCEPT !.picture = p, !.ready = TRUE]
      BY <2>2 DEF ReaderPublishes
    <3> HIDE DEF p
    <3> QED
      BY <1>1, <3>3, <3>4 DEF VncShared
  <2> QED
    BY <2>1, <2>2
<1>6. VncTypes'
  BY <1>1, <1>2, <1>4, <1>5 DEF VncTypes
<1>7. \A j \in 1..Len(wire) : wire[j].kind = "unsupported" => server.aside = "unsupported"
  BY <1>1 DEF ErrorHasCause
<1>8. \A i \in 1..Len(wire') : wire'[i].kind = "unsupported" => server'.aside = "unsupported"
  BY <1>2, <1>4, <1>7
<1>9. ErrorHasCause' /\ ClosingIsNoFailure'
  BY <1>1, <1>2, <1>5, <1>8 DEF ErrorHasCause, ClosingIsNoFailure
<1> QED
  BY <1>1, <1>2, <1>3, <1>6, <1>9, HandshakeIsOver DEF VncInv

(* The reader ends, the frontend takes a picture or closes.                *)
LEMMA EndingStep ==
    ASSUME VncInv, NetworkBreaks \/ ReadFails \/ ReaderEnds \/ ReaderSeesClose
                     \/ TakeFrame \/ CloseBegins \/ CloseShuts
    PROVE  VncInv'
<1>1. VncTypes /\ BeforeLive /\ Agreed /\ AnsweredRight /\ ChallengedOnly
      /\ ErrorHasCause /\ ClosingIsNoFailure
      /\ wire \in Seq(VncMessages) /\ server \in VncServers /\ shared \in VncShared
  BY DEF VncInv, VncTypes
<1>2. wire' = wire /\ server' = server /\ client' = client
  BY DEF NetworkBreaks, ReadFails, ReaderEnds, ReaderSeesClose, TakeFrame, CloseBegins, CloseShuts
<1>3. client.step = "live"
  BY <1>1 DEF BeforeLive, NetworkBreaks, ReadFails, ReaderEnds, ReaderSeesClose, TakeFrame,
              CloseBegins, CloseShuts
<1>4. shared' \in VncShared /\ (shared.closed => shared'.closed)
      /\ (reader # "erred" => shared'.failure = shared.failure)
      /\ (~ReaderEnds => shared'.failure = shared.failure)
  BY <1>1 DEF VncShared, NetworkBreaks, ReadFails, ReaderEnds, ReaderSeesClose, TakeFrame,
              CloseBegins, CloseShuts, FailureUnlessClosed
<1>5. /\ socket' \in {"open", "shut", "broken"}
      /\ reader' \in {"none", "reading", "erred", "done"}
  BY <1>1 DEF VncTypes, NetworkBreaks, ReadFails, ReaderEnds, ReaderSeesClose, TakeFrame,
              CloseBegins, CloseShuts
<1>6. VncTypes'
  BY <1>1, <1>2, <1>4, <1>5 DEF VncTypes
<1>7. reader = "reading" /\ ReadMessage({"unsupported"}) => server.aside = "unsupported"
  BY <1>1, MessageTaken DEF ReadMessage, ErrorHasCause
<1>8. /\ reader' = "erred" => socket' # "open" \/ server'.aside = "unsupported"
      /\ socket' = "shut" => shared'.closed
      /\ shared'.failure => socket' = "broken" \/ server'.aside = "unsupported"
  <2>1. CASE NetworkBreaks
    BY <1>1, <1>2, <1>4, <2>1 DEF NetworkBreaks, ErrorHasCause, ClosingIsNoFailure
  <2>2. CASE ReadFails
    BY <1>1, <1>2, <1>4, <1>7, <2>2 DEF ReadFails, ErrorHasCause, ClosingIsNoFailure
  <2>3. CASE ReaderEnds
    <3>1. /\ reader = "erred" /\ reader' = "done" /\ socket' = socket
          /\ shared'.failure = FailureUnlessClosed(shared) /\ shared'.closed = TRUE
      BY <1>1, <2>3 DEF ReaderEnds, VncShared
    <3>2. ~shared.closed => socket # "shut"
      BY <1>1 DEF ErrorHasCause
    <3> QED
      BY <1>1, <1>2, <3>1, <3>2 DEF ErrorHasCause, VncTypes, FailureUnlessClosed
  <2>4. CASE ReaderSeesClose \/ TakeFrame
    BY <1>1, <1>2, <1>4, <2>4
       DEF ReaderSeesClose, TakeFrame, ErrorHasCause, ClosingIsNoFailure, VncShared
  <2>5. CASE CloseBegins \/ CloseShuts
    BY <1>1, <1>2, <1>4, <2>5
       DEF CloseBegins, CloseShuts, ErrorHasCause, ClosingIsNoFailure, VncShared
  <2> QED
    BY <2>1, <2>2, <2>3, <2>4, <2>5
<1>9. ErrorHasCause' /\ ClosingIsNoFailure'
  BY <1>1, <1>2, <1>8 DEF ErrorHasCause, ClosingIsNoFailure
<1> QED
  BY <1>1, <1>2, <1>3, <1>6, <1>9, HandshakeIsOver DEF VncInv

LEMMA VncStep == ASSUME VncInv, [VncNext]_vncVars PROVE VncInv'
<1>1. CASE UNCHANGED vncVars
  BY <1>1 DEF vncVars, VncInv, VncTypes, BeforeLive, Agreed, AnsweredRight, ChallengedOnly,
              ErrorHasCause, ClosingIsNoFailure
<1>2. CASE VncNext
  BY <1>2, OpeningStep, InitialiseStep, ScreenStep, ServerSendsStep, ReaderTakesStep, EndingStep
     DEF VncNext
<1> QED
  BY <1>1, <1>2

LEMMA VncInvIsSound == VncInv => VncIsSound
<1> SUFFICES ASSUME VncInv PROVE VncIsSound
  OBVIOUS
<1>1. VncTypes /\ BeforeLive /\ Agreed /\ AnsweredRight /\ ClosingIsNoFailure
  BY DEF VncInv
<1>2. server \in VncServers /\ client \in VncClients /\ shared \in VncShared
  BY <1>1 DEF VncTypes
<1>3. VncTypeOK
  BY <1>1, <1>2 DEF VncTypeOK, VncTypes, VncServers, VncClients, VncShared, Pixels
<1>4. NoSilentDowngrade
  BY <1>1 DEF NoSilentDowngrade, Agreed, AnsweredRight
<1>5. PictureIsWhole
  BY <1>2 DEF PictureIsWhole, VncShared, Pixels
<1> QED
  BY <1>1, <1>3, <1>4, <1>5 DEF VncIsSound

(* A VNC session is no weaker than the user asked for: with a password it  *)
(* is authenticated, by a type the server offered; every picture it hands  *)
(* out is painted everywhere; and closing it is not reported as a failure  *)
(* (vnc/mod.rs, handshake; vnc/live.rs, spawn_reader and close).           *)
THEOREM VncTheorem == VncSpec => []VncIsSound
<1>1. VncInit => VncInv
  BY VncInitial
<1>2. VncInv /\ [VncNext]_vncVars => VncInv'
  BY VncStep
<1>3. VncInv => VncIsSound
  BY VncInvIsSound
<1> QED
  BY <1>1, <1>2, <1>3, PTL DEF VncSpec
=============================================================================
