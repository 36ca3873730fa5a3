------------------------------- MODULE Framing -------------------------------
(***************************************************************************)
(* The framing below every TCP connection: BytesCodec of                   *)
(* libs/hbb_common/src/bytes_codec.rs under FramedStream of                *)
(* libs/hbb_common/src/tcp.rs.  A frame is a header of one to four bytes,  *)
(* whose two low bits tell its length, and its payload.                    *)
(*                                                                         *)
(* A send that times out leaves what was not flushed in the write buffer,  *)
(* and the next send goes on behind it.  The socket hands over any part of *)
(* what was flushed, cut inside a header or a payload.  Header bytes keep  *)
(* their values; a payload is the number of its frame and a count of its   *)
(* bytes.  SecureWire models what the frames carry; the raw mode of the    *)
(* codec, which no connection of the engine uses, is left out.             *)
(***************************************************************************)
EXTENDS Naturals, Sequences

CONSTANTS Lengths,      \* lengths of messages
          MaxPacket,    \* max_packet_length of the receiver
          MaxFrames     \* bound: messages sent

ASSUME FramingConstants ==
    /\ Lengths \subseteq Nat /\ MaxPacket \in Nat /\ MaxFrames \in Nat

VARIABLES sizes,        \* history: the lengths of the frames encoded
          out,          \* the write buffer of the sender
          src,          \* the read buffer of the receiver
          expected,     \* DecodeState: <<>> is Head, <<n>> is Data(n)
          got,          \* history: the frames decoded, 0 for a wrong one
          link          \* the connection: open, cut, or refused by the decoder

framingVars == <<sizes, out, src, expected, got, link>>

Byte(value) == [byte |-> value, of |-> 0, n |-> 1]
Payload(k, n) == IF n = 0 THEN <<>> ELSE <<[byte |-> 0, of |-> k, n |-> n]>>

(* The bytes of the first `i' items, for each i.                           *)
BytesOfFirst(items) ==
    LET sum[i \in 0..Len(items)] == IF i = 0 THEN 0 ELSE sum[i - 1] + items[i].n IN sum

(* The first `i' items and `m' bytes of the next one, and what remains.    *)
Taken(items, i, m) ==
    SubSeq(items, 1, i) \o (IF m = 0 THEN <<>> ELSE <<[items[i + 1] EXCEPT !.n = m]>>)
Left(items, i, m) ==
    IF m = 0 THEN SubSeq(items, i + 1, Len(items))
    ELSE <<[items[i + 1] EXCEPT !.n = @ - m]>> \o SubSeq(items, i + 2, Len(items))

(* The types of the buffers.                                               *)
FramingTypeOK ==
    /\ sizes \in Seq(Lengths) /\ Len(sizes) <= MaxFrames
    /\ \A buffer \in {out, src} : \A i \in DOMAIN buffer :
          buffer[i].byte \in 0..255 /\ buffer[i].n \in Nat \ {0}
    /\ Len(expected) <= 1 /\ link \in {"open", "cut", "refused"}

-----------------------------------------------------------------------------
(* encode *)

(* 0x3F, 0x3FFF, 0x3FFFFF and 0x3FFFFFFF are the longest payloads of the   *)
(* four headers.                                                           *)
\* mutant
HeaderLengthLate(n) ==
    CASE n <= 64 -> 1 [] n <= 16384 -> 2 [] n <= 4194304 -> 3
      [] n <= 1073741823 -> 4 [] OTHER -> 0

HeaderLength(n) ==
    CASE n <= 63 -> 1 [] n <= 16383 -> 2 [] n <= 4194303 -> 3
      [] n <= 1073741823 -> 4 [] OTHER -> 0

(* The length shifted by two, with the tag in the low bits, low byte       *)
(* first; the bytes the header has no room for are cut off.                *)
Header(n) ==
    SubSeq(<<Byte((n % 64) * 4 + (HeaderLength(n) - 1)),
             Byte((n \div 64) % 256), Byte((n \div 16384) % 256),
             Byte((n \div 4194304) % 256)>>, 1, HeaderLength(n))

(* send_bytes: a longer message is refused before anything is buffered.    *)
Send(n) ==
    /\ link = "open" /\ Len(sizes) < MaxFrames /\ HeaderLength(n) > 0
    /\ sizes' = Append(sizes, n)
    /\ out' = out \o Header(n) \o Payload(Len(sizes) + 1, n)
    /\ UNCHANGED <<src, expected, got, link>>

(* The socket takes a part of the write buffer and hands it over.  It cuts *)
(* anywhere between items, and each payload once, after its first byte or  *)
(* before its last.                                                        *)
Cuts(item) ==
    IF item.of # 0 /\ item.n = sizes[item.of] THEN {1, item.n - 1} \ {0, item.n} ELSE {}

Deliver ==
    /\ link = "open" /\ out # <<>>
    /\ \/ \E i \in 1..Len(out) :
             src' = src \o Taken(out, i, 0) /\ out' = Left(out, i, 0)
       \/ \E i \in 0..(Len(out) - 1) : \E m \in Cuts(out[i + 1]) :
             src' = src \o Taken(out, i, m) /\ out' = Left(out, i, m)
    /\ UNCHANGED <<sizes, expected, got, link>>

(* The connection breaks: what was not handed over is lost.                *)
LinkBreaks ==
    /\ link = "open" /\ link' = "cut" /\ out' = <<>>
    /\ UNCHANGED <<sizes, src, expected, got>>

-----------------------------------------------------------------------------
(* decode, called until it has no frame, and again when bytes arrive       *)

head_len == (src[1].byte % 4) + 1

DeclaredLength ==
    LET at(i, factor) == IF i > head_len THEN 0 ELSE src[i].byte * factor
    IN src[1].byte \div 4 + at(2, 64) + at(3, 16384) + at(4, 4194304)

(* decode_head: too long a frame is an error, which ends the stream.       *)
\* mutant
decode_head_early ==
    /\ expected = <<>> /\ src # <<>>
    /\ LET head == SubSeq(src, 1, head_len)
           short == Len(src) < head_len
           n == IF short THEN src[1].byte \div 4 ELSE DeclaredLength IN
       /\ expected' = <<n>>
       /\ src' = IF short THEN <<>> ELSE SubSeq(src, head_len + 1, Len(src))
    /\ UNCHANGED <<sizes, out, got, link>>

decode_head ==
    /\ expected = <<>> /\ src # <<>> /\ Len(src) >= head_len
    /\ \/ /\ DeclaredLength <= MaxPacket
          /\ expected' = <<DeclaredLength>>
          /\ src' = SubSeq(src, head_len + 1, Len(src))
          /\ UNCHANGED link
       \/ /\ DeclaredLength > MaxPacket
          /\ link' = "refused"
          /\ UNCHANGED <<expected, src>>
    /\ UNCHANGED <<sizes, out, got>>

(* The items that make up the first n bytes of the buffer.                 *)
Whole(n) == CHOOSE i \in 0..Len(src) :
    /\ BytesOfFirst(src)[i] <= n
    /\ i < Len(src) => BytesOfFirst(src)[i + 1] > n

(* Frame k is decoded whole when its payload, and nothing else, is taken.  *)
Decoded(k, items, n) ==
    IF n = sizes[k] /\ \A i \in DOMAIN items : items[i].of = k THEN k ELSE 0

\* mutant
EnoughAndMore(n) == BytesOfFirst(src)[Len(src)] > n

Enough(n) == BytesOfFirst(src)[Len(src)] >= n

decode_data ==
    /\ expected # <<>> /\ Enough(expected[1])
    /\ LET n == expected[1]
           i == Whole(n)
           m == n - BytesOfFirst(src)[i] IN
       /\ got' = Append(got, Decoded(Len(got) + 1, Taken(src, i, m), n))
       /\ src' = Left(src, i, m)
    /\ expected' = <<>>
    /\ UNCHANGED <<sizes, out, link>>

Reading == link # "refused" /\ (decode_head \/ decode_data)

FramingInit ==
    /\ sizes = <<>> /\ out = <<>> /\ src = <<>> /\ expected = <<>>
    /\ got = <<>> /\ link = "open"

FramingNext == (\E n \in Lengths : Send(n)) \/ Deliver \/ LinkBreaks \/ Reading

(* The socket makes progress, and the receiver polls what has arrived.     *)
FramingFairness == WF_framingVars(Deliver) /\ WF_framingVars(Reading)

FramingSpec == FramingInit /\ [][FramingNext]_framingVars /\ FramingFairness

-----------------------------------------------------------------------------
(* Properties                                                              *)

(* However a stream of frames is cut into reads, also behind a send that   *)
(* timed out half flushed, the decoder returns the payloads that were      *)
(* sent, whole and in their order, and never takes payload for a header.   *)
FramesAreExact ==
    /\ \A k \in DOMAIN got : got[k] = k
    /\ (expected = <<>> /\ src # <<>>) => src[1].of = 0

(* Every frame sent is decoded, unless the connection breaks or a frame is *)
(* longer than the receiver admits.                                        *)
FramesArrive ==
    (Len(got) < Len(sizes)) ~> (Len(got) = Len(sizes) \/ link # "open")
=============================================================================
